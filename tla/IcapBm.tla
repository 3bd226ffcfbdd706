-------------------------------- MODULE IcapBm --------------------------------
(***************************************************************************)
(* An ICAP application on bare metal: icap_send_msg and icap_parse_msg of  *)
(* icap.c over icap_bm_rpmsg-lite.c.  The main context calls application   *)
(* functions and icap_loop.  A synchronous call polls: it calls icap_loop, *)
(* looks whether last_response has its sequence number, and reads the      *)
(* clock.  icap_loop also runs the callbacks for messages of the device.   *)
(*                                                                         *)
(* The main context is its C stack: frames of calls that poll and of       *)
(* icap_loop while a callback runs, outermost first.  The receive callback *)
(* fills the ring in one step here; IcapFifo takes it apart.               *)
(*                                                                         *)
(* The ring points to receive buffers of rpmsg-lite, which icap_loop gives *)
(* back after parsing.  A callback that makes a synchronous call re-enters *)
(* icap_loop before the tail has moved, so buffers are read after they     *)
(* were given back, and given back twice; what is read then is anything    *)
(* the other core has sent.                                                *)
(***************************************************************************)
EXTENDS IcapMsg, Sequences, FiniteSets

CONSTANTS Cmd,          \* commands the application sends
          Note,         \* commands the device sends
          Ret,          \* return values of callbacks
          Addr,         \* addresses of the endpoints of the other core
          Unknown,      \* (uint32_t)-1
          QueueSize,    \* ICAP_MSG_QUEUE_SIZE
          SeqMod,       \* 2^32: seq_num is a uint32_t
          ClockMod,     \* 2^32: platform_us_clock_tick returns a uint32_t
          MsgTimeout,   \* ICAP_MSG_TIMEOUT_US
          MaxLapse,     \* longest time between two readings of the clock
          Reentrant,    \* callbacks call application functions
          MaxCalls,     \* bound: calls issued in a behaviour
          MaxDepth,     \* bound: frames of the stack up to the innermost call
          MaxNotes,     \* bound: messages of the device in a behaviour
          MaxSessions,  \* bound: icap_application_init after the first one
          NoCall

Index == 0..(QueueSize - 1)

\* A message of either side; id is a history field, the number of the call or
\* of the device's message, val the first word of the payload.
Body == [type : {"MSG", "ACK", "NAK"}, seq : Nat, id : Nat, len : Nat, val : Int,
         cmd : DeviceCmd \cup NoteCmd \cup {"NONE"}]
Sent(to, body) == [to |-> to, body |-> body]
Received(from, body) == [from |-> from, body |-> body]

\* icap_send_response: the response `reply` to the message m.
Response(m, reply) == [type |-> reply.type, seq |-> m.seq, id |-> m.id, cmd |-> m.cmd,
                       len |-> reply.len, val |-> reply.val]

ASSUME BmAssumption ==
  /\ Cmd \subseteq DeviceCmd /\ Note \subseteq NoteCmd
  /\ Ret \subseteq Int
  /\ Unknown \notin Addr
  /\ QueueSize \in Nat \ {0, 1}
  /\ SeqMod \in Nat \ {0} /\ ClockMod \in Nat
  /\ MsgTimeout \in Nat \ {0} /\ MaxLapse \in Nat
  /\ MsgTimeout + MaxLapse <= ClockMod
  /\ Reentrant \in BOOLEAN
  /\ MaxCalls \in Nat /\ MaxDepth \in Nat /\ MaxNotes \in Nat /\ MaxSessions \in Nat
  /\ NoCall \notin [id : Nat, cmd : Cmd]

VARIABLES
  registered,        \* icap->callbacks # NULL
  sessions,          \* initialisations after the first one
  seqNum,            \* icap->seq_num
  remote,            \* transport.remote_addr
  head, tail, slot,  \* transport.msg_fifo, a slot with the message it was filled with
  held,              \* slots whose receive buffer has not been given back
  torn,              \* a buffer was given back twice
  last,              \* transport.last_response
  stack,             \* what the main context is doing
  clock,             \* platform_us_clock_tick
  toDev, toApp,      \* messages in flight
  notes,             \* messages the device has sent
  written,           \* history: bodies of all the other core has sent, lost or not
  handled,           \* history: callbacks run for each of them
  calls, ran, result \* history, see IcapCall

ring == <<head, tail, slot, held, torn>>
channel == <<toDev, toApp>>
instance == <<registered, sessions>>
history == <<notes, written, handled, calls, ran, result>>
vars == <<instance, seqNum, remote, ring, last, stack, clock, channel, history>>

\* Mutant: the index runs to QueueSize.
FollowingLate(i) == IF i + 1 > QueueSize THEN 0 ELSE i + 1
Following(i) == IF i + 1 >= QueueSize THEN 0 ELSE i + 1

\* Cleared memory: last_response before the first response, an unused slot.
Zeroes == Received(Unknown, [type |-> "MSG", seq |-> 0, id |-> 0, cmd |-> "NONE",
                             len |-> 0, val |-> 0])

LocalError == {-ICAP_ERROR_TIMEOUT, -ICAP_ERROR_MSG_LEN}

Top == stack[Len(stack)]
Below == SubSeq(stack, 1, Len(stack) - 1)
IsCall(frame) == frame.kind = "call"
Calling(at) == stack # <<>> /\ IsCall(Top) /\ Top.at = at
InCallback == stack # <<>> /\ ~IsCall(Top)

Init == /\ registered = TRUE /\ sessions = 0
        /\ seqNum = 0 /\ remote = Unknown
        /\ head = 0 /\ tail = 0 /\ slot = [i \in Index |-> Zeroes]
        /\ held = {} /\ torn = FALSE
        /\ last = Zeroes /\ stack = <<>>
        /\ clock \in 0..(ClockMod - 1)
        /\ toDev = {} /\ toApp = {}
        /\ notes = 0 /\ written = {} /\ handled = [n \in 1..MaxNotes |-> 0]
        /\ calls = 0 /\ ran = {} /\ result = [t \in 1..MaxDepth |-> 0]
-----------------------------------------------------------------------------
(* icap_send_msg with sync = 1. *)

\* A call is made in the main loop, or in a callback that icap_loop runs.
CanCall == /\ calls < MaxCalls
           /\ stack = <<>> \/ (Reentrant /\ InCallback)
           /\ Len(stack) < MaxDepth

\* The message is numbered and sent, or not: a failure is ignored.  Then
\* icap_wait_for_response reads the clock.
Call(c) ==
  /\ CanCall
  /\ calls' = calls + 1
  /\ seqNum' = (seqNum + 1) % SeqMod
  /\ toDev' \in {toDev, toDev \cup
                   {Sent(remote, [type |-> "MSG", seq |-> seqNum', id |-> calls',
                                  cmd |-> c, len |-> 0, val |-> 0])}}
  /\ stack' = Append(stack, [kind |-> "call", at |-> "poll", id |-> calls', cmd |-> c,
                             seq |-> seqNum', start |-> clock, waited |-> 0])
  /\ UNCHANGED <<instance, remote, ring, last, clock, toApp, notes, written, handled,
                 ran, result>>

\* Mutant: any response is taken.
MatchesAny == last # Zeroes

\* The response taken for the one awaited.
Matches == last.body.seq = Top.seq

\* Mutant: a deadline is computed and compared.
GivesUpDeadline(d) == (clock + d) % ClockMod >= (Top.start + MsgTimeout) % ClockMod

\* A call that is not answered looks at the clock, d after it did so before.
GivesUp(d) == (clock + d + ClockMod - Top.start) % ClockMod >= MsgTimeout

\* icap_send_msg returns v.
Return(v) == /\ stack' = Below
             /\ result' = [result EXCEPT ![Len(stack)] = v]

\* The rest of a turn of the loop in icap_wait_for_response, d after the last one.
Test(d) ==
  /\ Calling("test")
  /\ clock' = (clock + d) % ClockMod
  /\ \/ Matches /\ Return(CallResult(Top.cmd, last.body))
     \/ ~Matches /\ GivesUp(d) /\ Return(-ICAP_ERROR_TIMEOUT)
     \/ /\ ~Matches /\ ~GivesUp(d)
        /\ stack' = Append(Below, [Top EXCEPT !.at = "poll", !.waited = @ + d])
        /\ UNCHANGED result
  /\ UNCHANGED <<instance, seqNum, remote, ring, last, channel, notes, written, handled,
                 calls, ran>>
-----------------------------------------------------------------------------
(* icap_loop, called by the main loop or by a call that polls. *)

CanPoll == stack = <<>> \/ Calling("poll")
Oldest == slot[Following(tail)]

\* The buffer of slot i still belongs to this instance and to no other slot.
Intact(i) == i \in held /\ ~torn

\* What is read from the buffer of the oldest slot.  If it has been given back, the other
\* core may be writing there: the header of any message it sent, with the payload of any.
Readings ==
  IF Intact(Following(tail)) THEN {Oldest}
  ELSE {Received(Oldest.from, [h EXCEPT !.val = p.val]) : h, p \in written}

\* rpmsg_lite_release_rx_buffer, of the buffer slot i points to.
Release(i) == IF i \in held THEN held' = held \ {i} /\ UNCHANGED torn
                            ELSE torn' = TRUE /\ UNCHANGED held

\* icap_loop has returned to frames.
Polled(frames) == IF frames = <<>> THEN frames
                  ELSE [frames EXCEPT ![Len(frames)].at = "test"]

\* Mutant: icap_loop waits for a message.
PollEmptyWaits ==
  /\ Calling("poll")
  /\ head = tail
  /\ UNCHANGED vars

\* Nothing in the ring.
PollEmpty ==
  /\ Calling("poll")
  /\ head = tail
  /\ stack' = Polled(stack)
  /\ UNCHANGED <<instance, seqNum, remote, ring, last, clock, channel, history>>

\* icap_parse_msg refuses a message without callbacks, of another length than the one
\* received into the slot, or when icap_verify_remote fails; the mutant does not compare
\* addresses.
RefusedUnregistered(m) == ~registered \/ m.body.len # Oldest.body.len
Refused(m) == \/ ~registered \/ m.body.len # Oldest.body.len
              \/ remote # Unknown /\ m.from # remote

\* icap_verify_remote remembers the first address.
Verify(m) == remote' = IF remote = Unknown THEN m.from ELSE remote

PollRefuse ==
  /\ CanPoll /\ head # tail
  /\ \E m \in Readings : Refused(m)
  /\ Release(Following(tail)) /\ tail' = Following(tail)
  /\ stack' = Polled(stack)
  /\ UNCHANGED <<instance, seqNum, remote, head, slot, last, clock, channel, history>>

\* A response: icap_response_notify copies it to last_response.
PollResponse(m) ==
  /\ CanPoll /\ head # tail
  /\ ~Refused(m) /\ m.body.type # "MSG"
  /\ Verify(m)
  /\ last' = m
  /\ Release(Following(tail)) /\ tail' = Following(tail)
  /\ stack' = Polled(stack)
  /\ UNCHANGED <<instance, seqNum, head, slot, clock, channel, history>>

\* A message of the device: icap_application_parse_msg calls the callback ...
PollMessage(m) ==
  /\ CanPoll /\ head # tail
  /\ ~Refused(m) /\ m.body.type = "MSG"
  /\ Verify(m)
  /\ stack' = Append(stack, [kind |-> "loop", next |-> Following(tail), msg |-> m])
  /\ handled' = [handled EXCEPT ![m.body.id] = @ + 1]
  /\ UNCHANGED <<instance, seqNum, ring, last, clock, channel, notes, written, calls, ran,
                 result>>

\* The header of the message, read again after the callback.
Headers == IF Intact(Top.next) /\ slot[Top.next] = Top.msg THEN {Top.msg.body} ELSE written

\* Mutant: tail is not advanced.
CallbackReturnStays(ret) ==
  LET reply == AppReply(Top.msg.body.cmd, Top.msg.body.val, ret)
  IN  /\ InCallback
      /\ \E h \in Headers : toDev' \in {toDev, toDev \cup {Sent(remote, Response(h, reply))}}
      /\ Release(Top.next)
      /\ stack' = Polled(Below)
      /\ UNCHANGED <<instance, seqNum, remote, head, tail, slot, last, clock, toApp, history>>

\* ... responds, and icap_loop gives the buffer back and advances tail.
CallbackReturn(ret) ==
  LET reply == AppReply(Top.msg.body.cmd, Top.msg.body.val, ret)
  IN  /\ InCallback
      /\ \E h \in Headers : toDev' \in {toDev, toDev \cup {Sent(remote, Response(h, reply))}}
      /\ Release(Top.next) /\ tail' = Top.next
      /\ stack' = Polled(Below)
      /\ UNCHANGED <<instance, seqNum, remote, head, slot, last, clock, toApp, history>>
-----------------------------------------------------------------------------
(* The receive callback of the endpoint: icap_put_msg. *)

Put(m) ==
  /\ toApp' = toApp \ {m}
  /\ IF registered /\ Following(head) # tail
     THEN /\ slot' = [slot EXCEPT ![Following(head)] = m]
          /\ head' = Following(head)
          /\ held' = held \cup {Following(head)}
     ELSE UNCHANGED <<slot, head, held>>
  /\ UNCHANGED <<instance, seqNum, remote, tail, torn, last, stack, clock, toDev, history>>
-----------------------------------------------------------------------------
(* The other core. *)

\* icap_device_parse_msg of the instance at the address the request was sent to.
DeviceParse(m, ret) ==
  LET answer == Response(m.body, DeviceReply(m.body.cmd, ret))
  IN  /\ m.to \in Addr /\ m.body.type = "MSG"
      /\ toDev' = toDev \ {m}
      /\ ran' = ran \cup {[id |-> m.body.id, ret |-> DeviceRet(m.body.cmd, ret)]}
      /\ written' = written \cup {answer}
      /\ toApp' \in {toApp, toApp \cup {Received(m.to, answer)}}
      /\ UNCHANGED <<instance, seqNum, remote, ring, last, stack, clock, notes,
                     handled, calls, result>>

\* The device at address a sends a message of its own.
DeviceNote(a, c) ==
  LET note == [type |-> "MSG", seq |-> notes', id |-> notes', cmd |-> c,
               len |-> WordLen, val |-> 0]
  IN  /\ notes < MaxNotes
      /\ notes' = notes + 1
      /\ written' = written \cup {note}
      /\ toApp' = toApp \cup {Received(a, note)}
      /\ UNCHANGED <<instance, seqNum, remote, ring, last, stack, clock, toDev,
                     handled, calls, ran, result>>

\* A message is lost on its way to the device, or is a response and has been read.
Gone(m) ==
  /\ toDev' = toDev \ {m}
  /\ UNCHANGED <<instance, seqNum, remote, ring, last, stack, clock, toApp, history>>
-----------------------------------------------------------------------------
(* icap_application_deinit and icap_application_init, in the main context. *)

Deinit ==
  /\ registered /\ stack = <<>>
  /\ registered' = FALSE
  /\ UNCHANGED <<sessions, seqNum, remote, ring, last, stack, clock, channel, history>>

AppInit ==
  /\ ~registered /\ stack = <<>>
  /\ sessions < MaxSessions
  /\ sessions' = sessions + 1
  /\ registered' = TRUE
  /\ seqNum' = 0 /\ remote' = Unknown
  /\ head' = 0 /\ tail' = 0 /\ slot' = [i \in Index |-> Zeroes] /\ held' = {}
  /\ UNCHANGED <<torn, last, stack, clock, channel, history>>
-----------------------------------------------------------------------------
Poll == \/ PollEmpty \/ PollRefuse
        \/ \E m \in Readings : PollResponse(m)
        \/ \E m \in Readings : PollMessage(m)
Main == \/ Poll
        \/ \E d \in 0..MaxLapse : Test(d)
        \/ \E ret \in Ret : CallbackReturn(ret)

\* The bounds are used up and nothing is left to do.
Exhausted ==
  /\ calls = MaxCalls /\ notes = MaxNotes /\ sessions = MaxSessions /\ ~registered
  /\ stack = <<>> /\ head = tail /\ toDev = {} /\ toApp = {}
  /\ UNCHANGED vars

Next == \/ \E c \in Cmd : Call(c)
        \/ Main
        \/ \E m \in toApp : Put(m)
        \/ \E m \in toDev : \E ret \in LegalRet(m.body.cmd, Ret) : DeviceParse(m, ret)
        \/ \E a \in Addr, c \in Note : DeviceNote(a, c)
        \/ \E m \in toDev : Gone(m)
        \/ Deinit \/ AppInit
        \/ Exhausted

Spec == Init /\ [][Next]_vars

\* The main context runs, callbacks return, and the clock is seen to advance.
\* Nothing is assumed of the device, of the channel or of the receive callback.
FairSpec == /\ Spec
            /\ WF_vars(Main)
            /\ SF_vars(\E d \in 1..MaxLapse : Test(d))
-----------------------------------------------------------------------------
(* Properties. *)

Message == [from : Addr \cup {Unknown}, body : Body]
CallFrame == [kind : {"call"}, at : {"poll", "test"}, id : 1..MaxCalls, cmd : Cmd,
              seq : 0..(SeqMod - 1), start : 0..(ClockMod - 1), waited : Nat]
LoopFrame == [kind : {"loop"}, next : Index, msg : Message]

\* Every variable has its type, and the messages, frames and counters are what
\* icap_bm_rpmsg-lite.h and icap_transport.h declare.
TypeOK ==
  /\ registered \in BOOLEAN /\ sessions \in 0..MaxSessions
  /\ seqNum \in 0..(SeqMod - 1) /\ remote \in Addr \cup {Unknown}
  /\ head \in Index /\ tail \in Index /\ slot \in [Index -> Message]
  /\ held \in SUBSET Index /\ torn \in BOOLEAN /\ written \in SUBSET Body
  /\ last \in Message
  /\ stack \in Seq(CallFrame \cup LoopFrame)
  /\ clock \in 0..(ClockMod - 1)
  /\ toDev \in SUBSET [to : Addr \cup {Unknown}, body : Body]
  /\ toApp \in SUBSET Message
  /\ notes \in 0..MaxNotes /\ handled \in [1..MaxNotes -> Nat]
  /\ calls \in 0..MaxCalls
  /\ ran \in SUBSET [id : Nat, ret : Int]
  /\ result \in [1..MaxDepth -> Int]

\* The response icap_wait_for_response takes for the one it waits for ("Got proper
\* response") answers this call: last_response may hold the response to an earlier
\* call, and a late one may replace it at any turn.
OwnReply == Calling("test") /\ Matches => last.body.id = Top.id

\* The requests on their way, the responses on theirs or in the ring, where one that was
\* read remains until its slot is filled again, and last_response; and the numbers of
\* these and of the calls in progress.
Bodies == {m.body : m \in {n \in toDev : n.body.type = "MSG"}}
          \cup {m.body : m \in {n \in toApp : n.body.type # "MSG"}}
          \cup {slot[i].body : i \in {j \in Index : slot[j].body.type # "MSG"}}
          \cup {last.body}
UsedNumbers == {b.seq : b \in Bodies}
               \cup {stack[i].seq : i \in {j \in DOMAIN stack : IsCall(stack[j])}}

\* The number that a call would take is of no other call, message or response: what is
\* left behind by calls that gave up, or by an earlier session in last_response, is gone
\* before seq_num comes round to its number.
NumberFree == CanCall => (seqNum + 1) % SeqMod \notin UsedNumbers

\* That is all it takes, past 2^32 calls and after a second initialisation, as long as
\* callbacks make no calls.
FreeNumbersSuffice == []NumberFree => []OwnReply

\* A call that is not answered gives up at the first look at the clock that is
\* ICAP_MSG_TIMEOUT_US or more after the message was sent and not before, though
\* the 32-bit clock wraps in between.
TimeoutExact ==
  [][\A d \in 0..MaxLapse :
       Test(d) /\ ~Matches =>
         (Len(stack') < Len(stack) <=> Top.waited + d >= MsgTimeout)]_vars

\* "ICAP is one-to-one communication, talk only to the first end point": whatever
\* the instance has handled in its first session came from one address.
OneToOne ==
  sessions = 0 => /\ last.from \in {Unknown, remote}
                  /\ \A i \in DOMAIN stack : IsCall(stack[i]) \/ stack[i].msg.from = remote

\* A receive buffer is given back once, and is not read after that: rpmsg-lite would
\* hand it to the other core twice.
ReleasedOnce ==
  /\ ~torn
  /\ CanPoll /\ head # tail => Intact(Following(tail))

\* A message of the device triggers its callback once.
HandledOnce == \A n \in 1..MaxNotes : handled[n] <= 1

\* Each call has at most one callback run and returns what that callback
\* returned or an error of its own side: the promise of IcapCall, made to each depth
\* of the stack, of which only the first calls if callbacks make no calls.
Abs == INSTANCE IcapCall WITH
         Thread <- 1..MaxDepth,
         call <- [t \in 1..MaxDepth |->
                    IF t <= Len(stack) /\ IsCall(stack[t])
                    THEN [id |-> stack[t].id, cmd |-> stack[t].cmd] ELSE NoCall]

Implements == Abs!Spec

\* Every call returns, whatever is lost and however many messages of the device
\* are handled meanwhile, as long as callbacks make no calls: icap_loop runs one that
\* does again inside itself, over and over.
CallsReturn == \A n \in 1..MaxCalls :
                 (\E i \in DOMAIN stack : IsCall(stack[i]) /\ stack[i].id = n)
                 ~> (\A i \in DOMAIN stack : IsCall(stack[i]) => stack[i].id # n)
=============================================================================
