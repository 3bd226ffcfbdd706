------------------------------ MODULE IcapKernel ------------------------------
(***************************************************************************)
(* Synchronous calls of an ICAP application in the Linux kernel:           *)
(* icap_send_msg of icap.c over icap_linux_kernel_rpmsg.c.  Several        *)
(* threads call application functions of one instance.  Each call takes a  *)
(* sequence number, links a buffer (skb) with that number into the         *)
(* response queue, sends the message and sleeps.  The receive callback     *)
(* copies a response into the buffer with its number and wakes the         *)
(* sleepers.  Timeouts, signals, lost messages and icap_application_deinit *)
(* race with all of this.                                                  *)
(*                                                                         *)
(* A buffer is a block of memory that alloc_skb hands out and kfree_skb    *)
(* takes back; a thread knows its buffer by the pointer that the lookup by *)
(* number gave it, and nothing else.  A thread whose pointer has gone      *)
(* stale crashes, or goes on with what it reads there.  What stale links   *)
(* of an skb do to the rest of the memory is not modelled.                 *)
(*                                                                         *)
(* rpdev_lock is held over several steps by icap_application_deinit only,  *)
(* so it is taken exactly when teardown = "clear".                         *)
(***************************************************************************)
EXTENDS IcapMsg, Sequences, FiniteSets

S == INSTANCE SequencesExt

CONSTANTS Thread,        \* threads that call application functions
          Callback,      \* the one that is the receive callback itself, if any:
                         \* an application callback calls application functions
          Cmd,           \* the commands they send
          Ret,           \* return values of the device's callbacks
          Skb,           \* blocks of memory that alloc_skb may return
          Garbage,       \* results a call may read from freed memory
          MaxCalls,      \* bound: calls issued in a behaviour
          MaxSessions,   \* bound: icap_application_init after the first one
          SeqMod,        \* 2^32: seq_num is a uint32_t
          Quiesced,      \* no call is in progress while the instance is deinitialised
          FreshChannel,  \* init gets a new rpmsg channel, with nothing in flight
          NoCall, NoMsg, NoSkb, Free

\* A message of the application and a response, with the header fields that
\* are looked at; id is a history field, the number of the call.
Request == [seq : Nat, id : Nat, cmd : Cmd]
Reply == [seq : Nat, id : Nat, type : {"ACK", "NAK"}, len : Nat, val : Int]
CallInfo == [id : Nat, cmd : Cmd]

\* An skb: hint->seq_num, the number of the call that allocated it (history), and the
\* responses put into it; hint->received is "not empty".
Buffer == [seq : Nat, id : Nat, got : Seq(Reply)]
Blank == [seq |-> 0, id |-> 0, got |-> <<>>]

ASSUME KernelAssumption ==
  /\ IsFiniteSet(Thread)
  /\ Callback \subseteq Thread /\ \A t, u \in Callback : t = u
  /\ Cmd \subseteq DeviceCmd
  /\ Ret \subseteq Int /\ Garbage \subseteq Int
  /\ MaxCalls \in Nat /\ MaxSessions \in Nat
  /\ SeqMod \in Nat \ {0}
  /\ Quiesced \in BOOLEAN /\ FreshChannel \in BOOLEAN
  /\ Free \notin Thread
  /\ NoCall \notin CallInfo /\ NoMsg \notin Reply /\ NoSkb \notin Skb

VARIABLES
  registered,    \* icap->callbacks # NULL
  rpdev,         \* transport->rpdev # NULL
  seqNum,        \* icap->seq_num
  platformLock,  \* owner of platform_lock, or Free
  queue,         \* response_queue: the linked blocks, oldest first
  used,          \* blocks that are allocated
  skb,           \* what is in each block
  teardown,      \* progress of icap_application_deinit
  sessions,      \* initialisations after the first one
  pc,            \* where a thread is in icap_send_msg
  seq,           \* its local seq_num
  buf,           \* its local skb of icap_wait_for_response, or NoSkb
  woke,          \* what ended wait_event_interruptible_timeout
  rx,            \* response the receive callback is working on, or NoMsg
  toDev, toApp,  \* messages in flight on the rpmsg channel
  calls, call, ran, result   \* history, see IcapCall

history == <<calls, call, ran, result>>
instance == <<registered, rpdev, teardown, sessions>>
channel == <<toDev, toApp>>
memory == <<queue, used, skb>>
local == <<seq, buf, woke>>
vars == <<instance, seqNum, platformLock, memory, pc, local, rx, channel, history>>

\* Errors a call returns without an answer of the device.
LocalError == {-ICAP_ERROR_BROKEN_CON, -ICAP_ERROR_NOMEM, -ICAP_ERROR_PROTOCOL,
               -ICAP_ERROR_TIMEOUT, -ICAP_ERROR_MSG_LEN, -ERESTARTSYS}

At(t, from) == pc[t] = from
Goto(t, to) == pc' = [pc EXCEPT ![t] = to]

\* icap_send_msg returns v to thread t.
Return(t, v) == /\ Goto(t, "idle")
                /\ result' = [result EXCEPT ![t] = v]
                /\ call' = [call EXCEPT ![t] = NoCall]
                /\ seq' = [seq EXCEPT ![t] = 0]
                /\ buf' = [buf EXCEPT ![t] = NoSkb]
                /\ woke' = [woke EXCEPT ![t] = "asleep"]
                /\ UNCHANGED <<calls, ran>>

Init == /\ registered = TRUE /\ rpdev = TRUE
        /\ teardown = "none" /\ sessions = 0
        /\ seqNum = 0 /\ platformLock = Free
        /\ queue = <<>> /\ used = {} /\ skb = [b \in Skb |-> Blank]
        /\ pc = [t \in Thread |-> "idle"]
        /\ seq = [t \in Thread |-> 0]
        /\ buf = [t \in Thread |-> NoSkb]
        /\ woke = [t \in Thread |-> "asleep"]
        /\ rx = NoMsg /\ toDev = {} /\ toApp = {}
        /\ calls = 0
        /\ call = [t \in Thread |-> NoCall]
        /\ ran = {}
        /\ result = [t \in Thread |-> 0]
\* The blocks that are linked; whether a block is known to be of number n; and the
\* blocks where _find_seq_num may stop: the first one with the number, or a freed one
\* before it, which may look like anything.
Linked == S!ToSet(queue)
Has(b, n) == b \in used /\ skb[b].seq = n
Found(n) == {queue[i] : i \in {j \in DOMAIN queue :
                                 /\ Has(queue[j], n) \/ queue[j] \notin used
                                 /\ \A k \in 1..(j - 1) : ~Has(queue[k], n)}}
-----------------------------------------------------------------------------
(* The calling thread: icap_send_msg with sync = 1. *)

\* Thread t calls the application function of command c.
Call(t, c) ==
  /\ At(t, "idle")
  /\ calls < MaxCalls
  /\ t \in Callback => registered /\ rx = NoMsg
  /\ Quiesced => teardown = "none"
  /\ calls' = calls + 1
  /\ call' = [call EXCEPT ![t] = [id |-> calls', cmd |-> c]]
  /\ Goto(t, "number")
  /\ UNCHANGED <<instance, seqNum, platformLock, memory, local, rx, channel, ran, result>>

\* Mutants: without the lock, and counting beyond 32 bits.
TakeNumberUnlocked(t) ==
  /\ At(t, "number")
  /\ seqNum' = (seqNum + 1) % SeqMod
  /\ Goto(t, "numbered")
  /\ UNCHANGED <<instance, platformLock, memory, local, rx, channel, history>>

TakeNumberWide(t) ==
  /\ At(t, "number")
  /\ platformLock = Free
  /\ platformLock' = t
  /\ seqNum' = seqNum + 1
  /\ Goto(t, "numbered")
  /\ UNCHANGED <<instance, memory, local, rx, channel, history>>

\* icap_platform_lock; icap->seq_num++
TakeNumber(t) ==
  /\ At(t, "number")
  /\ platformLock = Free
  /\ platformLock' = t
  /\ seqNum' = (seqNum + 1) % SeqMod
  /\ Goto(t, "numbered")
  /\ UNCHANGED <<instance, memory, local, rx, channel, history>>

\* seq_num = icap->seq_num; icap_platform_unlock
ReadNumber(t) ==
  /\ At(t, "numbered")
  /\ seq' = [seq EXCEPT ![t] = seqNum]
  /\ platformLock' = Free
  /\ Goto(t, "prepare")
  /\ UNCHANGED <<instance, seqNum, memory, buf, woke, rx, channel, history>>

\* icap_prepare_wait, all of it under rpdev_lock.
PrepareWait(t) ==
  /\ At(t, "prepare")
  /\ teardown # "clear"
  /\ \/ /\ rpdev
        /\ \E b \in Skb \ used :
             /\ used' = used \cup {b}
             /\ skb' = [skb EXCEPT ![b] = [seq |-> seq[t], id |-> call[t].id, got |-> <<>>]]
             /\ queue' = Append(queue, b)
        /\ Goto(t, "send")
        /\ UNCHANGED <<local, history>>
     \/ /\ ~rpdev
        /\ Return(t, -ICAP_ERROR_BROKEN_CON)
        /\ UNCHANGED memory
     \/ /\ rpdev   \* alloc_skb failed
        /\ Return(t, -ICAP_ERROR_NOMEM)
        /\ UNCHANGED memory
  /\ UNCHANGED <<instance, seqNum, platformLock, rx, channel>>

\* Mutant: the test of transport->rpdev is left to icap_prepare_wait.
SendUnchecked(t) ==
  /\ At(t, "send")
  /\ teardown # "clear"
  /\ toDev' = toDev \cup {[seq |-> seq[t], id |-> call[t].id, cmd |-> call[t].cmd]}
  /\ Goto(t, "find")
  /\ UNCHANGED <<instance, seqNum, platformLock, memory, local, rx, toApp, history>>

\* icap_send_platform; a synchronous call ignores what it returns, so a message
\* rpmsg_send could not send is not told from one that is on its way.
Send(t) ==
  /\ At(t, "send")
  /\ teardown # "clear"
  /\ \/ /\ rpdev
        /\ toDev' = toDev \cup {[seq |-> seq[t], id |-> call[t].id, cmd |-> call[t].cmd]}
     \/ UNCHANGED toDev
  /\ Goto(t, "find")
  /\ UNCHANGED <<instance, seqNum, platformLock, memory, local, rx, toApp, history>>

\* icap_wait_for_response looks an skb up by sequence number: the first one that
\* has it is the one the call goes on with, whoever linked it.
FindBuffer(t) ==
  /\ At(t, "find")
  /\ \/ /\ \E b \in Found(seq[t]) : buf' = [buf EXCEPT ![t] = b]
        /\ Goto(t, "wait")
        /\ UNCHANGED <<seq, woke, history>>
     \/ /\ \A b \in Linked : ~Has(b, seq[t])   \* "This should never happen"
        /\ Return(t, -ICAP_ERROR_PROTOCOL)
  /\ UNCHANGED <<instance, seqNum, platformLock, memory, rx, channel>>

\* The responses in the skb of thread t.
Got(t) == skb[buf[t]].got

\* Mutant: wait_event, without a timer.
WakeUpOnReply(t, why) ==
  /\ At(t, "wait")
  /\ why = "reply" /\ Got(t) # <<>>
  /\ woke' = [woke EXCEPT ![t] = why]
  /\ Goto(t, "unlink")
  /\ UNCHANGED <<instance, seqNum, platformLock, memory, seq, buf, rx, channel, history>>

\* wait_event_interruptible_timeout returns.  The condition is tested before
\* the signal and the timer; in a freed skb it may read as anything.
WakeUp(t, why) ==
  /\ At(t, "wait")
  /\ \/ why = "reply" /\ Got(t) # <<>>
     \/ why \in {"signal", "timeout"} /\ Got(t) = <<>>
     \/ buf[t] \notin used
  /\ woke' = [woke EXCEPT ![t] = why]
  /\ Goto(t, "unlink")
  /\ UNCHANGED <<instance, seqNum, platformLock, memory, seq, buf, rx, channel, history>>

\* Mutant: a signal leaves the skb in the queue.
UnlinkUnlessSignal(t) ==
  /\ At(t, "unlink")
  /\ \/ \E i \in DOMAIN queue : /\ queue[i] = buf[t]
                                /\ queue' = IF woke[t] = "signal" THEN queue ELSE S!RemoveAt(queue, i)
     \/ buf[t] \notin used \cup Linked /\ UNCHANGED queue
  /\ Goto(t, "finish")
  /\ UNCHANGED <<instance, seqNum, platformLock, used, skb, local, rx, channel, history>>

\* skb_unlink.  An skb that is not linked any more has null links, so the kernel
\* crashes (Oops); only where it has been freed as well may the links be others.
Unlink(t) ==
  /\ At(t, "unlink")
  /\ \/ \E i \in DOMAIN queue : queue[i] = buf[t] /\ queue' = S!RemoveAt(queue, i)
     \/ buf[t] \notin used \cup Linked /\ UNCHANGED queue
  /\ Goto(t, "finish")
  /\ UNCHANGED <<instance, seqNum, platformLock, used, skb, local, rx, channel, history>>

\* The results that may be read from the skb of thread t.
Readable(t) == IF buf[t] \in used /\ Got(t) # <<>>
               THEN {CallResult(call[t].cmd, Head(Got(t)))} ELSE Garbage

\* kfree_skb, of whatever the block is used for by now.
FreeBuffer(t) == /\ used' = used \ {buf[t]}
                 /\ skb' = [skb EXCEPT ![buf[t]] = Blank]
                 /\ UNCHANGED queue

\* Mutant: a timeout is not an error.
FinishNoError(t) ==
  /\ At(t, "finish")
  /\ \/ woke[t] = "reply" /\ \E v \in Readable(t) : Return(t, v)
     \/ woke[t] # "reply" /\ Return(t, 0)
  /\ FreeBuffer(t)
  /\ UNCHANGED <<instance, seqNum, platformLock, rx, channel>>

\* The rest of icap_wait_for_response: the result, then kfree_skb.
Finish(t) ==
  /\ At(t, "finish")
  /\ \/ woke[t] = "reply" /\ \E v \in Readable(t) : Return(t, v)
     \/ woke[t] = "signal" /\ Return(t, -ERESTARTSYS)
     \/ /\ woke[t] = "timeout"
        /\ teardown # "clear"   \* rpdev_lock
        /\ Return(t, IF rpdev THEN -ICAP_ERROR_TIMEOUT ELSE -ICAP_ERROR_BROKEN_CON)
  /\ FreeBuffer(t)
  /\ UNCHANGED <<instance, seqNum, platformLock, rx, channel>>

\* A thread that follows a pointer into freed memory, or null links, may crash.
Oops(t) ==
  /\ \/ At(t, "find") /\ ~(Linked \subseteq used)
     \/ pc[t] \in {"wait", "unlink", "finish"} /\ buf[t] \notin used
     \/ At(t, "unlink") /\ buf[t] \notin Linked
  /\ Goto(t, "oops")
  /\ UNCHANGED <<instance, seqNum, platformLock, memory, local, rx, channel, history>>
-----------------------------------------------------------------------------
(* The receive callback of the rpmsg endpoint: icap_parse_msg. *)

\* A message is handed to icap_parse_msg, which first tests icap->callbacks.
Receive(m) ==
  /\ rx = NoMsg /\ \A t \in Callback : At(t, "idle")
  /\ toApp' = toApp \ {m}
  /\ rx' = IF registered THEN m ELSE NoMsg
  /\ UNCHANGED <<instance, seqNum, platformLock, memory, pc, local, toDev, history>>

\* The response in rx is put into block b, behind what is there.
Fill(b) == skb' = [skb EXCEPT ![b].got = Append(@, rx)]

\* Mutants: the skb is unlinked when it is filled; numbers are not compared.
NotifyUnlinks ==
  /\ rx # NoMsg
  /\ \/ \E i \in DOMAIN queue : /\ queue[i] \in Found(rx.seq)
                                /\ Fill(queue[i])
                                /\ queue' = S!RemoveAt(queue, i)
     \/ (\A b \in Linked : ~Has(b, rx.seq)) /\ UNCHANGED <<skb, queue>>
  /\ rx' = NoMsg
  /\ UNCHANGED <<instance, seqNum, platformLock, used, pc, local, channel, history>>

NotifyAny ==
  /\ rx # NoMsg
  /\ IF Linked = {} THEN UNCHANGED skb ELSE \E b \in Linked : Fill(b)
  /\ rx' = NoMsg
  /\ UNCHANGED <<instance, seqNum, platformLock, queue, used, pc, local, channel, history>>

\* icap_response_notify, under skb_spinlock: the response goes into the first linked
\* skb with its number, or nowhere.
Notify ==
  /\ rx # NoMsg
  /\ \/ \E b \in Found(rx.seq) : Fill(b)
     \/ (\A b \in Linked : ~Has(b, rx.seq)) /\ UNCHANGED skb
  /\ rx' = NoMsg
  /\ UNCHANGED <<instance, seqNum, platformLock, queue, used, pc, local, channel, history>>
-----------------------------------------------------------------------------
(* The device and the channel. *)

\* Mutant: the request is parsed again.
DeviceParseAgain(m, cbRet) ==
  LET reply == DeviceReply(m.cmd, cbRet)
  IN  /\ ran' = ran \cup {[id |-> m.id, ret |-> DeviceRet(m.cmd, cbRet)]}
      /\ toApp' = toApp \cup {[seq |-> m.seq, id |-> m.id, type |-> reply.type,
                               len |-> reply.len, val |-> reply.val]}
      /\ UNCHANGED <<instance, seqNum, platformLock, memory, pc, local, rx, toDev,
                     calls, call, result>>

\* icap_device_parse_msg on the other core: the callback runs, and one response
\* is sent, or lost when the device cannot send it (the result of
\* icap_send_response is ignored).
DeviceParse(m, cbRet) ==
  LET reply == DeviceReply(m.cmd, cbRet)
  IN  /\ toDev' = toDev \ {m}
      /\ ran' = ran \cup {[id |-> m.id, ret |-> DeviceRet(m.cmd, cbRet)]}
      /\ toApp' \in {toApp, toApp \cup {[seq |-> m.seq, id |-> m.id, type |-> reply.type,
                                         len |-> reply.len, val |-> reply.val]}}
      /\ UNCHANGED <<instance, seqNum, platformLock, memory, pc, local, rx,
                     calls, call, result>>

\* A request is dropped before the device parses it (its queue was full).
Lose(m) ==
  /\ toDev' = toDev \ {m}
  /\ UNCHANGED <<instance, seqNum, platformLock, memory, pc, local, rx, toApp, history>>
-----------------------------------------------------------------------------
(* icap_application_deinit and icap_application_init. *)

\* icap->callbacks = NULL
Deinit ==
  /\ registered
  /\ teardown = "none"
  /\ Quiesced => \A t \in Thread : At(t, "idle")
  /\ registered' = FALSE
  /\ teardown' = "flush"
  /\ UNCHANGED <<rpdev, sessions, seqNum, platformLock, memory, pc, local, rx, channel, history>>

\* Every queued skb is freed.
FreeLinked == /\ used' = used \ Linked
              /\ skb' = [b \in Skb |-> IF b \in Linked THEN Blank ELSE skb[b]]

\* Mutant: the skbs are freed in place.
DeinitFlushInPlace ==
  /\ teardown = "flush"
  /\ FreeLinked
  /\ teardown' = "clear"
  /\ UNCHANGED <<registered, rpdev, sessions, seqNum, platformLock, queue, pc, local, rx,
                 channel, history>>

\* icap_deinit_transport under rpdev_lock: every queued skb is dequeued and freed ...
DeinitFlush ==
  /\ teardown = "flush"
  /\ FreeLinked
  /\ queue' = <<>>
  /\ teardown' = "clear"
  /\ UNCHANGED <<registered, rpdev, sessions, seqNum, platformLock, pc, local, rx,
                 channel, history>>

\* ... and transport->rpdev = NULL.
DeinitClear ==
  /\ teardown = "clear"
  /\ rpdev' = FALSE
  /\ teardown' = "none"
  /\ UNCHANGED <<registered, sessions, seqNum, platformLock, memory, pc, local, rx,
                 channel, history>>

\* The caller sets rpdev and calls icap_application_init again, on an instance
\* nobody is using.
AppInit ==
  /\ ~registered /\ ~rpdev /\ teardown = "none"
  /\ rx = NoMsg /\ \A t \in Thread : At(t, "idle")
  /\ sessions < MaxSessions
  /\ sessions' = sessions + 1
  /\ registered' = TRUE /\ rpdev' = TRUE
  /\ seqNum' = 0 /\ platformLock' = Free /\ queue' = <<>>
  /\ IF FreshChannel THEN toDev' = {} /\ toApp' = {} ELSE UNCHANGED channel
  /\ UNCHANGED <<teardown, used, skb, pc, local, rx, history>>
-----------------------------------------------------------------------------
Step(t) == \/ TakeNumber(t) \/ ReadNumber(t) \/ PrepareWait(t) \/ Send(t)
           \/ FindBuffer(t) \/ Unlink(t) \/ Finish(t)
           \/ \E why \in {"reply", "signal", "timeout"} : WakeUp(t, why)

\* The bounds are used up and nothing is left to do, or the kernel has crashed.
Exhausted ==
  /\ \/ /\ calls = MaxCalls /\ sessions = MaxSessions /\ ~registered /\ teardown = "none"
        /\ \A t \in Thread : At(t, "idle")
        /\ toDev = {} /\ toApp = {} /\ rx = NoMsg
     \/ \E t \in Thread : At(t, "oops")
  /\ UNCHANGED vars

Next == \/ \E t \in Thread, c \in Cmd : Call(t, c)
        \/ \E t \in Thread : Step(t)
        \/ \E t \in Thread : Oops(t)
        \/ \E m \in toApp : Receive(m)
        \/ Notify
        \/ \E m \in toDev : \E ret \in LegalRet(m.cmd, Ret) : DeviceParse(m, ret)
        \/ \E m \in toDev : Lose(m)
        \/ Deinit \/ DeinitFlush \/ DeinitClear \/ AppInit
        \/ Exhausted

Spec == Init /\ [][Next]_vars

\* Threads are scheduled, owners of a mutex let go of it, timers fire and deinit
\* runs to its end.  Nothing is assumed of the device, of the channel, of the
\* receive callback or of signals.
Fairness == /\ \A t \in Thread : WF_vars(Step(t))
            /\ WF_vars(DeinitFlush) /\ WF_vars(DeinitClear)

FairSpec == Spec /\ Fairness
-----------------------------------------------------------------------------
(* Properties. *)

Busy == {"number", "numbered", "prepare", "send", "find", "wait", "unlink",
         "finish", "oops"}

\* Every variable has its type: a thread without a call is idle, and sequence
\* numbers, messages and buffers are what icap_transport.h declares.
TypeOK ==
  /\ registered \in BOOLEAN /\ rpdev \in BOOLEAN
  /\ teardown \in {"none", "flush", "clear"} /\ sessions \in 0..MaxSessions
  /\ seqNum \in 0..(SeqMod - 1)
  /\ platformLock \in Thread \cup {Free}
  /\ queue \in Seq(Skb) /\ used \in SUBSET Skb
  /\ skb \in [Skb -> Buffer]
  /\ pc \in [Thread -> Busy \cup {"idle"}]
  /\ seq \in [Thread -> 0..(SeqMod - 1)]
  /\ buf \in [Thread -> Skb \cup {NoSkb}]
  /\ woke \in [Thread -> {"asleep", "reply", "signal", "timeout"}]
  /\ rx \in Reply \cup {NoMsg}
  /\ toDev \in SUBSET Request /\ toApp \in SUBSET Reply
  /\ calls \in 0..MaxCalls
  /\ call \in [Thread -> CallInfo \cup {NoCall}]
  /\ ran \in SUBSET [id : Nat, ret : Int]
  /\ result \in [Thread -> Int]
  /\ \A t \in Thread : pc[t] = "idle" <=> call[t] = NoCall

\* Threads that go on with the skb they found, those whose skb has been freed
\* meanwhile, and the responses a thread may still read in an skb that was not.
Holding == {"wait", "unlink", "finish"}
Dangles(t) == pc[t] \in Holding \cup {"oops"} /\ buf[t] \notin used
Answers(t) == IF pc[t] \in Holding /\ buf[t] \in used THEN S!ToSet(Got(t)) ELSE {}

\* A response in the buffer a call has found answers this very call, not an earlier
\* one that gave up and not the call of another thread (icap_response_notify and
\* icap_wait_for_response both match by sequence number alone).
OwnReply == \A t \in Thread : \A m \in Answers(t) : m.id = call[t].id

\* Threads whose call has its sequence number, messages on their way, and the numbers
\* these have.
Numbered == {"prepare", "send", "find", "wait", "unlink", "finish"}
InFlight == toDev \cup toApp \cup (IF rx = NoMsg THEN {} ELSE {rx})
UsedNumbers == {seq[t] : t \in {u \in Thread : pc[u] \in Numbered}} \cup {m.seq : m \in InFlight}

\* The number that icap_send_msg is about to read from seq_num is of no other call and
\* of no message or response on its way: what is left behind by calls that gave up or
\* by an earlier session is gone before seq_num comes round to its number.
NumberFree == \A t \in Thread : At(t, "numbered") => seqNum \notin UsedNumbers

\* A buffer has room for one response and icap_response_notify does not test
\* hint->received: no buffer is filled twice.
FilledOnce == \A b \in used : Len(skb[b].got) <= 1

\* Every allocated buffer belongs to a call: one that is linked to a call between
\* icap_prepare_wait and skb_unlink, one that is not to a call about to free it.  No
\* path leaves a buffer linked or allocated behind.
Owns(t, b) == /\ pc[t] \in IF b \in Linked THEN {"send", "find", "wait", "unlink"} ELSE {"finish"}
              /\ skb[b].id = call[t].id
QueueOwned == \A b \in used : \E t \in Thread : Owns(t, b)

\* A walk of response_queue by icap_response_notify or icap_wait_for_response meets no
\* freed buffer, even when deinit overtakes calls in progress.
NotifyLive == Linked \subseteq used

\* A free number for each call is all that these take, past 2^32 calls and on a channel
\* that kept its messages over icap_application_init.
FreeNumbersSuffice ==
  []NumberFree => [](OwnReply /\ FilledOnce /\ QueueOwned /\ NotifyLive)

\* No thread sleeps on, unlinks or reads a buffer that icap_deinit_transport has
\* freed.
NoDangling == \A t \in Thread : ~Dangles(t)

\* icap_wait_for_response finds the buffer that icap_prepare_wait linked for this call,
\* and could find no other.
BufferFound ==
  \A t \in Thread : At(t, "find") => \E b \in used : Found(seq[t]) = {b} /\ skb[b].id = call[t].id

\* Nothing is sent after icap_application_deinit has given up the rpmsg device,
\* though a call may have passed the test of icap_prepare_wait before.
NoSendAfterClose == [][~rpdev /\ ~rpdev' => toDev' \subseteq toDev]_vars

\* Each call has at most one callback run and returns what that callback
\* returned or an error of its own side: the promise of IcapCall.
Abs == INSTANCE IcapCall

Implements == Abs!Spec

\* Also while deinit overtakes calls: a call whose own buffer was not freed under it
\* returns what its callback returned, or an error of its own side.
Deserved(t) ==
  LocalError \cup {Abs!Promised(call[t].cmd, r.ret) : r \in {s \in ran : s.id = call[t].id}}

ReturnsOwn ==
  [][\A t \in Thread :
       call[t] # NoCall /\ call'[t] = NoCall /\ ~Dangles(t) => result'[t] \in Deserved(t)]_vars

\* What the device answers and what the application function makes of the answer fit
\* together: the caller gets what the callback of its call returned, or 0 where an
\* optional callback is missing, but -ICAP_ERROR_MSG_LEN where the missing one should
\* have given a value, since the generic ACK of icap_device_parse_msg carries none.
Fits(cmd, reply, r) ==
  CallResult(cmd, reply) =
    IF cmd \in ValueCmd \ Implemented THEN -ICAP_ERROR_MSG_LEN ELSE Abs!Promised(cmd, r.ret)

ReplyFits ==
  \A t \in Thread : \A m \in Answers(t) :
    \E r \in ran : r.id = call[t].id /\ Fits(call[t].cmd, m, r)

\* Every call returns, whatever is lost, however deinit interferes with a quiesced
\* instance, and though a call of the receive callback itself hears no response.
CallsReturn == \A t \in Thread : pc[t] # "idle" ~> pc[t] = "idle"
=============================================================================
