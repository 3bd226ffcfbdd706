------------------------------- MODULE IcapFifo -------------------------------
(***************************************************************************)
(* The message FIFO of the bare-metal transport, icap_bm_rpmsg-lite.c.     *)
(* icap_put_msg runs in the receive callback of the rpmsg-lite endpoint,   *)
(* keeps the receive buffer (RL_HOLD) and links it into a ring; icap_loop  *)
(* runs in the main context, parses one message and gives its buffer       *)
(* back.  icap_*_init and icap_*_deinit run in the main context too.       *)
(*                                                                         *)
(* Messages are numbered in the order in which they are received; a buffer *)
(* is named by the message in it.  0 is a null pointer.                    *)
(***************************************************************************)
EXTENDS Naturals, Sequences, FiniteSets

CONSTANTS QueueSize,    \* ICAP_MSG_QUEUE_SIZE
          Pool,         \* receive buffers of the rpmsg channel
          MaxMsgs,      \* bound: messages received in a behaviour
          MaxSessions,  \* bound: initialisations in a behaviour
          Isr,          \* the receive callback is an interrupt of the core that
                        \* runs the main context, which waits until it returns
          Quiet         \* the caller initialises with an empty FIFO, and nothing is
                        \* received during an initialisation or a deinitialisation

ASSUME FifoAssumption ==
  /\ QueueSize \in Nat \ {0, 1} /\ Pool \in Nat
  /\ MaxMsgs \in Nat /\ MaxSessions \in Nat
  /\ Isr \in BOOLEAN /\ Quiet \in BOOLEAN /\ (Isr \/ Quiet)

VARIABLES
  boot,      \* "down": callbacks is NULL, "clear": before the memset, "up"
  sessions,  \* initialisations so far
  head, tail, slot,   \* struct _icap_msg_fifo
  put,       \* where icap_put_msg is, with message number `received`
  loop,      \* where icap_loop is
  handling,  \* the message icap_loop has given to icap_parse_msg, or 0
  received,  \* messages received so far
  held,      \* buffers not given back to rpmsg-lite
  parsed,    \* history: messages parsed by an initialised instance
  dropped    \* history: messages icap_put_msg refused

ring == <<head, tail, slot>>
vars == <<boot, sessions, ring, put, loop, handling, received, held, parsed, dropped>>

Index == 0..(QueueSize - 1)
\* Mutant: the index runs to QueueSize.
FollowingLate(i) == IF i + 1 > QueueSize THEN 0 ELSE i + 1
Following(i) == IF i + 1 >= QueueSize THEN 0 ELSE i + 1

\* The messages in the ring, oldest first.
Count == IF head >= tail THEN head - tail ELSE head + QueueSize - tail
Place(i) == IF tail + i >= QueueSize THEN tail + i - QueueSize ELSE tail + i
Contents == [i \in 1..Count |-> slot[Place(i)]]

\* Their places.
Used == {i \in Index : IF tail <= head THEN tail < i /\ i <= head ELSE tail < i \/ i <= head}
Linked == {slot[i] : i \in Used}

\* The main context is not interrupted.
MainRuns == Isr => put = "idle"

Init == /\ boot = "down" /\ sessions = 0
        /\ head = 0 /\ tail = 0 /\ slot = [i \in Index |-> 0]
        /\ put = "idle" /\ loop = "idle" /\ handling = 0
        /\ received = 0 /\ held = {} /\ parsed = <<>> /\ dropped = {}
-----------------------------------------------------------------------------
(* icap_put_msg. *)

\* Rpmsg-lite has a buffer for a new message, icap_put_msg tests the callbacks
\* and the ring and drops the message, whose buffer goes back at once ...
Drop ==
  /\ put = "idle" /\ received < MaxMsgs /\ Cardinality(held) < Pool
  /\ Quiet => boot # "clear"
  /\ boot = "down" \/ Following(head) = tail
  /\ received' = received + 1
  /\ dropped' = dropped \cup {received'}
  /\ UNCHANGED <<boot, sessions, ring, put, loop, handling, held, parsed>>

\* Mutant: no test of a full ring.
AcceptAlways ==
  /\ put = "idle" /\ received < MaxMsgs /\ Cardinality(held) < Pool
  /\ Quiet => boot # "clear"
  /\ boot # "down"
  /\ received' = received + 1
  /\ held' = held \cup {received'}
  /\ put' = "fill"
  /\ UNCHANGED <<boot, sessions, ring, loop, handling, parsed, dropped>>

\* ... or goes on; it will return RL_HOLD.
Accept ==
  /\ put = "idle" /\ received < MaxMsgs /\ Cardinality(held) < Pool
  /\ Quiet => boot # "clear"
  /\ boot # "down" /\ Following(head) # tail
  /\ received' = received + 1
  /\ held' = held \cup {received'}
  /\ put' = "fill"
  /\ UNCHANGED <<boot, sessions, ring, loop, handling, parsed, dropped>>

\* Mutant: the slot of head, not of head_next.
PutFillHead ==
  /\ put = "fill"
  /\ slot' = [slot EXCEPT ![head] = received]
  /\ put' = "publish"
  /\ UNCHANGED <<boot, sessions, head, tail, loop, handling, received, held, parsed, dropped>>

\* fifo->remote_msg[head_next] = ...
PutFill ==
  /\ put = "fill"
  /\ slot' = [slot EXCEPT ![Following(head)] = received]
  /\ put' = "publish"
  /\ UNCHANGED <<boot, sessions, head, tail, loop, handling, received, held, parsed, dropped>>

\* fifo->head = head_next
PutPublish ==
  /\ put = "publish"
  /\ head' = Following(head)
  /\ put' = "idle"
  /\ UNCHANGED <<boot, sessions, tail, slot, loop, handling, received, held, parsed, dropped>>
-----------------------------------------------------------------------------
(* icap_loop. *)

\* Mutant: a single message counts as none.
LoopBeginTwo ==
  /\ loop = "idle" /\ boot # "clear" /\ MainRuns
  /\ tail # head /\ Following(tail) # head
  /\ loop' = "parse"
  /\ UNCHANGED <<boot, sessions, ring, put, handling, received, held, parsed, dropped>>

\* if (fifo->tail == fifo->head) return 0
LoopBegin ==
  /\ loop = "idle" /\ boot # "clear" /\ MainRuns
  /\ tail # head
  /\ loop' = "parse"
  /\ UNCHANGED <<boot, sessions, ring, put, handling, received, held, parsed, dropped>>

\* icap_parse_msg, which does nothing when the callbacks are gone.
LoopParse ==
  /\ loop = "parse" /\ MainRuns
  /\ handling' = slot[Following(tail)]
  /\ parsed' = IF boot = "up" THEN Append(parsed, handling') ELSE parsed
  /\ loop' = "release"
  /\ UNCHANGED <<boot, sessions, ring, put, received, held, dropped>>

\* Mutant: a message that could not be parsed keeps its buffer.
LoopReleaseParsed ==
  /\ loop = "release" /\ MainRuns
  /\ held' = IF boot = "up" THEN held \ {slot[Following(tail)]} ELSE held
  /\ loop' = "advance"
  /\ UNCHANGED <<boot, sessions, ring, put, handling, received, parsed, dropped>>

\* rpmsg_lite_release_rx_buffer(remote_msg->data), read from the slot again.
LoopRelease ==
  /\ loop = "release" /\ MainRuns
  /\ held' = held \ {slot[Following(tail)]}
  /\ loop' = "advance"
  /\ UNCHANGED <<boot, sessions, ring, put, handling, received, parsed, dropped>>

\* fifo->tail = tail_next
LoopAdvance ==
  /\ loop = "advance" /\ MainRuns
  /\ tail' = Following(tail)
  /\ handling' = 0
  /\ loop' = "idle"
  /\ UNCHANGED <<boot, sessions, head, slot, put, received, held, parsed, dropped>>
-----------------------------------------------------------------------------
(* icap_*_init and icap_*_deinit. *)

\* icap->callbacks = cb
InitCallbacks ==
  /\ boot = "down" /\ loop = "idle" /\ MainRuns
  /\ sessions < MaxSessions
  /\ Quiet => head = tail /\ put = "idle"
  /\ boot' = "clear"
  /\ sessions' = sessions + 1
  /\ UNCHANGED <<ring, put, loop, handling, received, held, parsed, dropped>>

\* icap_init_transport: memset of the FIFO
InitClear ==
  /\ boot = "clear" /\ MainRuns
  /\ head' = 0 /\ tail' = 0 /\ slot' = [i \in Index |-> 0]
  /\ boot' = "up"
  /\ UNCHANGED <<sessions, put, loop, handling, received, held, parsed, dropped>>

\* icap->callbacks = NULL; icap_deinit_transport does nothing.
Deinit ==
  /\ boot = "up" /\ loop = "idle" /\ MainRuns
  /\ Quiet => put = "idle"
  /\ boot' = "down"
  /\ UNCHANGED <<sessions, ring, put, loop, handling, received, held, parsed, dropped>>
-----------------------------------------------------------------------------
Put == PutFill \/ PutPublish
Loop == LoopBegin \/ LoopParse \/ LoopRelease \/ LoopAdvance

\* The bounds are used up and nothing is left to do.
Exhausted == /\ received = MaxMsgs /\ sessions = MaxSessions /\ boot = "down"
             /\ head = tail /\ put = "idle" /\ loop = "idle"
             /\ UNCHANGED vars

Next == \/ Drop \/ Accept \/ Put \/ Loop
        \/ InitCallbacks \/ InitClear \/ Deinit
        \/ Exhausted

Spec == Init /\ [][Next]_vars

\* The receive callback returns, the main context calls icap_loop for ever, also
\* after a deinitialisation, and an initialisation ends.
FairSpec == Spec /\ WF_vars(Put) /\ WF_vars(Loop) /\ WF_vars(InitClear)
-----------------------------------------------------------------------------
(* Properties. *)

\* Indices stay inside the ring, and a message number stands for every buffer.
TypeOK ==
  /\ boot \in {"down", "clear", "up"} /\ sessions \in 0..MaxSessions
  /\ head \in Index /\ tail \in Index /\ slot \in [Index -> 0..MaxMsgs]
  /\ put \in {"idle", "fill", "publish"}
  /\ loop \in {"idle", "parse", "release", "advance"}
  /\ handling \in 0..MaxMsgs /\ received \in 0..MaxMsgs
  /\ held \in SUBSET (1..MaxMsgs) /\ parsed \in Seq(1..MaxMsgs)
  /\ dropped \in SUBSET (1..MaxMsgs)

\* The buffers icap keeps from rpmsg-lite are exactly those of the ring and of
\* the message being put, less the one icap_loop has just given back: none leaks
\* and none that was given back is parsed.
HeldExact ==
  held = (Linked \cup (IF put = "idle" THEN {} ELSE {received}))
         \ (IF loop = "advance" THEN {handling} ELSE {})

\* icap_loop reads a slot three times: icap_put_msg does not overwrite it
\* meanwhile, so the buffer given back is the one that was parsed, and it is given
\* back once.
SlotStable ==
  loop = "release" => handling = slot[Following(tail)] /\ handling \in held

\* A message that icap_put_msg accepted is in the ring until icap_loop handles it
\* ("Save a message in a queue to be parsed later by icap_loop()", icap.h).
Saved == \A m \in held : m \in Linked \/ (put # "idle" /\ m = received)

\* The ring is a bounded queue of QueueSize - 1 messages.
Abs == INSTANCE IcapQueue WITH
         Capacity <- QueueSize - 1,
         open <- boot # "down",
         pending <- put # "idle",
         waiting <- IF handling = 0 THEN Contents ELSE Tail(Contents)

Implements == Abs!Spec

\* Every buffer goes back to rpmsg-lite.
GivenBack == \A m \in 1..MaxMsgs : m \in held ~> m \notin held
=============================================================================
