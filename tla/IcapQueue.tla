------------------------------ MODULE IcapQueue ------------------------------
(***************************************************************************)
(* What icap_put_msg and icap_loop promise ("Save a message in a queue to  *)
(* be parsed later by icap_loop()", icap.h): a bounded queue.  Messages    *)
(* are parsed once each, in the order in which they were accepted; while   *)
(* the instance is initialised one is refused only when Capacity others    *)
(* wait or are being handled, and none is forgotten.                       *)
(***************************************************************************)
EXTENDS Naturals, Sequences

CONSTANT Capacity

VARIABLES open,      \* the instance is initialised
          received,  \* messages received so far, numbered from 1
          pending,   \* the last one is about to be accepted
          waiting,   \* accepted, not yet handled
          handling,  \* the message being handled, or 0
          parsed,    \* messages handed to the instance's callbacks
          dropped    \* messages refused

vars == <<open, received, pending, waiting, handling, parsed, dropped>>

Init == /\ open = FALSE /\ received = 0 /\ pending = FALSE
        /\ waiting = <<>> /\ handling = 0 /\ parsed = <<>> /\ dropped = {}

Occupied == Len(waiting) + (IF handling = 0 THEN 0 ELSE 1)

Refuse == /\ ~pending
          /\ open => Occupied = Capacity
          /\ received' = received + 1
          /\ dropped' = dropped \cup {received'}
          /\ UNCHANGED <<open, pending, waiting, handling, parsed>>

\* A message is received, and becomes part of the queue a little later.
Receive == /\ ~pending /\ open /\ Occupied < Capacity
           /\ received' = received + 1
           /\ pending' = TRUE
           /\ UNCHANGED <<open, waiting, handling, parsed, dropped>>

Accept == /\ pending
          /\ pending' = FALSE
          /\ waiting' = Append(waiting, received)
          /\ UNCHANGED <<open, received, handling, parsed, dropped>>

\* The next message is handled; it has no effect on a closed instance.
Take == /\ handling = 0 /\ waiting # <<>>
        /\ handling' = Head(waiting)
        /\ waiting' = Tail(waiting)
        /\ parsed' = IF open THEN Append(parsed, handling') ELSE parsed
        /\ UNCHANGED <<open, received, pending, dropped>>

Finish == /\ handling # 0
          /\ handling' = 0
          /\ UNCHANGED <<open, received, pending, waiting, parsed, dropped>>

OpenClose == /\ open' = ~open
             /\ handling = 0
             /\ UNCHANGED <<received, pending, waiting, handling, parsed, dropped>>

Next == Refuse \/ Receive \/ Accept \/ Take \/ Finish \/ OpenClose

Spec == Init /\ [][Next]_vars
=============================================================================
