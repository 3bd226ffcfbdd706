------------------------------- MODULE IcapNote -------------------------------
(***************************************************************************)
(* What the asynchronous device functions promise, whatever the transport: *)
(* each sends a message "which triggers appropriate application callback", *)
(* and "When a response is received to the ICAP message appropriate        *)
(* callback is executed" (icap_device.h).  A message is told to the        *)
(* application at most once, and the device hears of it at most once, with *)
(* what the application answered to that very message; messages and        *)
(* responses may be lost, and the device hears in the order in which the   *)
(* application was told.                                                   *)
(***************************************************************************)
EXTENDS Integers, Sequences

CONSTANTS Note,  \* commands of the device functions
          Arg,   \* their argument: a buffer id or an error code
          Ret    \* return values of application callbacks

VARIABLES noted,  \* calls of device functions, in order
          told,   \* messages told to the application, in order
          heard   \* responses the device heard, in order

vars == <<noted, told, heard>>

\* What the device must hear when the application's callback for the note n
\* returned ret: the buffer id where there is one, or the error.
Answer(n, ret) == IF ret # 0 THEN ret ELSE IF n.cmd = "ERROR" THEN 0 ELSE n.arg

Init == noted = <<>> /\ told = <<>> /\ heard = <<>>

Issue(cmd, arg) ==
  /\ noted' = Append(noted, [cmd |-> cmd, arg |-> arg])
  /\ UNCHANGED <<told, heard>>

Tell(id, ret) ==
  /\ \A i \in DOMAIN told : told[i].id # id
  /\ told' = Append(told, [id |-> id, ret |-> ret])
  /\ UNCHANGED <<noted, heard>>

Hear(i) ==
  /\ \A j \in DOMAIN heard : heard[j].nth < i
  /\ heard' = Append(heard, [nth |-> i, val |-> Answer(noted[told[i].id], told[i].ret)])
  /\ UNCHANGED <<noted, told>>

Next == \/ \E cmd \in Note, arg \in Arg : Issue(cmd, arg)
        \/ \E id \in DOMAIN noted, ret \in Ret : Tell(id, ret)
        \/ \E i \in DOMAIN told : Hear(i)

Spec == Init /\ [][Next]_vars
=============================================================================
