------------------------------- MODULE IcapCall -------------------------------
(***************************************************************************)
(* What a synchronous application function promises, whatever the          *)
(* transport: "Application functions work like Remote Function Calls"      *)
(* (README.md).  A call is issued, the device runs the callback of the     *)
(* command at most once (possibly after the caller has given up), and the  *)
(* call completes either with the value the callback of this very call     *)
(* returned or with an error of its own side.                              *)
(***************************************************************************)
EXTENDS Integers

CONSTANTS Thread,      \* callers
          Cmd,         \* commands they send
          Ret,         \* return values of device callbacks
          LocalError,  \* results that say nothing about the device
          NoCall       \* "this thread has no call in progress"

VARIABLES calls,    \* number of calls issued so far; the last one's id
          call,     \* the call in progress of each thread
          ran,      \* callbacks the device has run: call id and return value
          result    \* what the last call of each thread returned

vars == <<calls, call, ran, result>>

\* The value the caller must see when the callback returned `ret`.
Promised(cmd, ret) == IF cmd = "GET_DEV_FEATURES" /\ ret > 0 THEN 0 ELSE ret

Init == /\ calls = 0
        /\ call = [t \in Thread |-> NoCall]
        /\ ran = {}
        /\ result = [t \in Thread |-> 0]

Issue(t, c) ==
  /\ call[t] = NoCall
  /\ calls' = calls + 1
  /\ call' = [call EXCEPT ![t] = [id |-> calls', cmd |-> c]]
  /\ UNCHANGED <<ran, result>>

\* The device runs the callback of an issued call that it has not run before.
Run(id, ret) ==
  /\ \A r \in ran : r.id # id
  /\ ran' = ran \cup {[id |-> id, ret |-> ret]}
  /\ UNCHANGED <<calls, call, result>>

Complete(t) ==
  /\ call[t] # NoCall
  /\ \E v \in LocalError \cup
              {Promised(call[t].cmd, r.ret) : r \in {s \in ran : s.id = call[t].id}} :
        result' = [result EXCEPT ![t] = v]
  /\ call' = [call EXCEPT ![t] = NoCall]
  /\ UNCHANGED <<calls, ran>>

Next == \/ \E t \in Thread, c \in Cmd : Issue(t, c)
        \/ \E id \in 1..calls, ret \in Ret : Run(id, ret)
        \/ \E t \in Thread : Complete(t)

Spec == Init /\ [][Next]_vars
=============================================================================
