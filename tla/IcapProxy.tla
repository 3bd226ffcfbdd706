------------------------------ MODULE IcapProxy ------------------------------
(***************************************************************************)
(* Two ICAP links in cascade (README.md 34-38): the callbacks of a device  *)
(* instance call the application functions of an instance of another link, *)
(* as in "ICAP application on ARM <-> ICAP proxy on SHARC0 <-> ICAP device *)
(* on SHARC1".  The proxy's callbacks are code of the user; here each one  *)
(* makes the call it was asked for and returns what that call returned.    *)
(*                                                                         *)
(* Each link is an instance of IcapCall, which IcapKernel and IcapBm       *)
(* implement.  A callback of the first link lasts as long as the call it   *)
(* makes over the second, so that the proxy serves one call at a time,     *)
(* while the application may have given up and called again.               *)
(***************************************************************************)
EXTENDS IcapMsg, Sequences

CONSTANTS Thread,      \* callers of the first application
          Proxy,       \* the context in which the proxy parses its messages
          Cmd,         \* commands they send
          Ret,         \* return values of the callbacks of the last device
          LocalError,  \* results that say nothing about a device
          NoCall,      \* "no call in progress"
          MaxCalls     \* bound: calls of the first application

ASSUME ProxyAssumption ==
  /\ Cmd \subseteq DeviceCmd
  /\ Ret \subseteq Int
  /\ LocalError \subseteq Int /\ \A e \in LocalError : e < 0
  /\ NoCall \notin [id : Nat, cmd : Cmd]
  /\ MaxCalls \in Nat

VARIABLES
  calls1, call1, ran1, result1,  \* the link from the application to the proxy
  calls2, call2, ran2, result2,  \* the link from the proxy to the last device
  asked,    \* requests of the first link: those on their way, by call
  serving,  \* the call of the first link whose callback runs, or NoCall
  origin    \* history: for each call of the second link, the one it was made for

link1 == <<calls1, call1, ran1, result1>>
link2 == <<calls2, call2, ran2, result2>>
vars == <<link1, link2, asked, serving, origin>>

First == INSTANCE IcapCall WITH
           calls <- calls1, call <- call1, ran <- ran1, result <- result1

Second == INSTANCE IcapCall WITH
            Thread <- {Proxy},
            calls <- calls2, call <- call2, ran <- ran2, result <- result2

Init == /\ First!Init /\ Second!Init
        /\ asked = {} /\ serving = NoCall /\ origin = <<>>
-----------------------------------------------------------------------------
\* An application function is called and its request is sent, or lost.
Issue(t, c) ==
  /\ calls1 < MaxCalls
  /\ First!Issue(t, c)
  /\ asked' \in {asked, asked \cup {[id |-> calls1', cmd |-> c]}}
  /\ UNCHANGED <<link2, serving, origin>>

\* Mutant: the request is still there when the callback has started.
AcceptKeeps(q) ==
  /\ serving = NoCall
  /\ serving' = q
  /\ Second!Issue(Proxy, q.cmd)
  /\ origin' = Append(origin, q)
  /\ UNCHANGED <<link1, asked>>

\* The proxy parses the request q: icap_device_parse_msg runs the callback, which
\* calls the same function of the second link.
Accept(q) ==
  /\ serving = NoCall
  /\ asked' = asked \ {q}
  /\ serving' = q
  /\ Second!Issue(Proxy, q.cmd)
  /\ origin' = Append(origin, q)
  /\ UNCHANGED link1

\* The last device runs its callback for call k of the second link, in time or late.
RunLast(k, ret) ==
  /\ Second!Run(k, ret)
  /\ UNCHANGED <<link1, asked, serving, origin>>

\* Mutant: the callback reports success whatever the call returned.
RespondOk ==
  /\ serving # NoCall
  /\ Second!Complete(Proxy)
  /\ First!Run(serving.id, 0)
  /\ serving' = NoCall
  /\ UNCHANGED <<calls1, call1, result1, asked, origin>>

\* The call over the second link returns, the callback returns the same and
\* icap_device_parse_msg responds with it.
Respond ==
  /\ serving # NoCall
  /\ Second!Complete(Proxy)
  /\ First!Run(serving.id, result2'[Proxy])
  /\ serving' = NoCall
  /\ UNCHANGED <<asked, origin>>

\* The application's call returns.
Return(t) ==
  /\ First!Complete(t)
  /\ UNCHANGED <<link2, asked, serving, origin>>

\* The bound is used up and nothing is left to do.
Exhausted ==
  /\ calls1 = MaxCalls /\ asked = {} /\ serving = NoCall
  /\ \A t \in Thread : call1[t] = NoCall
  /\ UNCHANGED vars

Next == \/ \E t \in Thread : Return(t) \/ \E c \in Cmd : Issue(t, c)
        \/ \E q \in asked : Accept(q)
        \/ \E k \in 1..calls2 : \E ret \in LegalRet(origin[k].cmd, Ret) : RunLast(k, ret)
        \/ Respond
        \/ Exhausted

Spec == Init /\ [][Next]_vars
-----------------------------------------------------------------------------
(* Properties. *)

Request == [id : Nat, cmd : Cmd]

\* Every variable has its type, and every call of the second link was made for a
\* request of the first.
TypeOK ==
  /\ calls1 \in 0..MaxCalls /\ calls2 \in 0..MaxCalls
  /\ call1 \in [Thread -> Request \cup {NoCall}]
  /\ call2 \in [{Proxy} -> Request \cup {NoCall}]
  /\ ran1 \in SUBSET [id : Nat, ret : Int] /\ ran2 \in SUBSET [id : 1..calls2, ret : Int]
  /\ result1 \in [Thread -> Int] /\ result2 \in [{Proxy} -> Int]
  /\ asked \in SUBSET Request /\ serving \in Request \cup {NoCall}
  /\ origin \in Seq(Request) /\ Len(origin) = calls2

\* The cascade keeps the promise of a single link: for each call of the first
\* application the last device runs its callback at most once, and the call returns
\* what that very callback returned or an error that says nothing about a device.
EndToEnd == INSTANCE IcapCall WITH
              calls <- calls1, call <- call1, result <- result1,
              ran <- {[id |-> origin[r.id].id, ret |-> r.ret] : r \in ran2}

Implements == EndToEnd!Spec
=============================================================================
