--------------------------- MODULE IcapProxyProofs ---------------------------
(***************************************************************************)
(* Proofs about IcapProxy: the cascade of two links implements one link,   *)
(* for any number of callers, commands, results and calls.                 *)
(***************************************************************************)
EXTENDS IcapProxy, FiniteSetTheorems, TLAPS

Calls2 == 1..calls2

\* What the last device has told the first application, with the numbers of the first
\* link: the value substituted for ran in EndToEnd.
LastRan == {[id |-> origin[r.id].id, ret |-> r.ret] : r \in ran2}

\* A request is on its way or has led to exactly one call of the second link.
OriginInv ==
  /\ \A q \in asked : q.id \in 1..calls1 /\ \A k \in Calls2 : origin[k].id # q.id
  /\ \A p, q \in asked : p.id = q.id => p = q
  /\ \A k \in Calls2 : origin[k].id \in 1..calls1
  /\ \A j, k \in Calls2 : origin[j].id = origin[k].id => j = k

\* The command of a call stays with it.
CommandInv ==
  \A t \in Thread : call1[t] # NoCall =>
    /\ call1[t].id \in 1..calls1
    /\ \A q \in asked : q.id = call1[t].id => q.cmd = call1[t].cmd
    /\ \A k \in Calls2 : origin[k].id = call1[t].id => origin[k].cmd = call1[t].cmd

\* The callback that runs in the proxy waits for the latest call of the second link.
ServingInv ==
  /\ serving # NoCall <=> call2[Proxy] # NoCall
  /\ serving # NoCall => /\ calls2 \in Calls2 /\ serving = origin[calls2]
                         /\ call2[Proxy] = [id |-> calls2, cmd |-> serving.cmd]

\* What the callbacks of the proxy return comes from the last device, or is local.
Forwarded(r) == \E s \in ran2 : /\ origin[s.id].id = r.id
                                /\ r.ret = First!Promised(origin[s.id].cmd, s.ret)
ValueInv == \A r \in ran1 : r.ret \in LocalError \/ Forwarded(r)

IInv == TypeOK /\ OriginInv /\ CommandInv /\ ServingInv /\ ValueInv

-----------------------------------------------------------------------------
\* Appending to origin leaves the calls of the second link already made.
LEMMA OriginKept ==
  ASSUME TypeOK, NEW q \in Request, origin' = Append(origin, q), calls2' = calls2 + 1
  PROVE  /\ origin' \in Seq(Request) /\ Len(origin') = calls2'
         /\ Calls2' = Calls2 \cup {calls2'}
         /\ calls2' \notin Calls2
         /\ \A k \in Calls2 : origin'[k] = origin[k]
         /\ origin'[calls2'] = q
BY DEF TypeOK, Calls2

\* With one call of the second link for each request there are no more calls than
\* requests.
LEMMA CallsBounded ==
  ASSUME NEW m \in Nat, NEW n \in Nat, NEW f,
         \A k \in 1..m : f[k].id \in 1..n,
         \A j, k \in 1..m : f[j].id = f[k].id => j = k
  PROVE  m <= n
<1> SUFFICES ASSUME m > n PROVE FALSE
  OBVIOUS
<1> DEFINE g == [k \in 1..m |-> f[k].id]
<1>1. IsFiniteSet(1..m) /\ Cardinality(1..m) = m
  BY FS_Interval
<1>2. IsFiniteSet(1..n) /\ Cardinality(1..n) = n
  BY FS_Interval
<1>3. g \in [1..m -> 1..n]
  OBVIOUS
<1>4. \A j, k \in 1..m : j # k => g[j] # g[k]
  OBVIOUS
<1> HIDE DEF g
<1>5. \E j, k \in 1..m : j # k /\ g[j] = g[k]
  <2>1. Cardinality(1..n) < Cardinality(1..m)
    BY <1>1, <1>2
  <2>2. QED
    BY ONLY <1>1, <1>2, <1>3, <2>1, FS_PigeonHole, Zenon
<1>6. QED
  BY <1>4, <1>5

LEMMA InitIInv == Init => IInv
<1> SUFFICES ASSUME Init PROVE IInv
  OBVIOUS
<1> USE ProxyAssumption DEF Init, First!Init, Second!Init
<1>1. Len(origin) = 0
  OBVIOUS
<1>2. Calls2 = {}
  BY DEF Calls2
<1>3. TypeOK
  BY <1>1 DEF TypeOK
<1>4. QED
  BY <1>2, <1>3 DEF IInv, OriginInv, CommandInv, ServingInv, ValueInv

LEMMA IssueIInv ==
  ASSUME IInv, NEW t \in Thread, NEW c \in Cmd, Issue(t, c)
  PROVE  IInv'
<1> USE DEF IInv, Issue, First!Issue, link2
<1>1. /\ calls1' = calls1 + 1 /\ calls1 \in Nat /\ calls1 < MaxCalls
      /\ call1[t] = NoCall
      /\ call1' = [call1 EXCEPT ![t] = [id |-> calls1', cmd |-> c]]
      /\ asked' \in {asked, asked \cup {[id |-> calls1', cmd |-> c]}}
      /\ UNCHANGED <<ran1, result1, calls2, call2, ran2, result2, serving, origin>>
  BY DEF TypeOK
<1> DEFINE q == [id |-> calls1', cmd |-> c]
<1>2. q \in Request /\ asked' \in SUBSET Request /\ \A p \in asked' : p \in asked \/ p = q
  BY <1>1 DEF Request, TypeOK
<1>3. call1' \in [Thread -> Request \cup {NoCall}]
  BY <1>1, <1>2 DEF TypeOK
<1>4. TypeOK'
  BY <1>1, <1>2, <1>3, ProxyAssumption DEF TypeOK
<1>5. Calls2' = Calls2
  BY <1>1 DEF Calls2
<1>6. \A k \in Calls2 : origin[k].id # calls1'
  BY <1>1 DEF OriginInv
<1>7. OriginInv'
  <2>1. \A p \in asked' : p.id \in 1..calls1' /\ \A k \in Calls2 : origin[k].id # p.id
    BY <1>1, <1>2, <1>6 DEF OriginInv
  <2>2. \A p \in asked : p.id # calls1'
    BY <1>1 DEF OriginInv
  <2>3. \A p, r \in asked' : p.id = r.id => p = r
    BY <1>2, <2>2 DEF OriginInv
  <2>4. QED
    BY <1>1, <1>5, <2>1, <2>3 DEF OriginInv
<1>8. CommandInv'
  <2> SUFFICES ASSUME NEW u \in Thread, call1'[u] # NoCall
               PROVE  /\ call1'[u].id \in 1..calls1'
                      /\ \A p \in asked' : p.id = call1'[u].id => p.cmd = call1'[u].cmd
                      /\ \A k \in Calls2 : origin[k].id = call1'[u].id
                                             => origin[k].cmd = call1'[u].cmd
    BY <1>1, <1>5 DEF CommandInv
  <2>1. CASE u = t
    <3>1. call1'[u] = q
      BY <2>1, <1>1, <1>3 DEF TypeOK
    <3>2. \A p \in asked : p.id # calls1'
      BY <1>1 DEF OriginInv
    <3>3. QED
      BY <3>1, <3>2, <1>1, <1>2, <1>6
  <2>2. CASE u # t
    <3>1. call1'[u] = call1[u]
      BY <2>2, <1>1 DEF TypeOK
    <3>2. call1[u].id \in 1..calls1 /\ call1[u].id # calls1'
      BY <3>1, <1>1 DEF CommandInv
    <3>3. QED
      BY <3>1, <3>2, <1>1, <1>2 DEF CommandInv
  <2>3. QED
    BY <2>1, <2>2
<1>9. ServingInv'
  BY <1>1, <1>5 DEF ServingInv
<1>10. ValueInv'
  BY <1>1 DEF ValueInv, Forwarded, First!Promised
<1>11. QED
  BY <1>4, <1>7, <1>8, <1>9, <1>10

LEMMA AcceptIInv ==
  ASSUME IInv, NEW q \in asked, Accept(q)
  PROVE  IInv'
<1> USE DEF IInv, Accept, Second!Issue, link1
<1>1. /\ serving = NoCall /\ serving' = q
      /\ asked' = asked \ {q}
      /\ calls2' = calls2 + 1 /\ calls2 \in Nat
      /\ call2' = [call2 EXCEPT ![Proxy] = [id |-> calls2', cmd |-> q.cmd]]
      /\ origin' = Append(origin, q)
      /\ UNCHANGED <<calls1, call1, ran1, result1, ran2, result2>>
  BY DEF TypeOK
<1>2. q \in Request /\ q # NoCall
  BY ProxyAssumption DEF TypeOK, Request
<1>3. /\ origin' \in Seq(Request) /\ Len(origin') = calls2'
      /\ Calls2' = Calls2 \cup {calls2'}
      /\ calls2' \notin Calls2
      /\ \A k \in Calls2 : origin'[k] = origin[k]
      /\ origin'[calls2'] = q
  BY <1>1, <1>2, OriginKept
<1>4. call2' \in [{Proxy} -> Request \cup {NoCall}]
      /\ call2'[Proxy] = [id |-> calls2', cmd |-> q.cmd] /\ call2'[Proxy] # NoCall
  BY <1>1, <1>2, ProxyAssumption DEF TypeOK, Request
<1>5. OriginInv'
  <2>1. \A k \in Calls2 : origin[k].id # q.id
    BY DEF OriginInv
  <2>2. \A p \in asked' : p.id \in 1..calls1' /\ \A k \in Calls2' : origin'[k].id # p.id
    <3> SUFFICES ASSUME NEW p \in asked' PROVE p.id \in 1..calls1' /\ \A k \in Calls2' : origin'[k].id # p.id
      OBVIOUS
    <3>1. p \in asked /\ p # q
      BY <1>1
    <3>2. p.id # q.id /\ p.id \in 1..calls1 /\ \A k \in Calls2 : origin[k].id # p.id
      BY <3>1 DEF OriginInv
    <3>3. \A k \in Calls2 : origin'[k].id # p.id
      BY <1>3, <3>2
    <3>4. QED
      BY <1>1, <1>3, <3>2, <3>3
  <2>3. \A k \in Calls2' : origin'[k].id \in 1..calls1'
    BY <1>1, <1>3 DEF OriginInv
  <2>4. \A j, k \in Calls2' : origin'[j].id = origin'[k].id => j = k
    <3>1. \A j, k \in Calls2 : origin'[j].id = origin'[k].id => j = k
      BY <1>3 DEF OriginInv
    <3>2. \A k \in Calls2 : origin'[k].id # origin'[calls2'].id
      BY <1>3, <2>1
    <3>3. QED
      BY <1>3, <3>1, <3>2
  <2>5. \A p, r \in asked' : p.id = r.id => p = r
    BY <1>1 DEF OriginInv
  <2>6. QED
    BY <2>2, <2>3, <2>4, <2>5 DEF OriginInv
<1>6. TypeOK'
  <2>1. calls2' \in Nat /\ calls1' \in 0..MaxCalls
    BY <1>1 DEF TypeOK
  <2>2. calls2' <= calls1'
    <3>1. /\ \A k \in 1..calls2' : origin'[k].id \in 1..calls1'
          /\ \A j, k \in 1..calls2' : origin'[j].id = origin'[k].id => j = k
      BY <1>5 DEF OriginInv, Calls2
    <3>2. calls1' \in Nat
      BY <2>1, ProxyAssumption
    <3>3. QED
      BY ONLY <2>1, <3>1, <3>2, CallsBounded
  <2>3. calls2' \in 0..MaxCalls
    BY <2>1, <2>2, ProxyAssumption
  <2>4. ran2' \in SUBSET [id : 1..calls2', ret : Int]
    BY <1>1 DEF TypeOK
  <2>5. QED
    BY <1>1, <1>2, <1>3, <1>4, <2>1, <2>3, <2>4 DEF TypeOK
<1>7. CommandInv'
  <2>1. ASSUME NEW u \in Thread, call1[u] # NoCall
        PROVE  \A k \in Calls2' : origin'[k].id = call1[u].id => origin'[k].cmd = call1[u].cmd
    <3>1. q.id = call1[u].id => q.cmd = call1[u].cmd
      BY <2>1 DEF CommandInv
    <3>2. \A k \in Calls2 : origin'[k].id = call1[u].id => origin'[k].cmd = call1[u].cmd
      BY <2>1, <1>3 DEF CommandInv
    <3>3. QED
      BY <3>1, <3>2, <1>3
  <2>2. ASSUME NEW u \in Thread, call1[u] # NoCall
        PROVE  call1[u].id \in 1..calls1 /\ \A p \in asked' : p.id = call1[u].id => p.cmd = call1[u].cmd
    BY <2>2, <1>1 DEF CommandInv
  <2>3. QED
    BY ONLY <1>1, <2>1, <2>2 DEF CommandInv
<1>8. ServingInv'
  BY <1>1, <1>2, <1>3, <1>4 DEF ServingInv
<1>9. ValueInv'
  <2> SUFFICES ASSUME NEW r \in ran1, r.ret \notin LocalError
               PROVE  \E s \in ran2 : /\ origin'[s.id].id = r.id
                                      /\ r.ret = First!Promised(origin'[s.id].cmd, s.ret)
    BY <1>1 DEF ValueInv, Forwarded, First!Promised
  <2>1. PICK s \in ran2 : /\ origin[s.id].id = r.id
                          /\ r.ret = First!Promised(origin[s.id].cmd, s.ret)
    BY DEF ValueInv, Forwarded
  <2>2. s.id \in Calls2
    BY DEF TypeOK, Calls2
  <2>3. QED
    BY <2>1, <2>2, <1>3
<1>10. QED
  BY <1>5, <1>6, <1>7, <1>8, <1>9

LEMMA RunLastIInv ==
  ASSUME IInv, NEW k \in Calls2, NEW ret \in Ret, RunLast(k, ret)
  PROVE  IInv'
<1> USE DEF IInv, RunLast, Second!Run, link1
<1>1. /\ ran2' = ran2 \cup {[id |-> k, ret |-> ret]}
      /\ UNCHANGED <<calls1, call1, ran1, result1, calls2, call2, result2, asked, serving,
                     origin, Calls2>>
  BY DEF Calls2
<1>2. TypeOK'
  BY <1>1, ProxyAssumption DEF TypeOK, Calls2
<1>3. OriginInv' /\ CommandInv' /\ ServingInv'
  BY <1>1 DEF OriginInv, CommandInv, ServingInv
<1>4. ValueInv'
  BY <1>1 DEF ValueInv, Forwarded, First!Promised
<1>5. QED
  BY <1>2, <1>3, <1>4

\* The callback of the proxy returns an error of the second link, or what the last
\* device returned for that call.
LEMMA RespondValue ==
  ASSUME IInv, Respond
  PROVE  /\ result2' \in [{Proxy} -> Int]
         /\ \/ result2'[Proxy] \in LocalError
            \/ Forwarded([id |-> serving.id, ret |-> result2'[Proxy]])
<1> USE DEF IInv, Respond
<1>1. /\ calls2 \in Calls2 /\ serving = origin[calls2]
      /\ call2[Proxy] = [id |-> calls2, cmd |-> serving.cmd]
  BY DEF ServingInv
<1>2. PICK v \in LocalError \cup {Second!Promised(call2[Proxy].cmd, r.ret) :
                                     r \in {s \in ran2 : s.id = call2[Proxy].id}} :
        result2' = [result2 EXCEPT ![Proxy] = v]
  BY DEF Second!Complete
<1>3. \/ v \in LocalError
      \/ \E r \in ran2 : r.id = calls2 /\ v = First!Promised(serving.cmd, r.ret)
  BY <1>1, <1>2 DEF Second!Promised, First!Promised
<1>4. v \in Int
  <2>1. CASE v \in LocalError
    BY <2>1, ProxyAssumption
  <2>2. ASSUME NEW r \in ran2, v = First!Promised(serving.cmd, r.ret)
        PROVE  v \in Int
    <3>1. r.ret \in Int
      BY DEF TypeOK
    <3>2. QED
      BY <2>2, <3>1 DEF First!Promised
  <2>3. QED
    BY <1>3, <2>1, <2>2
<1>5. result2'[Proxy] = v /\ result2' \in [{Proxy} -> Int]
  BY <1>2, <1>4 DEF TypeOK
<1>6. ASSUME NEW r \in ran2, r.id = calls2, v = First!Promised(serving.cmd, r.ret)
      PROVE  Forwarded([id |-> serving.id, ret |-> result2'[Proxy]])
  BY <1>1, <1>5, <1>6 DEF Forwarded
<1>7. QED
  BY <1>3, <1>5, <1>6

LEMMA RespondIInv ==
  ASSUME IInv, Respond
  PROVE  IInv'
<1>1. /\ serving' = NoCall /\ call2' = [call2 EXCEPT ![Proxy] = NoCall]
      /\ ran1' = ran1 \cup {[id |-> serving.id, ret |-> result2'[Proxy]]}
      /\ serving # NoCall
      /\ UNCHANGED <<calls1, call1, result1, calls2, ran2, asked, origin, Calls2>>
  BY DEF Respond, Second!Complete, First!Run, Calls2
<1>2. TypeOK'
  <2>1. serving \in Request /\ result2'[Proxy] \in Int
    BY <1>1, RespondValue DEF IInv, TypeOK
  <2>2. ran1' \in SUBSET [id : Nat, ret : Int]
    BY <1>1, <2>1 DEF IInv, TypeOK, Request
  <2>3. call2' \in [{Proxy} -> Request \cup {NoCall}]
    BY <1>1 DEF IInv, TypeOK
  <2>4. QED
    BY <1>1, <2>2, <2>3, RespondValue DEF IInv, TypeOK
<1>3. OriginInv' /\ CommandInv'
  BY <1>1 DEF IInv, OriginInv, CommandInv
<1>4. ServingInv'
  BY <1>1 DEF IInv, ServingInv, TypeOK
<1>5. ValueInv'
  <2> SUFFICES ASSUME NEW r \in ran1' PROVE r.ret \in LocalError \/ Forwarded(r)
    BY <1>1 DEF ValueInv, Forwarded, First!Promised
  <2>1. CASE r \in ran1
    BY <2>1 DEF IInv, ValueInv
  <2>2. CASE r = [id |-> serving.id, ret |-> result2'[Proxy]]
    BY <2>2, RespondValue
  <2>3. QED
    BY <1>1, <2>1, <2>2
<1>6. QED
  BY <1>2, <1>3, <1>4, <1>5 DEF IInv

LEMMA ReturnIInv ==
  ASSUME IInv, NEW t \in Thread, Return(t)
  PROVE  IInv'
<1>1. PICK v \in LocalError \cup {First!Promised(call1[t].cmd, r.ret) :
                                     r \in {s \in ran1 : s.id = call1[t].id}} :
        result1' = [result1 EXCEPT ![t] = v]
  BY DEF Return, First!Complete
<1>2. v \in Int
  BY <1>1, ProxyAssumption DEF First!Promised, IInv, TypeOK
<1>3. /\ call1' = [call1 EXCEPT ![t] = NoCall]
      /\ UNCHANGED <<calls1, ran1, calls2, call2, ran2, result2, asked, serving, origin, Calls2>>
  BY DEF Return, First!Complete, link2, Calls2
<1>4. TypeOK'
  BY <1>1, <1>2, <1>3 DEF IInv, TypeOK
<1>5. OriginInv' /\ ServingInv' /\ ValueInv'
  BY <1>3 DEF IInv, OriginInv, ServingInv, ValueInv, Forwarded, First!Promised
<1>6. CommandInv'
  <2>1. \A u \in Thread : call1'[u] # NoCall => u # t /\ call1'[u] = call1[u]
    BY <1>3 DEF IInv, TypeOK
  <2>2. QED
    BY <1>3, <2>1 DEF IInv, CommandInv
<1>7. QED
  BY <1>4, <1>5, <1>6 DEF IInv

LEMMA QuietIInv ==
  ASSUME IInv, UNCHANGED vars
  PROVE  IInv'
<1>1. UNCHANGED <<calls1, call1, ran1, result1, calls2, call2, ran2, result2, asked, serving,
                  origin, Calls2>>
  BY DEF vars, link1, link2, Calls2
<1>2. TypeOK' /\ OriginInv' /\ CommandInv'
  BY <1>1 DEF IInv, TypeOK, OriginInv, CommandInv
<1>3. ServingInv' /\ ValueInv'
  BY <1>1 DEF IInv, ServingInv, ValueInv, Forwarded, First!Promised
<1>4. QED
  BY <1>2, <1>3 DEF IInv

\* The actions of Next, with the types of their parameters.
Steps == \/ \E t \in Thread, c \in Cmd : Issue(t, c)
         \/ \E t \in Thread : Return(t)
         \/ \E q \in asked : Accept(q)
         \/ \E k \in Calls2, ret \in Ret : RunLast(k, ret)
         \/ Respond
         \/ UNCHANGED vars

LEMMA NextSteps == [Next]_vars => Steps
BY DEF Next, Steps, Exhausted, LegalRet, Calls2

LEMMA NextIInv == IInv /\ Steps => IInv'
BY IssueIInv, AcceptIInv, RunLastIInv, RespondIInv, ReturnIInv, QuietIInv DEF Steps

\* Every variable keeps its type; in particular the proxy never makes more calls than
\* it was asked for.
THEOREM TypeCorrect == Spec => []TypeOK
<1>1. IInv => TypeOK
  BY DEF IInv
<1>2. QED
  BY InitIInv, NextSteps, NextIInv, <1>1, PTL DEF Spec

THEOREM Invariance == Spec => []IInv
BY InitIInv, NextSteps, NextIInv, PTL DEF Spec

-----------------------------------------------------------------------------
(* The steps of the cascade as steps of one link. *)

LEMMA EndInit == Init => EndToEnd!Init
BY DEF Init, First!Init, Second!Init, EndToEnd!Init

\* A step that leaves the first application and ran2 alone, and origin up to new
\* calls, is not seen from outside.
LEMMA EndQuiet ==
  ASSUME TypeOK, UNCHANGED <<calls1, call1, result1, ran2>>,
         \A k \in Calls2 : origin'[k] = origin[k]
  PROVE  UNCHANGED EndToEnd!vars
<1>1. \A r \in ran2 : r.id \in Calls2
  BY DEF TypeOK, Calls2
<1>2. LastRan' = LastRan
  BY <1>1 DEF LastRan
<1>3. QED
  BY <1>2 DEF EndToEnd!vars, LastRan

LEMMA EndRunLast ==
  ASSUME IInv, NEW k \in Calls2, NEW ret \in Ret, RunLast(k, ret)
  PROVE  EndToEnd!Run(origin[k].id, ret) /\ origin[k].id \in 1..calls1
<1>1. /\ ran2' = ran2 \cup {[id |-> k, ret |-> ret]} /\ \A r \in ran2 : r.id # k
      /\ UNCHANGED <<calls1, call1, result1, origin>>
  BY DEF RunLast, Second!Run, link1
<1>2. \A r \in ran2 : r.id \in Calls2
  BY DEF IInv, TypeOK, Calls2
<1>3. \A r \in ran2 : origin[r.id].id # origin[k].id
  BY <1>1, <1>2 DEF IInv, OriginInv
<1>4. LastRan' = LastRan \cup {[id |-> origin[k].id, ret |-> ret]}
  <2> DEFINE Told(r) == [id |-> origin[r.id].id, ret |-> r.ret]
             new == [id |-> k, ret |-> ret]
  <2>1. LastRan' = {Told(r) : r \in ran2'} /\ LastRan = {Told(r) : r \in ran2}
    BY <1>1 DEF LastRan
  <2>2. Told(new) = [id |-> origin[k].id, ret |-> ret] /\ ran2' = ran2 \cup {new}
    BY <1>1
  <2> HIDE DEF Told, new
  <2>3. {Told(r) : r \in ran2 \cup {new}} = {Told(r) : r \in ran2} \cup {Told(new)}
    OBVIOUS
  <2>4. QED
    BY <2>1, <2>2, <2>3
<1>5. \A r \in LastRan : r.id # origin[k].id
  BY <1>3 DEF LastRan
<1>6. origin[k].id \in 1..calls1
  BY DEF IInv, OriginInv
<1>7. QED
  BY <1>1, <1>4, <1>5, <1>6 DEF EndToEnd!Run, LastRan

\* A value passed through the proxy is promised once, not twice.
LEMMA PromisedTwice ==
  ASSUME NEW c, NEW v \in Int
  PROVE  First!Promised(c, First!Promised(c, v)) = First!Promised(c, v)
BY DEF First!Promised

LEMMA EndReturn ==
  ASSUME IInv, NEW t \in Thread, Return(t)
  PROVE  EndToEnd!Complete(t)
<1> DEFINE id == call1[t].id
           cmd == call1[t].cmd
<1>1. PICK v \in LocalError \cup {First!Promised(cmd, r.ret) : r \in {s \in ran1 : s.id = id}} :
        result1' = [result1 EXCEPT ![t] = v]
  BY DEF Return, First!Complete
<1>2. /\ call1[t] # NoCall /\ call1' = [call1 EXCEPT ![t] = NoCall]
      /\ UNCHANGED <<calls1, ran2, origin>>
  BY DEF Return, First!Complete, link2
<1>3. v \in LocalError \cup {First!Promised(cmd, r.ret) : r \in {s \in LastRan : s.id = id}}
  <2>1. CASE v \in LocalError
    BY <2>1
  <2>2. ASSUME NEW r \in ran1, r.id = id, v = First!Promised(cmd, r.ret)
        PROVE  v \in LocalError \cup {First!Promised(cmd, l.ret) : l \in {s \in LastRan : s.id = id}}
    <3>1. CASE r.ret \in LocalError
      <4>1. r.ret \in Int /\ r.ret < 0
        BY <3>1, ProxyAssumption
      <4>2. First!Promised(cmd, r.ret) = r.ret
        BY <4>1 DEF First!Promised
      <4>3. QED
        BY <2>2, <3>1, <4>2
    <3>2. ASSUME NEW s \in ran2, origin[s.id].id = id,
                 r.ret = First!Promised(origin[s.id].cmd, s.ret)
          PROVE  v \in {First!Promised(cmd, l.ret) : l \in {m \in LastRan : m.id = id}}
      <4>1. s.id \in Calls2 /\ s.ret \in Int
        BY DEF IInv, TypeOK, Calls2
      <4>2. origin[s.id].cmd = cmd
        BY <4>1, <3>2, <1>2 DEF IInv, CommandInv
      <4>3. v = First!Promised(cmd, s.ret)
        BY <2>2, <3>2, <4>1, <4>2, PromisedTwice
      <4>4. [id |-> id, ret |-> s.ret] \in LastRan
        BY <3>2 DEF LastRan
      <4>5. QED
        BY <4>3, <4>4
    <3>3. QED
      BY <2>2, <3>1, <3>2 DEF IInv, ValueInv, Forwarded
  <2>3. QED
    BY <1>1, <2>1, <2>2
<1>4. LastRan' = LastRan
  BY <1>2 DEF LastRan
<1>5. QED
  BY <1>1, <1>2, <1>3, <1>4 DEF EndToEnd!Complete, EndToEnd!Promised, First!Promised, LastRan

LEMMA EndNext == IInv /\ Steps => [EndToEnd!Next]_(EndToEnd!vars)
<1> SUFFICES ASSUME IInv, Steps PROVE EndToEnd!Next \/ UNCHANGED EndToEnd!vars
  OBVIOUS
<1>1. ASSUME NEW t \in Thread, NEW c \in Cmd, Issue(t, c)
      PROVE  EndToEnd!Issue(t, c)
  <2>1. UNCHANGED <<ran2, origin>> /\ First!Issue(t, c)
    BY <1>1 DEF Issue, link2
  <2>2. LastRan' = LastRan
    BY <2>1 DEF LastRan
  <2>3. QED
    BY <2>1, <2>2 DEF First!Issue, EndToEnd!Issue, LastRan
<1>2. ASSUME NEW t \in Thread, Return(t) PROVE EndToEnd!Complete(t)
  BY <1>2, EndReturn
<1>3. ASSUME NEW q \in asked, Accept(q) PROVE UNCHANGED EndToEnd!vars
  <2>1. UNCHANGED <<calls1, call1, result1, ran2>> /\ origin' = Append(origin, q)
        /\ calls2' = calls2 + 1
    BY <1>3 DEF Accept, Second!Issue, link1
  <2>2. q \in Request
    BY DEF IInv, TypeOK
  <2>3. \A k \in Calls2 : origin'[k] = origin[k]
    BY <2>1, <2>2, OriginKept DEF IInv
  <2>4. QED
    BY <2>1, <2>3, EndQuiet DEF IInv
<1>4. ASSUME NEW k \in Calls2, NEW ret \in Ret, RunLast(k, ret)
      PROVE  EndToEnd!Next
  BY <1>4, EndRunLast DEF EndToEnd!Next
<1>5. ASSUME Respond PROVE UNCHANGED EndToEnd!vars
  BY <1>5, EndQuiet DEF IInv, Respond, Second!Complete, First!Run
<1>6. ASSUME UNCHANGED vars PROVE UNCHANGED EndToEnd!vars
  BY <1>6, EndQuiet DEF IInv, vars, link1, link2
<1>7. QED
  BY <1>1, <1>2, <1>3, <1>4, <1>5, <1>6 DEF Steps, EndToEnd!Next

\* The cascade of two links keeps the promise of one link to the first application,
\* whatever is lost, late or given up on either link.
THEOREM CascadeIsOneLink == Spec => Implements
BY EndInit, EndNext, NextSteps, Invariance, PTL DEF Spec, Implements, EndToEnd!Spec
=============================================================================
