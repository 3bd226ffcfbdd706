--------------------------- MODULE IcapKernelProofs ---------------------------
(***************************************************************************)
(* Proofs about IcapKernel, for every set of threads and blocks of memory  *)
(* and every bound.                                                        *)
(*                                                                         *)
(* CallInv says that sequence numbers tell calls apart, and BlockInv that  *)
(* every allocated buffer is of one call, found and freed by that call     *)
(* alone.  They are preserved for as long as a number that is given out is *)
(* not in use, and CountInv shows that none is with at most 2^32 calls.    *)
(* LiveInv says what becomes simpler when no call is in progress during a  *)
(* deinitialisation.  RefInv follows requests and responses by the number  *)
(* of their call, whatever sequence numbers do, for the refinement.        *)
(***************************************************************************)
EXTENDS IcapKernel, IcapMsgProofs, FiniteSetTheorems, SequenceTheorems, TLAPS

(* response_queue as a sequence. *)

\* No element occurs twice in s.
Distinct(s) == \A i, j \in DOMAIN s : s[i] = s[j] => i = j

LEMMA Appended ==
  ASSUME NEW T, NEW s \in Seq(T), NEW b \in T
  PROVE  /\ Append(s, b) \in Seq(T)
         /\ S!ToSet(Append(s, b)) = S!ToSet(s) \cup {b}
         /\ Distinct(s) /\ b \notin S!ToSet(s) => Distinct(Append(s, b))
<1> DEFINE r == Append(s, b)
           n == Len(s)
<1>1. /\ r \in Seq(T) /\ Len(r) = n + 1 /\ DOMAIN r = 1..(n + 1)
      /\ \A i \in 1..n : r[i] = s[i]
      /\ r[n + 1] = b
      /\ n \in Nat /\ DOMAIN s = 1..n
  BY AppendProperties
<1> HIDE DEF r, n
<1>2. \A i \in 1..(n + 1) : i \in 1..n \/ i = n + 1
  BY <1>1
<1>3. n + 1 \in 1..(n + 1) /\ \A i \in 1..n : i \in 1..(n + 1)
  BY <1>1
<1>4. S!ToSet(r) = S!ToSet(s) \cup {b}
  BY <1>1, <1>2, <1>3 DEF S!ToSet
<1>5. Distinct(s) /\ b \notin S!ToSet(s) => Distinct(r)
  BY <1>1, <1>2 DEF S!ToSet, Distinct
<1>6. QED
  BY <1>1, <1>4, <1>5 DEF r

LEMMA Removed ==
  ASSUME NEW T, NEW s \in Seq(T), Distinct(s), NEW i \in DOMAIN s
  PROVE  /\ S!RemoveAt(s, i) \in Seq(T)
         /\ S!ToSet(S!RemoveAt(s, i)) = S!ToSet(s) \ {s[i]}
         /\ Distinct(S!RemoveAt(s, i))
<1> DEFINE n == Len(s)
           a == SubSeq(s, 1, i - 1)
           c == SubSeq(s, i + 1, n)
           r == S!RemoveAt(s, i)
<1>1. n \in Nat /\ DOMAIN s = 1..n /\ i \in 1..n
  OBVIOUS
<1>2. a \in Seq(T) /\ Len(a) = i - 1 /\ \A j \in 1..(i - 1) : a[j] = s[j]
  BY SubSeqProperties
<1>3. c \in Seq(T) /\ Len(c) = n - i /\ \A j \in 1..(n - i) : c[j] = s[i + j]
  BY SubSeqProperties
<1>4. r = a \o c
  BY DEF S!RemoveAt
<1>5. /\ a \o c \in Seq(T)
      /\ Len(a \o c) = Len(a) + Len(c)
      /\ \A j \in 1..(Len(a) + Len(c)) : (a \o c)[j] = IF j <= Len(a) THEN a[j] ELSE c[j - Len(a)]
  BY ONLY <1>2, <1>3, ConcatProperties
<1> HIDE DEF a, c, r, n
<1>6. /\ r \in Seq(T) /\ Len(r) = n - 1 /\ DOMAIN r = 1..(n - 1)
      /\ \A j \in 1..(n - 1) : r[j] = IF j <= i - 1 THEN a[j] ELSE c[j - (i - 1)]
  <2>1. r \in Seq(T) /\ Len(r) = Len(a) + Len(c)
        /\ \A j \in 1..(Len(a) + Len(c)) : r[j] = IF j <= Len(a) THEN a[j] ELSE c[j - Len(a)]
    BY ONLY <1>4, <1>5
  <2>2. Len(a) = i - 1 /\ Len(a) + Len(c) = n - 1
    BY <1>1, <1>2, <1>3
  <2>3. QED
    BY ONLY <2>1, <2>2
<1>7. \A j \in 1..(n - 1) : r[j] = s[IF j < i THEN j ELSE j + 1]
  <2>1. ASSUME NEW j \in 1..(n - 1), j < i PROVE r[j] = s[j]
    <3>1. j \in 1..(i - 1) /\ j <= i - 1
      BY <1>1, <2>1
    <3>2. QED
      BY <1>2, <1>6, <3>1
  <2>2. ASSUME NEW j \in 1..(n - 1), ~(j < i) PROVE r[j] = s[j + 1]
    <3>1. j - (i - 1) \in 1..(n - i) /\ i + (j - (i - 1)) = j + 1 /\ ~(j <= i - 1)
      BY <1>1, <2>2
    <3>2. QED
      BY <1>3, <1>6, <3>1
  <2>3. QED
    BY <2>1, <2>2
<1>8. S!ToSet(r) = S!ToSet(s) \ {s[i]}
  <2>1. ASSUME NEW j \in 1..(n - 1)
        PROVE  \E k \in 1..n : k # i /\ r[j] = s[k]
    <3>1. (IF j < i THEN j ELSE j + 1) \in 1..n /\ (IF j < i THEN j ELSE j + 1) # i
      BY <1>1
    <3>2. QED
      BY <1>7, <3>1
  <2>2. ASSUME NEW k \in 1..n, k # i
        PROVE  \E j \in 1..(n - 1) : r[j] = s[k]
    <3>1. (IF k < i THEN k ELSE k - 1) \in 1..(n - 1)
      BY <1>1, <2>2
    <3>2. CASE k < i
      BY <1>1, <1>7, <2>2, <3>1, <3>2
    <3>3. CASE ~(k < i)
      <4>1. k - 1 \in 1..(n - 1) /\ ~(k - 1 < i) /\ (k - 1) + 1 = k
        BY <1>1, <2>2, <3>3
      <4>2. QED
        BY <1>7, <4>1
    <3>4. QED
      BY <3>2, <3>3
  <2>3. \A k \in 1..n : s[k] = s[i] => k = i
    BY <1>1 DEF Distinct
  <2>4. S!ToSet(r) = {r[j] : j \in 1..(n - 1)} /\ S!ToSet(s) = {s[k] : k \in 1..n}
    BY <1>1, <1>6 DEF S!ToSet
  <2>5. ASSUME NEW x \in S!ToSet(r) PROVE x \in S!ToSet(s) \ {s[i]}
    <3>1. PICK j \in 1..(n - 1) : x = r[j]
      BY <2>4, <2>5
    <3>2. QED
      BY <1>1, <2>1, <2>3, <2>4, <3>1
  <2>6. ASSUME NEW x \in S!ToSet(s) \ {s[i]} PROVE x \in S!ToSet(r)
    <3>1. PICK k \in 1..n : x = s[k]
      BY <2>4, <2>6
    <3>2. k # i
      BY <2>6, <3>1
    <3>3. QED
      BY <2>2, <2>4, <3>1, <3>2
  <2>7. QED
    BY <2>5, <2>6
<1>9. Distinct(r)
  <2>1. SUFFICES ASSUME NEW j \in 1..(n - 1), NEW k \in 1..(n - 1), r[j] = r[k] PROVE j = k
    BY <1>6 DEF Distinct
  <2>2. \A l \in 1..(n - 1) : (IF l < i THEN l ELSE l + 1) \in 1..n
    BY <1>1
  <2>3. (IF j < i THEN j ELSE j + 1) = (IF k < i THEN k ELSE k + 1)
    BY <1>1, <2>1, <1>7, <2>2 DEF Distinct
  <2>4. QED
    BY <1>1, <2>3
<1>10. QED
  BY <1>6, <1>8, <1>9 DEF r

\* The same without Distinct.
LEMMA RemovedType ==
  ASSUME NEW T, NEW s \in Seq(T), NEW i \in DOMAIN s
  PROVE  S!RemoveAt(s, i) \in Seq(T)
<1>1. i \in 1..Len(s) /\ Len(s) \in Nat
  OBVIOUS
<1>2. SubSeq(s, 1, i - 1) \in Seq(T) /\ SubSeq(s, i + 1, Len(s)) \in Seq(T)
  BY <1>1, SubSeqProperties
<1>3. QED
  BY <1>2, ConcatProperties DEF S!RemoveAt

LEMMA Linking ==
  ASSUME queue \in Seq(Skb)
  PROVE  /\ Linked \subseteq Skb
         /\ \A i \in DOMAIN queue : queue[i] \in Linked
         /\ \A b \in Linked : \E i \in DOMAIN queue : queue[i] = b
         /\ \A n : Found(n) \subseteq Linked
BY DEF Linked, Found, S!ToSet

-----------------------------------------------------------------------------
(* The type invariant. *)

LEMMA BlankType == Blank \in Buffer
BY DEF Blank, Buffer

LEMMA InitTypeOK == Init => TypeOK
<1> SUFFICES ASSUME Init PROVE TypeOK
  OBVIOUS
<1>1. skb \in [Skb -> Buffer] /\ queue \in Seq(Skb)
  BY BlankType DEF Init
<1>2. QED
  BY <1>1, KernelAssumption DEF Init, TypeOK, Busy, CallInfo

LEMMA ReturnType ==
  ASSUME TypeOK, NEW t \in Thread, NEW v \in Int, Return(t, v),
         UNCHANGED <<instance, seqNum, platformLock, rx, channel>>,
         queue' \in Seq(Skb), used' \in SUBSET Skb, skb' \in [Skb -> Buffer]
  PROVE  TypeOK'
<1> USE KernelAssumption
<1>1. seq' \in [Thread -> 0..(SeqMod - 1)] /\ buf' \in [Thread -> Skb \cup {NoSkb}]
  BY DEF TypeOK, Return
<1>2. pc' \in [Thread -> Busy \cup {"idle"}]
  BY DEF TypeOK, Return, Goto
<1>3. /\ woke' \in [Thread -> {"asleep", "reply", "signal", "timeout"}]
      /\ call' \in [Thread -> CallInfo \cup {NoCall}]
      /\ result' \in [Thread -> Int]
      /\ \A u \in Thread : pc'[u] = "idle" <=> call'[u] = NoCall
  BY DEF TypeOK, Return, Goto
<1>4. QED
  BY <1>1, <1>2, <1>3 DEF TypeOK, Return, instance, channel

\* The result read from a buffer, and what is put into one.
LEMMA ReadableType ==
  ASSUME TypeOK, NEW t \in Thread, NEW v \in Readable(t)
  PROVE  v \in Int
<1>1. CASE buf[t] \in used /\ Got(t) # <<>>
  <2>1. Got(t) \in Seq(Reply)
    BY <1>1 DEF TypeOK, Buffer, Got
  <2>2. Head(Got(t)) \in Reply
    BY <1>1, <2>1
  <2>3. CallResult(call[t].cmd, Head(Got(t))) \in Int
    BY <2>2, CallResultType DEF Reply
  <2>4. QED
    BY <1>1, <2>3 DEF Readable
<1>2. CASE ~(buf[t] \in used /\ Got(t) # <<>>)
  BY <1>2, KernelAssumption DEF Readable
<1>3. QED
  BY <1>1, <1>2

LEMMA FillType ==
  ASSUME TypeOK, rx \in Reply, NEW b \in Skb, Fill(b)
  PROVE  /\ skb' \in [Skb -> Buffer]
         /\ \A c \in Skb \ {b} : skb'[c] = skb[c]
         /\ skb'[b].seq = skb[b].seq /\ skb'[b].id = skb[b].id
         /\ skb'[b].got = Append(skb[b].got, rx)
<1>1. skb[b] \in Buffer /\ skb[b].got \in Seq(Reply)
  BY DEF TypeOK, Buffer
<1>2. Append(skb[b].got, rx) \in Seq(Reply)
  BY <1>1
<1>3. skb' = [skb EXCEPT ![b] = [skb[b] EXCEPT !.got = Append(skb[b].got, rx)]]
  BY DEF Fill, TypeOK
<1>4. [skb[b] EXCEPT !.got = Append(skb[b].got, rx)] \in Buffer
  BY <1>1, <1>2 DEF Buffer
<1>5. QED
  BY <1>1, <1>3, <1>4 DEF TypeOK, Buffer

LEMMA NextTypeOK == TypeOK /\ [Next]_vars => TypeOK'
<1> SUFFICES ASSUME TypeOK, [Next]_vars PROVE TypeOK'
  OBVIOUS
<1> USE KernelAssumption DEF instance, memory, local, channel, history
<1>1. ASSUME NEW t \in Thread, NEW c \in Cmd, Call(t, c) PROVE TypeOK'
  BY <1>1, SMTT(30) DEF Call, CallInfo, TypeOK, At, Goto, Busy
<1>2. ASSUME NEW t \in Thread, TakeNumber(t) PROVE TypeOK'
  BY <1>2, SMTT(30) DEF TakeNumber, TypeOK, At, Goto, Busy
<1>3. ASSUME NEW t \in Thread, ReadNumber(t) PROVE TypeOK'
  BY <1>3, SMTT(30) DEF ReadNumber, TypeOK, At, Goto, Busy
<1>4. ASSUME NEW t \in Thread, PrepareWait(t) PROVE TypeOK'
  <2>1. UNCHANGED <<instance, seqNum, platformLock, rx, channel>>
    BY <1>4 DEF PrepareWait
  <2>2. ASSUME NEW b \in Skb \ used, used' = used \cup {b},
               skb' = [skb EXCEPT ![b] = [seq |-> seq[t], id |-> call[t].id, got |-> <<>>]],
               queue' = Append(queue, b), Goto(t, "send"), UNCHANGED <<local, history>>
        PROVE  TypeOK'
    <3>1. pc[t] = "prepare" /\ call[t] \in CallInfo
      BY <1>4 DEF PrepareWait, At, TypeOK
    <3>2. [seq |-> seq[t], id |-> call[t].id, got |-> <<>>] \in Buffer
      BY <3>1 DEF Buffer, CallInfo, TypeOK
    <3>3. skb' \in [Skb -> Buffer] /\ queue' \in Seq(Skb) /\ used' \in SUBSET Skb
      BY <2>2, <3>2 DEF TypeOK
    <3>4. pc' \in [Thread -> Busy \cup {"idle"}] /\ \A u \in Thread : pc'[u] = "idle" <=> call'[u] = NoCall
      BY <2>2, <3>1 DEF TypeOK, Goto, Busy
    <3>5. QED
      BY <2>1, <2>2, <3>3, <3>4 DEF TypeOK
  <2>3. CASE UNCHANGED memory /\ (Return(t, -ICAP_ERROR_BROKEN_CON) \/ Return(t, -ICAP_ERROR_NOMEM))
    <3>1. -ICAP_ERROR_BROKEN_CON \in Int /\ -ICAP_ERROR_NOMEM \in Int
      BY DEF ICAP_ERROR_BROKEN_CON, ICAP_ERROR_NOMEM
    <3>2. queue' \in Seq(Skb) /\ used' \in SUBSET Skb /\ skb' \in [Skb -> Buffer]
      BY <2>3 DEF TypeOK
    <3>3. QED
      BY <2>1, <2>3, <3>1, <3>2, ReturnType
  <2>4. QED
    BY <1>4, <2>2, <2>3 DEF PrepareWait
<1>5. ASSUME NEW t \in Thread, Send(t) PROVE TypeOK'
  BY <1>5, SMTT(30) DEF Send, Request, CallInfo, TypeOK, At, Goto, Busy
<1>6. ASSUME NEW t \in Thread, FindBuffer(t) PROVE TypeOK'
  <2>1. UNCHANGED <<instance, seqNum, platformLock, memory, rx, channel>>
    BY <1>6 DEF FindBuffer
  <2>2. ASSUME NEW b \in Found(seq[t]), buf' = [buf EXCEPT ![t] = b], Goto(t, "wait"),
               UNCHANGED <<seq, woke, history>>
        PROVE  TypeOK'
    <3>1. b \in Skb /\ pc[t] = "find"
      BY <1>6, Linking DEF FindBuffer, At, TypeOK
    <3>2. buf' \in [Thread -> Skb \cup {NoSkb}] /\ pc' \in [Thread -> Busy \cup {"idle"}]
          /\ \A u \in Thread : pc'[u] = "idle" <=> call'[u] = NoCall
      BY <2>2, <3>1 DEF TypeOK, Goto, Busy
    <3>3. QED
      BY <2>1, <2>2, <3>2 DEF TypeOK
  <2>3. CASE Return(t, -ICAP_ERROR_PROTOCOL)
    <3>1. -ICAP_ERROR_PROTOCOL \in Int
      BY DEF ICAP_ERROR_PROTOCOL
    <3>2. queue' \in Seq(Skb) /\ used' \in SUBSET Skb /\ skb' \in [Skb -> Buffer]
      BY <2>1 DEF TypeOK
    <3>3. QED
      BY <2>1, <2>3, <3>1, <3>2, ReturnType
  <2>4. QED
    BY <1>6, <2>2, <2>3 DEF FindBuffer
<1>7. ASSUME NEW t \in Thread, NEW why \in {"reply", "signal", "timeout"}, WakeUp(t, why)
      PROVE  TypeOK'
  <2>1. /\ pc[t] = "wait" /\ pc' = [pc EXCEPT ![t] = "unlink"] /\ woke' = [woke EXCEPT ![t] = why]
        /\ UNCHANGED <<instance, seqNum, platformLock, memory, seq, buf, rx, channel, history>>
    BY <1>7 DEF WakeUp, At, Goto
  <2>2. QED
    BY <2>1 DEF TypeOK, Busy
<1>8. ASSUME NEW t \in Thread, Unlink(t) PROVE TypeOK'
  <2>1. queue' \in Seq(Skb)
    BY <1>8, RemovedType DEF Unlink, TypeOK
  <2>2. /\ pc[t] = "unlink" /\ pc' = [pc EXCEPT ![t] = "finish"]
        /\ UNCHANGED <<instance, seqNum, platformLock, used, skb, local, rx, channel, history>>
    BY <1>8 DEF Unlink, At, Goto
  <2>3. QED
    BY <2>1, <2>2 DEF TypeOK, Busy
<1>9. ASSUME NEW t \in Thread, Finish(t) PROVE TypeOK'
  <2>1. UNCHANGED <<instance, seqNum, platformLock, rx, channel>>
    BY <1>9 DEF Finish
  <2>2. queue' \in Seq(Skb) /\ used' \in SUBSET Skb /\ skb' \in [Skb -> Buffer]
    BY <1>9, BlankType DEF Finish, FreeBuffer, TypeOK
  <2>3. ASSUME NEW v \in Int, Return(t, v) PROVE TypeOK'
    BY <2>1, <2>2, <2>3, ReturnType
  <2>4. /\ -ERESTARTSYS \in Int /\ -ICAP_ERROR_TIMEOUT \in Int /\ -ICAP_ERROR_BROKEN_CON \in Int
        /\ \A v \in Readable(t) : v \in Int
    BY ReadableType DEF ERESTARTSYS, ICAP_ERROR_TIMEOUT, ICAP_ERROR_BROKEN_CON
  <2>5. QED
    BY <1>9, <2>3, <2>4 DEF Finish
<1>10. ASSUME NEW t \in Thread, Oops(t) PROVE TypeOK'
  <2>1. pc[t] # "idle" /\ pc' = [pc EXCEPT ![t] = "oops"]
    BY <1>10 DEF Oops, At, Goto
  <2>2. QED
    BY <1>10, <2>1 DEF Oops, TypeOK, Busy
<1>11. ASSUME NEW m \in toApp, Receive(m) PROVE TypeOK'
  BY <1>11, SMTT(30) DEF Receive, TypeOK
<1>12. ASSUME Notify PROVE TypeOK'
  <2>1. rx \in Reply /\ rx' = NoMsg
        /\ UNCHANGED <<instance, seqNum, platformLock, queue, used, pc, local, channel, history>>
    BY <1>12 DEF Notify, TypeOK
  <2>2. skb' \in [Skb -> Buffer]
    <3>1. ASSUME NEW b \in Found(rx.seq), Fill(b) PROVE skb' \in [Skb -> Buffer]
      <4>1. b \in Skb
        BY Linking DEF TypeOK
      <4>2. QED
        BY <2>1, <3>1, <4>1, FillType
    <3>2. QED
      BY <1>12, <3>1 DEF Notify, TypeOK
  <2>3. QED
    BY <2>1, <2>2 DEF TypeOK
<1>13. ASSUME NEW m \in toDev, NEW ret \in LegalRet(m.cmd, Ret), DeviceParse(m, ret)
       PROVE  TypeOK'
  <2> DEFINE reply == DeviceReply(m.cmd, ret)
             out == [seq |-> m.seq, id |-> m.id, type |-> reply.type, len |-> reply.len,
                     val |-> reply.val]
  <2>1. m \in Request /\ m.cmd \in Cmd /\ ret \in Int
    BY DEF Request, LegalRet, TypeOK
  <2>2. out \in Reply /\ [id |-> m.id, ret |-> DeviceRet(m.cmd, ret)] \in [id : Nat, ret : Int]
    BY <2>1, DeviceRetType, DeviceReplyType DEF Request, Reply, ResponseForm
  <2>3. toApp' \in SUBSET Reply /\ ran' \in SUBSET [id : Nat, ret : Int] /\ toDev' \in SUBSET Request
    BY <1>13, <2>2 DEF DeviceParse, TypeOK
  <2>4. QED
    BY <1>13, <2>3 DEF DeviceParse, TypeOK
<1>14. ASSUME NEW m \in toDev, Lose(m) PROVE TypeOK'
  BY <1>14 DEF Lose, TypeOK
<1>15. CASE Deinit
  BY <1>15 DEF Deinit, TypeOK
<1>16. CASE DeinitFlush
  <2>1. used' \in SUBSET Skb /\ skb' \in [Skb -> Buffer] /\ queue' \in Seq(Skb)
    BY <1>16, BlankType DEF DeinitFlush, FreeLinked, TypeOK
  <2>2. QED
    BY <1>16, <2>1 DEF DeinitFlush, TypeOK
<1>17. CASE DeinitClear
  BY <1>17 DEF DeinitClear, TypeOK
<1>18. CASE AppInit
  <2>1. queue' \in Seq(Skb)
    BY <1>18 DEF AppInit
  <2>2. QED
    BY <1>18, <2>1 DEF AppInit, TypeOK
<1>19. CASE UNCHANGED vars
  BY <1>19 DEF vars, TypeOK
<1>20. QED
  BY <1>1, <1>2, <1>3, <1>4, <1>5, <1>6, <1>7, <1>8, <1>9, <1>10, <1>11, <1>12, <1>13,
     <1>14, <1>15, <1>16, <1>17, <1>18, <1>19 DEF Next, Step, Exhausted

\* Every variable of IcapKernel keeps its type, in every instance.
THEOREM TypeCorrect == Spec => []TypeOK
BY InitTypeOK, NextTypeOK, PTL DEF Spec

\* Whatever deinit does, no message is sent on a channel that was given up.
THEOREM SendsEndAtClose == Spec => NoSendAfterClose
<1>1. [Next]_vars => [~rpdev /\ ~rpdev' => toDev' \subseteq toDev]_vars
  BY DEF Next, Step, vars, instance, channel, history, Call, TakeNumber, ReadNumber, PrepareWait,
         Send, FindBuffer, WakeUp, Unlink, Finish, Oops, Receive, Notify, DeviceParse, Lose,
         Deinit, DeinitFlush, DeinitClear, AppInit, Exhausted
<1>2. QED
  BY <1>1, PTL DEF Spec, NoSendAfterClose

-----------------------------------------------------------------------------
(* Sequence numbers tell calls apart, as long as the one that is given out *)
(* is not in use.                                                          *)

NumbersInv ==
  \A t, u \in Thread : pc[t] \in Numbered /\ pc[u] \in Numbered /\ seq[t] = seq[u] => t = u

\* Of a number there is at most one message, and while there is, the call that
\* has the number is the one the message belongs to.
OneMessage ==
  /\ \A m, n \in toDev : m.seq = n.seq => m = n
  /\ \A m, n \in toApp : m.seq = n.seq => m = n
  /\ \A m \in toDev, n \in toApp : m.seq # n.seq
  /\ rx # NoMsg => \A m \in toDev \cup toApp : m.seq # rx.seq

Unsent == {"prepare", "send"}

FlightInv ==
  \A m \in InFlight : \A t \in Thread :
    pc[t] \in Numbered /\ seq[t] = m.seq => m.id = call[t].id /\ pc[t] \notin Unsent

CallInv == NumbersInv /\ OneMessage /\ FlightInv

LEMMA InitCallInv == Init => CallInv
BY DEF Init, CallInv, NumbersInv, OneMessage, FlightInv, InFlight, Numbered

\* Threads move on with the number they have.
Onward ==
  \A t \in Thread :
    pc'[t] \in Numbered => /\ pc[t] \in Numbered /\ seq'[t] = seq[t] /\ call'[t] = call[t]
                           /\ pc'[t] \in Unsent => pc[t] \in Unsent

LEMMA FewerMessages ==
  ASSUME OneMessage, toDev' \subseteq toDev, toApp' \subseteq toApp, rx' = rx
  PROVE  OneMessage' /\ InFlight' \subseteq InFlight
BY DEF OneMessage, InFlight

LEMMA OnwardCall ==
  ASSUME CallInv, Onward, OneMessage', InFlight' \subseteq InFlight
  PROVE  CallInv'
<1>1. NumbersInv'
  BY DEF CallInv, NumbersInv, Onward
<1>2. FlightInv'
  <2>1. SUFFICES ASSUME NEW m \in InFlight', NEW t \in Thread, pc'[t] \in Numbered, seq'[t] = m.seq
                 PROVE  m.id = call'[t].id /\ pc'[t] \notin Unsent
    BY DEF FlightInv
  <2>2. /\ pc[t] \in Numbered /\ seq[t] = m.seq /\ call'[t] = call[t]
        /\ pc'[t] \in Unsent => pc[t] \in Unsent
    BY <2>1 DEF Onward
  <2>3. m.id = call[t].id /\ pc[t] \notin Unsent
    BY <2>2 DEF CallInv, FlightInv
  <2>4. QED
    BY <2>2, <2>3
<1>3. QED
  BY <1>1, <1>2 DEF CallInv

\* icap_send_msg returns, or a thread moves on.
LEMMA OnwardReturn ==
  ASSUME TypeOK, NEW t \in Thread, NEW v, Return(t, v)
  PROVE  Onward
<1>1. /\ pc' = [pc EXCEPT ![t] = "idle"] /\ seq' = [seq EXCEPT ![t] = 0]
      /\ call' = [call EXCEPT ![t] = NoCall]
  BY DEF Return, Goto
<1>2. pc'[t] = "idle"
  BY <1>1 DEF TypeOK
<1>3. \A u \in Thread \ {t} : pc'[u] = pc[u] /\ seq'[u] = seq[u] /\ call'[u] = call[u]
  BY <1>1 DEF TypeOK
<1>4. QED
  BY <1>2, <1>3 DEF Onward, Numbered

LEMMA OnwardMove ==
  ASSUME TypeOK, NEW t \in Thread, NEW to, Goto(t, to), UNCHANGED seq,
         pc[t] # "idle" => UNCHANGED call,
         \A u \in Thread \ {t} : call'[u] = call[u],
         \/ to \in {"number", "numbered", "oops"}
         \/ <<pc[t], to>> \in {<<"prepare", "send">>, <<"send", "find">>, <<"find", "wait">>,
                              <<"wait", "unlink">>, <<"unlink", "finish">>}
  PROVE  Onward
<1>1. pc'[t] = to /\ \A u \in Thread \ {t} : pc'[u] = pc[u]
  BY DEF Goto, TypeOK
<1>2. to \in Numbered => pc[t] \in Numbered /\ call' = call /\ (to \in Unsent => pc[t] \in Unsent)
  BY DEF Numbered, Unsent
<1>3. QED
  BY <1>1, <1>2 DEF Onward

LEMMA OnwardStill ==
  ASSUME UNCHANGED <<pc, seq, call>>
  PROVE  Onward
BY DEF Onward

\* A call gets its number: nothing else has it.
LEMMA ReadNumberCall ==
  ASSUME TypeOK, CallInv, NumberFree, NEW t \in Thread, ReadNumber(t)
  PROVE  CallInv'
<1>1. /\ pc[t] = "numbered" /\ pc' = [pc EXCEPT ![t] = "prepare"]
      /\ seq' = [seq EXCEPT ![t] = seqNum]
      /\ UNCHANGED <<rx, toDev, toApp, call>>
  BY DEF ReadNumber, At, Goto, channel, history
<1>2. /\ \A u \in Thread : pc[u] \in Numbered => seq[u] # seqNum
      /\ \A m \in InFlight : m.seq # seqNum
  BY <1>1 DEF NumberFree, UsedNumbers, At
<1>3. /\ pc'[t] = "prepare" /\ seq'[t] = seqNum
      /\ \A u \in Thread \ {t} : pc'[u] = pc[u] /\ seq'[u] = seq[u]
  BY <1>1 DEF TypeOK
<1>4. InFlight' = InFlight
  BY <1>1 DEF InFlight
<1>5. NumbersInv'
  BY <1>2, <1>3 DEF CallInv, NumbersInv
<1>6. FlightInv'
  BY <1>1, <1>2, <1>3, <1>4 DEF CallInv, FlightInv
<1>7. OneMessage'
  BY <1>1 DEF CallInv, OneMessage
<1>8. QED
  BY <1>5, <1>6, <1>7 DEF CallInv

LEMMA SendCall ==
  ASSUME TypeOK, CallInv, NEW t \in Thread, Send(t)
  PROVE  CallInv'
<1> DEFINE m == [seq |-> seq[t], id |-> call[t].id, cmd |-> call[t].cmd]
<1>1. /\ pc[t] = "send" /\ pc' = [pc EXCEPT ![t] = "find"]
      /\ toDev' = toDev \/ toDev' = toDev \cup {m}
      /\ m.seq = seq[t] /\ m.id = call[t].id
      /\ UNCHANGED <<seq, rx, toApp, call>>
  BY DEF Send, At, Goto, history, local
<1>2. pc'[t] = "find" /\ \A u \in Thread \ {t} : pc'[u] = pc[u]
  BY <1>1 DEF TypeOK
<1>3. \A n \in InFlight : n.seq # seq[t]
  BY <1>1 DEF CallInv, FlightInv, Numbered, Unsent
<1> HIDE DEF m
<1>4. \A n \in InFlight' : n \in InFlight \/ n = m
  BY <1>1 DEF InFlight
<1>5. \A u \in Thread : /\ pc'[u] \in Numbered => pc[u] \in Numbered
                        /\ pc'[u] \in Unsent => pc[u] \in Unsent
  BY <1>1, <1>2 DEF Numbered, Unsent
<1>6. NumbersInv'
  BY <1>1, <1>5 DEF CallInv, NumbersInv
<1>7. OneMessage'
  BY <1>1, <1>3 DEF CallInv, OneMessage, InFlight
<1>8. FlightInv'
  <2>1. ASSUME NEW u \in Thread, pc'[u] \in Numbered, seq[u] = m.seq PROVE u = t
    BY <1>1, <1>5, <2>1 DEF CallInv, NumbersInv, Numbered
  <2>2. pc'[t] \notin Unsent
    BY <1>2 DEF Unsent
  <2>3. QED
    BY <1>1, <1>3, <1>4, <1>5, <2>1, <2>2 DEF CallInv, FlightInv
<1>9. QED
  BY <1>6, <1>7, <1>8 DEF CallInv

LEMMA DeviceParseCall ==
  ASSUME TypeOK, CallInv, NEW m \in toDev, NEW ret, DeviceParse(m, ret)
  PROVE  CallInv'
<1> DEFINE out == [seq |-> m.seq, id |-> m.id, type |-> DeviceReply(m.cmd, ret).type,
                   len |-> DeviceReply(m.cmd, ret).len, val |-> DeviceReply(m.cmd, ret).val]
<1>1. /\ out.seq = m.seq /\ out.id = m.id
      /\ toDev' = toDev \ {m} /\ toApp' \in {toApp, toApp \cup {out}}
      /\ UNCHANGED <<rx, pc, seq, call>>
  BY DEF DeviceParse, local
<1> HIDE DEF out
<1>2. OneMessage'
  <2>1. \A n \in toDev' \cup toApp : n.seq # out.seq
    BY <1>1 DEF CallInv, OneMessage
  <2>2. rx # NoMsg => rx.seq # out.seq
    BY <1>1 DEF CallInv, OneMessage
  <2>3. QED
    BY <1>1, <2>1, <2>2 DEF CallInv, OneMessage
<1>3. m \in InFlight /\ \A n \in InFlight' : n \in InFlight \/ n = out
  BY <1>1 DEF InFlight
<1>4. FlightInv'
  BY <1>1, <1>3 DEF CallInv, FlightInv
<1>5. NumbersInv'
  BY <1>1 DEF CallInv, NumbersInv
<1>6. QED
  BY <1>2, <1>4, <1>5 DEF CallInv

LEMMA NextCallInv ==
  ASSUME TypeOK, CallInv, NumberFree, [Next]_vars
  PROVE  CallInv'
<1>1. ASSUME Onward, UNCHANGED <<toDev, toApp, rx>> PROVE CallInv'
  BY <1>1, FewerMessages, OnwardCall DEF CallInv
<1> USE DEF channel, history, local
<1>2. ASSUME NEW t \in Thread, NEW c \in Cmd, Call(t, c) PROVE CallInv'
  <2>1. \A u \in Thread \ {t} : call'[u] = call[u]
    BY <1>2 DEF Call, TypeOK
  <2>2. Onward
    BY <1>2, <2>1, OnwardMove DEF Call, At
  <2>3. QED
    BY <1>1, <1>2, <2>2 DEF Call
<1>3. ASSUME NEW t \in Thread, TakeNumber(t) PROVE CallInv'
  BY <1>1, <1>3, OnwardMove DEF TakeNumber, At
<1>4. ASSUME NEW t \in Thread, ReadNumber(t) PROVE CallInv'
  BY <1>4, ReadNumberCall
<1>5. ASSUME NEW t \in Thread, PrepareWait(t) PROVE CallInv'
  BY <1>1, <1>5, OnwardMove, OnwardReturn DEF PrepareWait, At
<1>6. ASSUME NEW t \in Thread, Send(t) PROVE CallInv'
  BY <1>6, SendCall
<1>7. ASSUME NEW t \in Thread, FindBuffer(t) PROVE CallInv'
  BY <1>1, <1>7, OnwardMove, OnwardReturn DEF FindBuffer, At
<1>8. ASSUME NEW t \in Thread, NEW why \in {"reply", "signal", "timeout"}, WakeUp(t, why)
      PROVE  CallInv'
  BY <1>1, <1>8, OnwardMove DEF WakeUp, At
<1>9. ASSUME NEW t \in Thread, Unlink(t) PROVE CallInv'
  BY <1>1, <1>9, OnwardMove DEF Unlink, At
<1>10. ASSUME NEW t \in Thread, Finish(t) PROVE CallInv'
  <2>1. (\E v : Return(t, v)) /\ UNCHANGED <<toDev, toApp, rx>>
    BY <1>10 DEF Finish
  <2>2. QED
    BY <1>1, <2>1, OnwardReturn
<1>11. ASSUME NEW t \in Thread, Oops(t) PROVE CallInv'
  BY <1>1, <1>11, OnwardMove DEF Oops
<1>12. ASSUME NEW m \in toApp, Receive(m) PROVE CallInv'
  <2>1. /\ toApp' = toApp \ {m} /\ rx = NoMsg /\ rx' \in {m, NoMsg}
        /\ UNCHANGED <<toDev, pc, seq, call>>
    BY <1>12 DEF Receive
  <2>2. OneMessage' /\ InFlight' \subseteq InFlight
    BY <2>1 DEF CallInv, OneMessage, InFlight
  <2>3. QED
    BY <2>1, <2>2, OnwardStill, OnwardCall
<1>13. ASSUME Notify PROVE CallInv'
  <2>1. rx' = NoMsg /\ UNCHANGED <<toDev, toApp, pc, seq, call>>
    BY <1>13 DEF Notify
  <2>2. OneMessage' /\ InFlight' \subseteq InFlight
    BY <2>1 DEF CallInv, OneMessage, InFlight
  <2>3. QED
    BY <2>1, <2>2, OnwardStill, OnwardCall
<1>14. ASSUME NEW m \in toDev, NEW ret, DeviceParse(m, ret) PROVE CallInv'
  BY <1>14, DeviceParseCall
<1>15. ASSUME NEW m \in toDev, Lose(m) PROVE CallInv'
  <2>1. toDev' \subseteq toDev /\ UNCHANGED <<toApp, rx, pc, seq, call>>
    BY <1>15 DEF Lose
  <2>2. QED
    BY <2>1, FewerMessages, OnwardStill, OnwardCall DEF CallInv
<1>16. ASSUME Deinit \/ DeinitFlush \/ DeinitClear \/ UNCHANGED vars PROVE CallInv'
  <2>1. UNCHANGED <<toDev, toApp, rx, pc, seq, call>>
    BY <1>16 DEF Deinit, DeinitFlush, DeinitClear, vars
  <2>2. QED
    BY <1>1, <2>1, OnwardStill
<1>17. ASSUME AppInit PROVE CallInv'
  <2>1. toDev' \subseteq toDev /\ toApp' \subseteq toApp /\ UNCHANGED <<rx, pc, seq, call>>
    BY <1>17 DEF AppInit
  <2>2. QED
    BY <2>1, FewerMessages, OnwardStill, OnwardCall DEF CallInv
<1>18. QED
  BY <1>2, <1>3, <1>4, <1>5, <1>6, <1>7, <1>8, <1>9, <1>10, <1>11, <1>12, <1>13, <1>14, <1>15,
     <1>16, <1>17 DEF Next, Step, Exhausted


-----------------------------------------------------------------------------
(* An allocated buffer is of one call, which finds it, unlinks it and      *)
(* frees it, unless deinit frees it before.                                *)

\* The buffer that thread t allocated and has not freed.
Mine(t, b) == /\ pc[t] \in {"send", "find", "wait", "unlink", "finish"}
              /\ seq[t] = skb[b].seq /\ call[t].id = skb[b].id
              /\ pc[t] = "finish" <=> b \notin Linked
              /\ pc[t] \in Holding => buf[t] = b

OwnedInv == \A b \in used : \E t \in Thread : Mine(t, b)

UniqueInv == \A b, c \in used : skb[b].seq = skb[c].seq => b = c

\* No buffer is allocated while deinit has left a pointer stale.
Closed == teardown = "clear" \/ ~rpdev

\* What a thread has found is its own buffer, or deinit has freed it; and it was not
\* woken by a response that is not there.
HeldInv ==
  \A t \in Thread : pc[t] \in Holding =>
    /\ buf[t] \in Skb
    /\ IF buf[t] \in used THEN Mine(t, buf[t]) ELSE Closed
    /\ pc[t] # "wait" /\ woke[t] = "reply" /\ buf[t] \in used => Got(t) # <<>>

\* A buffer with a response: it is the only one the call will get.
FilledInv ==
  \A b \in used : skb[b].got # <<>> =>
    /\ Len(skb[b].got) = 1 /\ skb[b].got[1].id = skb[b].id
    /\ \A m \in InFlight : m.seq # skb[b].seq
    /\ \A t \in Thread : Mine(t, b) => pc[t] \notin Unsent

BlockInv == /\ Linked \subseteq used /\ Distinct(queue)
            /\ OwnedInv /\ UniqueInv /\ HeldInv /\ FilledInv

LEMMA InitBlockInv == Init => BlockInv
<1> SUFFICES ASSUME Init PROVE BlockInv
  OBVIOUS
<1>1. Linked = {} /\ Distinct(queue)
  BY DEF Init, Linked, S!ToSet, Distinct
<1>2. QED
  BY <1>1 DEF Init, BlockInv, OwnedInv, UniqueInv, HeldInv, FilledInv, Holding

\* The first buffer with a number is the one with the number.
LEMMA FoundOne ==
  ASSUME TypeOK, BlockInv, NEW n
  PROVE  \A b \in Linked : Has(b, n) => Found(n) = {b}
<1> SUFFICES ASSUME NEW b \in Linked, Has(b, n) PROVE Found(n) = {b}
  OBVIOUS
<1>1. PICK i \in DOMAIN queue : queue[i] = b
  BY Linking DEF TypeOK
<1>2. \A j \in DOMAIN queue : queue[j] \in used /\ (Has(queue[j], n) => j = i)
  BY <1>1, Linking DEF TypeOK, BlockInv, UniqueInv, Has, Distinct
<1>3. DOMAIN queue = 1..Len(queue) /\ Len(queue) \in Nat
  BY DEF TypeOK
<1>4. \A k \in 1..(i - 1) : k \in DOMAIN queue /\ k # i
  BY <1>3
<1>5. b \in Found(n)
  BY <1>1, <1>2, <1>4 DEF Found
<1>6. \A c \in Found(n) : c = b
  BY <1>1, <1>2 DEF Found
<1>7. QED
  BY <1>5, <1>6

LEMMA FoundHas ==
  ASSUME TypeOK, BlockInv, NEW n, NEW b \in Found(n)
  PROVE  b \in Linked /\ b \in used /\ b \in Skb /\ skb[b].seq = n
BY Linking DEF Found, Has, BlockInv, TypeOK

\* A thread that owns a buffer and has found one holds its own.
LEMMA OwnBuffer ==
  ASSUME TypeOK, CallInv, BlockInv, NEW t \in Thread, NEW b \in used, skb[b].seq = seq[t],
         pc[t] \in Numbered
  PROVE  Mine(t, b)
<1>1. PICK u \in Thread : Mine(u, b)
  BY DEF BlockInv, OwnedInv
<1>2. u = t
  BY <1>1 DEF Mine, CallInv, NumbersInv, Numbered
<1>3. QED
  BY <1>1, <1>2

\* Other threads than t stay where they are.
Others(t) == \A u \in Thread \ {t} : /\ pc'[u] = pc[u] /\ seq'[u] = seq[u] /\ buf'[u] = buf[u]
                                     /\ woke'[u] = woke[u] /\ call'[u] = call[u]

LEMMA GotoOthers ==
  ASSUME TypeOK, NEW t \in Thread, NEW to, Goto(t, to), UNCHANGED <<local, call>>
  PROVE  Others(t) /\ pc'[t] = to
BY DEF Goto, TypeOK, Others, local

LEMMA ReturnOthers ==
  ASSUME TypeOK, NEW t \in Thread, NEW v, Return(t, v)
  PROVE  Others(t) /\ pc'[t] = "idle"
BY DEF Return, Goto, TypeOK, Others

LEMMA OthersMine ==
  ASSUME NEW t \in Thread, Others(t), UNCHANGED <<queue, skb>>
  PROVE  \A u \in Thread \ {t} : \A b : Mine(u, b)' <=> Mine(u, b)
BY DEF Others, Mine, Linked

\* Every message on its way has a number of one that was, or one without a response.
Older == \A m \in InFlight' : \/ \E n \in InFlight : m.seq = n.seq
                              \/ \A b \in used : m.seq = skb[b].seq => skb[b].got = <<>>

\* A step that leaves the memory alone and the buffers with their owners.
LEMMA KeptBlock ==
  ASSUME TypeOK, BlockInv, UNCHANGED memory, Closed => Closed', Older,
         \A t \in Thread, b \in used : /\ Mine(t, b)' <=> Mine(t, b)
                                       /\ Mine(t, b) /\ pc'[t] \in Unsent => pc[t] \in Unsent,
         \A t \in Thread : pc'[t] \in Holding =>
           /\ buf'[t] \in Skb
           /\ IF buf'[t] \in used THEN Mine(t, buf'[t]) ELSE Closed
           /\ pc'[t] # "wait" /\ woke'[t] = "reply" /\ buf'[t] \in used => Got(t)' # <<>>
  PROVE  BlockInv'
<1>1. Linked' = Linked /\ queue' = queue /\ used' = used /\ skb' = skb
  BY DEF memory, Linked
<1>2. OwnedInv' /\ UniqueInv'
  BY <1>1 DEF BlockInv, OwnedInv, UniqueInv
<1>3. HeldInv'
  <2>1. SUFFICES ASSUME NEW t \in Thread, pc'[t] \in Holding
                 PROVE  /\ buf'[t] \in Skb
                        /\ IF buf'[t] \in used' THEN Mine(t, buf[t])' ELSE Closed'
                        /\ pc'[t] # "wait" /\ woke'[t] = "reply" /\ buf'[t] \in used' => Got(t)' # <<>>
    BY DEF HeldInv
  <2>2. ASSUME buf'[t] \in used PROVE Mine(t, buf[t])'
    <3>1. PICK b \in used : b = buf'[t]
      BY <2>2
    <3>2. Mine(t, b) /\ (Mine(t, b)' <=> Mine(t, b))
      BY <2>1, <3>1
    <3>3. Mine(t, b)' <=> Mine(t, buf[t])'
      BY <3>1 DEF Mine
    <3>4. QED
      BY <3>2, <3>3
  <2>3. QED
    BY <1>1, <2>1, <2>2
<1>4. FilledInv'
  <2>1. SUFFICES ASSUME NEW b \in used, skb[b].got # <<>>
                 PROVE  /\ Len(skb[b].got) = 1 /\ skb[b].got[1].id = skb[b].id
                        /\ \A m \in InFlight' : m.seq # skb[b].seq
                        /\ \A t \in Thread : Mine(t, b)' => pc'[t] \notin Unsent
    BY <1>1 DEF FilledInv
  <2>2. QED
    BY <2>1 DEF BlockInv, FilledInv, Older
<1>5. QED
  BY <1>1, <1>2, <1>3, <1>4 DEF BlockInv

\* Thread t, which owns no buffer, does something else.
LEMMA QuietBlock ==
  ASSUME TypeOK, BlockInv, UNCHANGED memory, Closed => Closed', Older,
         NEW t \in Thread, Others(t), \A b \in used : ~Mine(t, b),
         pc'[t] \notin {"send", "find"} \cup Holding
  PROVE  BlockInv'
<1>1. \A u \in Thread \ {t} : \A b : Mine(u, b)' <=> Mine(u, b)
  BY OthersMine DEF memory
<1>2. \A b : ~Mine(t, b)'
  BY DEF Mine, Holding
<1>3. ASSUME NEW u \in Thread, pc'[u] \in Holding
      PROVE  /\ buf'[u] \in Skb
             /\ IF buf'[u] \in used THEN Mine(u, buf'[u]) ELSE Closed
             /\ pc'[u] # "wait" /\ woke'[u] = "reply" /\ buf'[u] \in used => Got(u)' # <<>>
  <2>1. u # t
    BY <1>3
  <2>2. pc'[u] = pc[u] /\ buf'[u] = buf[u] /\ woke'[u] = woke[u]
    BY <2>1 DEF Others
  <2>3. Got(u)' = Got(u)
    BY <2>2 DEF Got, memory
  <2>4. QED
    BY <1>3, <2>2, <2>3 DEF BlockInv, HeldInv
<1>4. \A u \in Thread, b \in used : /\ Mine(u, b)' <=> Mine(u, b)
                                    /\ Mine(u, b) /\ pc'[u] \in Unsent => pc[u] \in Unsent
  BY <1>1, <1>2 DEF Others
<1>5. QED
  BY <1>3, <1>4, KeptBlock

\* Thread t goes on with the buffer it owns, or with the stale pointer it has.
LEMMA MoveBlock ==
  ASSUME TypeOK, BlockInv, UNCHANGED memory, Closed => Closed', Older,
         NEW t \in Thread, Others(t), UNCHANGED <<seq, call>>,
         <<pc[t], pc'[t]>> \in {<<"send", "find">>, <<"find", "wait">>, <<"wait", "unlink">>},
         pc'[t] \in Holding =>
           /\ buf'[t] \in Skb /\ (pc[t] = "wait" => buf'[t] = buf[t])
           /\ IF buf'[t] \in used THEN Mine(t, buf'[t]) ELSE Closed,
         \A b \in used : Mine(t, b) /\ pc'[t] \in Holding => buf'[t] = b,
         pc'[t] # "wait" /\ woke'[t] = "reply" /\ buf'[t] \in used => Got(t)' # <<>> \/ pc'[t] = "find"
  PROVE  BlockInv'
<1>1. \A u \in Thread \ {t} : \A b : Mine(u, b)' <=> Mine(u, b)
  BY OthersMine DEF memory
<1>2. \A b \in used : Mine(t, b) => Mine(t, b)'
  BY DEF Mine, Linked, memory, Holding
<1>3. \A b \in used : Mine(t, b)' => Mine(t, b)
  <2>1. SUFFICES ASSUME NEW b \in used, Mine(t, b)' PROVE Mine(t, b)
    OBVIOUS
  <2>2. /\ seq[t] = skb[b].seq /\ call[t].id = skb[b].id /\ b \in Linked
        /\ pc'[t] \in Holding => buf'[t] = b
    BY <2>1 DEF Mine, Linked, memory
  <2>3. QED
    BY <2>2 DEF Mine, Holding
<1>4. ASSUME NEW u \in Thread, pc'[u] \in Holding
      PROVE  /\ buf'[u] \in Skb
             /\ IF buf'[u] \in used THEN Mine(u, buf'[u]) ELSE Closed
             /\ pc'[u] # "wait" /\ woke'[u] = "reply" /\ buf'[u] \in used => Got(u)' # <<>>
  <2>1. CASE u = t
    BY <1>4, <2>1 DEF Holding
  <2>2. CASE u # t
    <3>1. pc'[u] = pc[u] /\ buf'[u] = buf[u] /\ woke'[u] = woke[u]
      BY <2>2 DEF Others
    <3>2. Got(u)' = Got(u)
      BY <3>1 DEF Got, memory
    <3>3. QED
      BY <1>4, <3>1, <3>2 DEF BlockInv, HeldInv
  <2>3. QED
    BY <2>1, <2>2
<1>5. \A u \in Thread, b \in used : /\ Mine(u, b)' <=> Mine(u, b)
                                    /\ Mine(u, b) /\ pc'[u] \in Unsent => pc[u] \in Unsent
  BY <1>1, <1>2, <1>3 DEF Others, Unsent
<1>6. QED
  BY <1>4, <1>5, KeptBlock

\* No thread moves.
LEMMA StillBlock ==
  ASSUME TypeOK, BlockInv, UNCHANGED <<memory, pc, local, call>>, Closed => Closed', Older
  PROVE  BlockInv'
<1>1. \A t \in Thread : \A b : Mine(t, b)' <=> Mine(t, b)
  BY DEF Mine, Linked, memory, local
<1>2. \A t \in Thread : Got(t)' = Got(t)
  BY DEF Got, memory, local
<1>3. QED
  BY <1>1, <1>2, KeptBlock DEF BlockInv, HeldInv, local

\* Where the messages of a step come from.
LEMMA OlderSame ==
  ASSUME \A m \in InFlight' : \E n \in InFlight : m.seq = n.seq
  PROVE  Older
BY DEF Older

LEMMA OlderStill ==
  ASSUME UNCHANGED <<toDev, toApp, rx>>
  PROVE  Older /\ InFlight' = InFlight
BY DEF Older, InFlight

\* A thread that has no buffer yet, or returns without one.
LEMMA NotMine ==
  ASSUME NEW t \in Thread, pc[t] \notin {"send", "find"} \cup Holding
  PROVE  \A b : ~Mine(t, b)
BY DEF Mine, Holding

\* icap_prepare_wait links a new buffer.
LEMMA AllocBlock ==
  ASSUME TypeOK, CallInv, BlockInv, NEW t \in Thread, pc[t] = "prepare", ~Closed,
         NEW b \in Skb \ used, used' = used \cup {b},
         skb' = [skb EXCEPT ![b] = [seq |-> seq[t], id |-> call[t].id, got |-> <<>>]],
         queue' = Append(queue, b), Goto(t, "send"),
         UNCHANGED <<local, history, instance, rx, channel>>
  PROVE  BlockInv'
<1>1. /\ \A u \in Thread : seq'[u] = seq[u] /\ buf'[u] = buf[u] /\ woke'[u] = woke[u] /\ call'[u] = call[u]
      /\ pc'[t] = "send" /\ \A u \in Thread \ {t} : pc'[u] = pc[u]
      /\ InFlight' = InFlight
  BY GotoOthers DEF Others, local, history, channel, InFlight, Goto, TypeOK
<1>2. /\ skb'[b].seq = seq[t] /\ skb'[b].id = call[t].id /\ skb'[b].got = <<>>
      /\ \A c \in used : c # b /\ skb'[c] = skb[c]
  BY DEF TypeOK
<1>3. b \notin Linked /\ Linked' = Linked \cup {b} /\ Distinct(queue')
  BY Appended DEF TypeOK, BlockInv, Linked
<1>4. \A u \in Thread \ {t}, c \in used : Mine(u, c)' <=> Mine(u, c)
  BY <1>1, <1>2, <1>3 DEF Mine
<1>5. \A c \in used : ~Mine(t, c)
  BY DEF Mine
<1>6. Mine(t, b)'
  BY <1>1, <1>2, <1>3 DEF Mine, Holding
<1>7. \A c \in used : skb[c].seq # seq[t]
  BY <1>5, OwnBuffer DEF Numbered
<1>8. OwnedInv'
  <2>1. SUFFICES ASSUME NEW c \in used' PROVE \E u \in Thread : Mine(u, c)'
    BY DEF OwnedInv
  <2>2. CASE c = b
    BY <1>6, <2>2
  <2>3. CASE c \in used
    BY <1>4, <1>5, <2>3 DEF BlockInv, OwnedInv
  <2>4. QED
    BY <2>2, <2>3
<1>9. UniqueInv'
  BY <1>2, <1>7 DEF BlockInv, UniqueInv
<1>10. HeldInv'
  <2>1. SUFFICES ASSUME NEW u \in Thread, pc'[u] \in Holding
                 PROVE  /\ buf'[u] \in Skb
                        /\ IF buf'[u] \in used' THEN Mine(u, buf[u])' ELSE Closed'
                        /\ pc'[u] # "wait" /\ woke'[u] = "reply" /\ buf'[u] \in used' => Got(u)' # <<>>
    BY DEF HeldInv
  <2>2. u # t /\ pc[u] \in Holding /\ buf'[u] = buf[u] /\ woke'[u] = woke[u] /\ pc'[u] = pc[u]
    BY <1>1, <2>1 DEF Holding
  <2>3. buf[u] \in used /\ Mine(u, buf[u])
    BY <2>2 DEF BlockInv, HeldInv
  <2>4. PICK c \in used : c = buf[u]
    BY <2>3
  <2>5. Mine(u, c)' /\ (Mine(u, buf[u])' <=> Mine(u, c)')
    BY <1>4, <2>2, <2>3, <2>4 DEF Mine
  <2>6. Got(u)' = Got(u)
    BY <1>2, <2>2, <2>4 DEF Got
  <2>7. QED
    BY <2>2, <2>3, <2>4, <2>5, <2>6 DEF BlockInv, HeldInv
<1>11. FilledInv'
  <2>1. SUFFICES ASSUME NEW c \in used', skb'[c].got # <<>>
                 PROVE  /\ Len(skb'[c].got) = 1 /\ skb'[c].got[1].id = skb'[c].id
                        /\ \A m \in InFlight' : m.seq # skb'[c].seq
                        /\ \A u \in Thread : Mine(u, c)' => pc'[u] \notin Unsent
    BY DEF FilledInv
  <2>2. c \in used /\ skb'[c] = skb[c]
    BY <1>2, <2>1
  <2>3. ~Mine(t, c)'
    BY <1>1, <1>2, <1>7, <2>2 DEF Mine
  <2>4. QED
    BY <1>1, <1>4, <2>1, <2>2, <2>3 DEF BlockInv, FilledInv
<1>12. Linked' \subseteq used'
  BY <1>3 DEF BlockInv
<1>13. QED
  BY <1>3, <1>8, <1>9, <1>10, <1>11, <1>12 DEF BlockInv

LEMMA SendBlock ==
  ASSUME TypeOK, CallInv, BlockInv, NEW t \in Thread, Send(t)
  PROVE  BlockInv'
<1>1. /\ pc[t] = "send" /\ Goto(t, "find")
      /\ \A m \in toDev' : m \in toDev \/ m.seq = seq[t]
      /\ UNCHANGED <<instance, memory, local, rx, toApp, call>>
  BY DEF Send, At, history
<1>2. Others(t) /\ pc'[t] = "find"
  BY <1>1, GotoOthers
<1>3. Older
  <2>1. SUFFICES ASSUME NEW m \in InFlight', m \notin InFlight, NEW b \in used, m.seq = skb[b].seq,
                        skb[b].got # <<>>
                 PROVE  FALSE
    BY DEF Older
  <2>2. m.seq = seq[t]
    BY <1>1, <2>1 DEF InFlight
  <2>3. Mine(t, b)
    BY <1>1, <2>1, <2>2, OwnBuffer DEF Numbered
  <2>4. QED
    BY <1>1, <2>1, <2>3 DEF BlockInv, FilledInv, Unsent
<1>4. Closed => Closed'
  BY <1>1 DEF Closed, instance
<1>5. QED
  BY <1>1, <1>2, <1>3, <1>4, MoveBlock DEF local, Holding

LEMMA FindBlock ==
  ASSUME TypeOK, CallInv, BlockInv, NEW t \in Thread, FindBuffer(t)
  PROVE  BlockInv'
<1>1. pc[t] = "find" /\ UNCHANGED <<instance, memory, rx, channel>>
  BY DEF FindBuffer, At
<1>2. Older /\ (Closed => Closed')
  BY <1>1, OlderStill DEF Closed, instance, channel
<1>3. ASSUME NEW b \in Found(seq[t]), buf' = [buf EXCEPT ![t] = b], Goto(t, "wait"),
             UNCHANGED <<seq, woke, history>>
      PROVE  BlockInv'
  <2>1. Others(t) /\ pc'[t] = "wait" /\ buf'[t] = b
    BY <1>3 DEF Others, Goto, TypeOK, history
  <2>2. b \in used /\ b \in Skb /\ skb[b].seq = seq[t]
    BY FoundHas
  <2>3. Mine(t, b)
    BY <1>1, <2>2, OwnBuffer DEF Numbered
  <2>4. \A c \in used : Mine(t, c) => c = b
    BY <2>2 DEF Mine, BlockInv, UniqueInv
  <2>5. UNCHANGED <<seq, call>>
    BY <1>3 DEF history
  <2>6. QED
    BY <1>1, <1>2, <2>1, <2>2, <2>3, <2>4, <2>5, MoveBlock
<1>4. ASSUME \A b \in Linked : ~Has(b, seq[t]), NEW v, Return(t, v) PROVE BlockInv'
  <2>1. \A b \in used : ~Mine(t, b)
    <3>1. \A b \in used : Mine(t, b) => b \in Linked /\ skb[b].seq = seq[t]
      BY <1>1 DEF Mine
    <3>2. QED
      BY <1>4, <3>1 DEF Has
  <2>2. Others(t) /\ pc'[t] = "idle"
    BY <1>4, ReturnOthers
  <2>3. QED
    BY <1>1, <1>2, <2>1, <2>2, QuietBlock DEF Holding
<1>5. QED
  BY <1>3, <1>4 DEF FindBuffer

LEMMA WakeBlock ==
  ASSUME TypeOK, BlockInv, NEW t \in Thread, NEW why \in {"reply", "signal", "timeout"},
         WakeUp(t, why)
  PROVE  BlockInv'
<1>1. /\ pc[t] = "wait" /\ pc' = [pc EXCEPT ![t] = "unlink"] /\ woke' = [woke EXCEPT ![t] = why]
      /\ why = "reply" => Got(t) # <<>> \/ buf[t] \notin used
      /\ UNCHANGED <<instance, memory, seq, buf, rx, channel, call>>
  BY DEF WakeUp, At, Goto, history
<1>2. Others(t) /\ pc'[t] = "unlink" /\ woke'[t] = why /\ buf'[t] = buf[t] /\ Got(t)' = Got(t)
  BY <1>1 DEF Others, TypeOK, Got, memory
<1>3. Older /\ (Closed => Closed')
  BY <1>1, OlderStill DEF Closed, instance, channel
<1>4. buf[t] \in Skb /\ IF buf[t] \in used THEN Mine(t, buf[t]) ELSE Closed
  BY <1>1 DEF BlockInv, HeldInv, Holding
<1>5. \A b \in used : Mine(t, b) => buf[t] = b
  BY <1>1 DEF Mine, Holding
<1>6. QED
  BY <1>1, <1>2, <1>3, <1>4, <1>5, MoveBlock

\* A thread whose buffer is gone goes on with a stale pointer, or crashes.
LEMMA StaleBlock ==
  ASSUME TypeOK, BlockInv, NEW t \in Thread, pc[t] \in Holding, buf[t] \notin used,
         NEW to \in {"finish", "oops"}, Goto(t, to),
         UNCHANGED <<instance, memory, local, rx, channel, history>>
  PROVE  BlockInv'
<1>1. Others(t) /\ pc'[t] = to
  BY GotoOthers DEF history
<1>2. \A b \in used : ~Mine(t, b) /\ ~Mine(t, b)'
  BY <1>1 DEF Mine, memory, local, Holding
<1>3. \A u \in Thread, b \in used : /\ Mine(u, b)' <=> Mine(u, b)
                                    /\ Mine(u, b) /\ pc'[u] \in Unsent => pc[u] \in Unsent
  BY <1>1, <1>2, OthersMine DEF Others, memory
<1>4. Older /\ (Closed => Closed')
  BY OlderStill DEF Closed, instance, channel
<1>5. ASSUME NEW u \in Thread, pc'[u] \in Holding
      PROVE  /\ buf'[u] \in Skb
             /\ IF buf'[u] \in used THEN Mine(u, buf'[u]) ELSE Closed
             /\ pc'[u] # "wait" /\ woke'[u] = "reply" /\ buf'[u] \in used => Got(u)' # <<>>
  <2>1. buf'[u] = buf[u] /\ woke'[u] = woke[u] /\ Got(u)' = Got(u)
    BY DEF local, memory, Got
  <2>2. CASE u = t
    BY <2>1, <2>2 DEF BlockInv, HeldInv
  <2>3. CASE u # t
    BY <1>1, <1>5, <2>1, <2>3 DEF Others, BlockInv, HeldInv
  <2>4. QED
    BY <2>2, <2>3
<1>6. QED
  BY <1>3, <1>4, <1>5, KeptBlock

\* skb_unlink of a buffer that is linked: it is the thread's own.
LEMMA UnlinkBlock ==
  ASSUME TypeOK, CallInv, BlockInv, NEW t \in Thread, pc[t] = "unlink", Goto(t, "finish"),
         NEW i \in DOMAIN queue, queue[i] = buf[t], queue' = S!RemoveAt(queue, i),
         UNCHANGED <<instance, used, skb, local, rx, channel, history>>
  PROVE  BlockInv'
<1>b. PICK b \in used : b = buf[t]
  BY Linking DEF TypeOK, BlockInv
<1>1. b \in Linked /\ b \in Skb /\ Mine(t, b)
  BY <1>b, Linking DEF TypeOK, BlockInv, HeldInv, Holding
<1>2. Linked' = Linked \ {b} /\ Distinct(queue')
  BY <1>b, Removed DEF TypeOK, BlockInv, Linked
<1>3. Others(t) /\ pc'[t] = "finish"
  BY GotoOthers DEF history
<1>4. /\ seq' = seq /\ buf' = buf /\ woke' = woke /\ call' = call /\ skb' = skb /\ used' = used
      /\ InFlight' = InFlight /\ Closed' = Closed
  BY DEF local, history, instance, channel, InFlight, Closed
<1>5. \A c : Mine(t, c) => c = b
  BY <1>b DEF Mine, Holding
<1>6. Mine(t, b)'
  BY <1>b, <1>1, <1>2, <1>3, <1>4 DEF Mine
<1>7. \A u \in Thread : \A c : c = buf[u] => (Mine(u, buf[u])' <=> Mine(u, c)')
  BY <1>4 DEF Mine
<1>8. \A u \in Thread \ {t}, c \in used : Mine(u, c) => c # b /\ Mine(u, c)'
  <2>1. SUFFICES ASSUME NEW u \in Thread \ {t}, NEW c \in used, Mine(u, c)
                 PROVE  c # b /\ Mine(u, c)'
    OBVIOUS
  <2>2. c # b
    BY <1>1, <2>1 DEF Mine, CallInv, NumbersInv, Numbered
  <2>3. QED
    BY <1>2, <1>3, <1>4, <2>1, <2>2 DEF Mine, Others
<1>9. OwnedInv'
  <2>1. SUFFICES ASSUME NEW c \in used PROVE \E u \in Thread : Mine(u, c)'
    BY <1>4 DEF OwnedInv
  <2>2. CASE c = b
    BY <1>6, <2>2
  <2>3. CASE c # b
    BY <1>5, <1>8, <2>3 DEF BlockInv, OwnedInv
  <2>4. QED
    BY <2>2, <2>3
<1>10. UniqueInv'
  BY <1>4 DEF BlockInv, UniqueInv
<1>11. HeldInv'
  <2>1. SUFFICES ASSUME NEW u \in Thread, pc'[u] \in Holding
                 PROVE  /\ buf[u] \in Skb
                        /\ IF buf[u] \in used THEN Mine(u, buf[u])' ELSE Closed
                        /\ pc'[u] # "wait" /\ woke[u] = "reply" /\ buf[u] \in used => Got(u) # <<>>
    BY <1>4 DEF HeldInv, Got
  <2>2. CASE u = t
    BY <1>b, <1>1, <1>6, <1>7, <2>2 DEF BlockInv, HeldInv, Holding
  <2>3. CASE u # t
    <3>1. pc'[u] = pc[u]
      BY <1>3, <2>3 DEF Others
    <3>2. ASSUME NEW c \in used, c = buf[u] PROVE Mine(u, buf[u])'
      BY <1>7, <1>8, <2>1, <2>3, <3>1, <3>2 DEF BlockInv, HeldInv
    <3>3. QED
      BY <2>1, <3>1, <3>2 DEF BlockInv, HeldInv
  <2>4. QED
    BY <2>2, <2>3
<1>12. FilledInv'
  <2>1. SUFFICES ASSUME NEW c \in used, skb[c].got # <<>>
                 PROVE  /\ Len(skb[c].got) = 1 /\ skb[c].got[1].id = skb[c].id
                        /\ \A m \in InFlight : m.seq # skb[c].seq
                        /\ \A u \in Thread : Mine(u, c)' => pc'[u] \notin Unsent
    BY <1>4 DEF FilledInv
  <2>2. ASSUME NEW u \in Thread, Mine(u, c)', pc'[u] \in Unsent PROVE FALSE
    <3>1. pc[u] = "send" /\ u # t /\ c # b
      <4>1. u # t /\ pc'[u] = "send"
        BY <1>3, <2>2 DEF Unsent, Mine
      <4>2. pc[u] = "send"
        BY <1>3, <4>1 DEF Others
      <4>3. ~(c = b)
        BY <1>1, <1>4, <2>2, <4>1, <4>2 DEF Mine, CallInv, NumbersInv, Numbered
      <4>4. QED
        BY <4>1, <4>2, <4>3
    <3>2. Mine(u, c)
      BY <1>2, <1>3, <1>4, <2>2, <3>1 DEF Mine, Others
    <3>3. QED
      BY <2>1, <3>1, <3>2 DEF BlockInv, FilledInv, Unsent
  <2>3. QED
    BY <2>1, <2>2 DEF BlockInv, FilledInv
<1>13. QED
  BY <1>1, <1>2, <1>4, <1>9, <1>10, <1>11, <1>12 DEF BlockInv

\* kfree_skb of the thread's own buffer, or of one that is free already.
LEMMA FreeBlock ==
  ASSUME TypeOK, CallInv, BlockInv, NEW t \in Thread, pc[t] = "finish", FreeBuffer(t),
         NEW v, Return(t, v), UNCHANGED <<instance, rx, channel>>
  PROVE  BlockInv'
<1>1. PICK b \in Skb : b = buf[t]
  BY DEF BlockInv, HeldInv, Holding
<1>2. /\ queue' = queue /\ used' = used \ {b} /\ Linked' = Linked
      /\ \A c \in used' : c \in used /\ c # b /\ skb'[c] = skb[c]
      /\ InFlight' = InFlight /\ Closed' = Closed
  BY <1>1 DEF FreeBuffer, TypeOK, Linked, InFlight, channel, Closed, instance
<1>3. Others(t) /\ pc'[t] = "idle"
  BY ReturnOthers
<1>4. b \in used => Mine(t, b) /\ b \notin Linked
  BY <1>1 DEF BlockInv, HeldInv, Holding, Mine
<1>5. \A c : Mine(t, c) => c = b
  BY <1>1 DEF Mine, Holding
<1>6. \A u \in Thread \ {t}, c \in used' : Mine(u, c)' <=> Mine(u, c)
  BY <1>2, <1>3 DEF Mine, Others
<1>7. \A c : ~Mine(t, c)'
  BY <1>3 DEF Mine
<1>8. Linked' \subseteq used' /\ Distinct(queue')
  BY <1>2, <1>4 DEF BlockInv
<1>9. OwnedInv'
  BY <1>2, <1>5, <1>6 DEF BlockInv, OwnedInv
<1>10. UniqueInv'
  BY <1>2 DEF BlockInv, UniqueInv
<1>11. HeldInv'
  <2>1. SUFFICES ASSUME NEW u \in Thread, pc'[u] \in Holding
                 PROVE  /\ buf'[u] \in Skb
                        /\ IF buf'[u] \in used' THEN Mine(u, buf[u])' ELSE Closed'
                        /\ pc'[u] # "wait" /\ woke'[u] = "reply" /\ buf'[u] \in used' => Got(u)' # <<>>
    BY DEF HeldInv
  <2>2. u # t /\ pc'[u] = pc[u] /\ buf'[u] = buf[u] /\ woke'[u] = woke[u]
    BY <1>3, <2>1 DEF Others, Holding
  <2>3. buf[u] \in used => buf[u] \in used'
    <3>1. ASSUME b \in used, buf[u] = b PROVE FALSE
      BY <1>4, <2>1, <2>2, <3>1 DEF BlockInv, HeldInv, Mine, CallInv, NumbersInv, Numbered, Holding
    <3>2. QED
      BY <1>2, <3>1
  <2>4. ASSUME NEW c \in used', c = buf[u] PROVE Mine(u, buf[u])' /\ Got(u)' = Got(u)
    <3>1. Mine(u, c)
      BY <1>2, <2>1, <2>2, <2>4 DEF BlockInv, HeldInv
    <3>2. Mine(u, c)' /\ (Mine(u, c)' <=> Mine(u, buf[u])')
      BY <1>6, <2>2, <2>4, <3>1 DEF Mine
    <3>3. QED
      BY <1>2, <2>2, <2>4, <3>2 DEF Got
  <2>5. QED
    BY <1>2, <2>1, <2>2, <2>3, <2>4 DEF BlockInv, HeldInv
<1>12. FilledInv'
  <2>1. SUFFICES ASSUME NEW c \in used', skb[c].got # <<>>
                 PROVE  /\ Len(skb[c].got) = 1 /\ skb[c].got[1].id = skb[c].id
                        /\ \A m \in InFlight : m.seq # skb[c].seq
                        /\ \A u \in Thread : Mine(u, c)' => pc'[u] \notin Unsent
    BY <1>2 DEF FilledInv
  <2>2. QED
    BY <1>2, <1>3, <1>6, <1>7, <2>1 DEF BlockInv, FilledInv, Others
<1>13. QED
  BY <1>8, <1>9, <1>10, <1>11, <1>12 DEF BlockInv

\* icap_response_notify fills the buffer of the call that the response answers, and
\* that buffer is empty.
LEMMA FillBlock ==
  ASSUME TypeOK, CallInv, BlockInv, rx # NoMsg, NEW b \in Found(rx.seq), Fill(b), rx' = NoMsg,
         UNCHANGED <<instance, queue, used, pc, local, channel, history>>
  PROVE  BlockInv'
<1>1. b \in Linked /\ b \in used /\ b \in Skb /\ skb[b].seq = rx.seq
  BY FoundHas
<1>2. rx \in Reply /\ rx \in InFlight
  BY DEF TypeOK, InFlight
<1>3. /\ \A c \in Skb \ {b} : skb'[c] = skb[c]
      /\ skb'[b].seq = skb[b].seq /\ skb'[b].id = skb[b].id
      /\ skb'[b].got = Append(skb[b].got, rx)
  BY <1>1, <1>2, FillType
<1>4. skb[b].got = <<>>
  BY <1>1, <1>2 DEF BlockInv, FilledInv
<1>5. Len(skb'[b].got) = 1 /\ skb'[b].got[1] = rx
  BY <1>3, <1>4
<1>6. \A t \in Thread : Mine(t, b) => rx.id = call[t].id /\ pc[t] \notin Unsent
  BY <1>1, <1>2 DEF Mine, CallInv, FlightInv, Numbered
<1>7. rx.id = skb[b].id
  <2>1. PICK t \in Thread : Mine(t, b)
    BY <1>1 DEF BlockInv, OwnedInv
  <2>2. QED
    BY <1>6, <2>1 DEF Mine
<1>8. InFlight' \subseteq InFlight /\ \A m \in InFlight' : m.seq # rx.seq
  BY DEF InFlight, channel, CallInv, OneMessage
<1>9. /\ pc' = pc /\ seq' = seq /\ buf' = buf /\ woke' = woke /\ call' = call
      /\ used' = used /\ queue' = queue /\ Linked' = Linked /\ Closed' = Closed
  BY DEF local, history, Linked, Closed, instance
<1>10. \A t \in Thread, c \in Skb : Mine(t, c)' <=> Mine(t, c)
  BY <1>3, <1>9 DEF Mine
<1>11. \A c \in used : c \in Skb
  BY DEF TypeOK
<1>12. OwnedInv'
  BY <1>9, <1>10, <1>11 DEF BlockInv, OwnedInv
<1>13. UniqueInv'
  <2>1. \A c \in used : skb'[c].seq = skb[c].seq
    BY <1>3, <1>11
  <2>2. QED
    BY <1>9, <2>1 DEF BlockInv, UniqueInv
<1>14. HeldInv'
  <2>1. SUFFICES ASSUME NEW t \in Thread, pc[t] \in Holding
                 PROVE  /\ buf[t] \in Skb
                        /\ IF buf[t] \in used THEN Mine(t, buf[t])' ELSE Closed
                        /\ pc[t] # "wait" /\ woke[t] = "reply" /\ buf[t] \in used => Got(t)' # <<>>
    BY <1>9 DEF HeldInv
  <2>2. ASSUME NEW c \in used, c = buf[t] PROVE Mine(t, buf[t])'
    <3>1. Mine(t, c)
      BY <2>1, <2>2 DEF BlockInv, HeldInv
    <3>2. Mine(t, c)' /\ (Mine(t, c)' <=> Mine(t, buf[t])')
      BY <1>9, <1>10, <1>11, <2>2, <3>1 DEF Mine
    <3>3. QED
      BY <3>2
  <2>3. Got(t) # <<>> /\ buf[t] \in Skb => Got(t)' # <<>>
    BY <1>3, <1>4, <1>9 DEF Got
  <2>4. QED
    BY <2>1, <2>2, <2>3 DEF BlockInv, HeldInv
<1>15. FilledInv'
  <2>1. SUFFICES ASSUME NEW c \in used, skb'[c].got # <<>>
                 PROVE  /\ Len(skb'[c].got) = 1 /\ skb'[c].got[1].id = skb'[c].id
                        /\ \A m \in InFlight' : m.seq # skb'[c].seq
                        /\ \A t \in Thread : Mine(t, c) => pc[t] \notin Unsent
    BY <1>9, <1>10, <1>11 DEF FilledInv
  <2>2. CASE c = b
    BY <1>1, <1>3, <1>5, <1>6, <1>7, <1>8, <2>2
  <2>3. CASE c # b
    BY <1>3, <1>8, <1>11, <2>1, <2>3 DEF BlockInv, FilledInv
  <2>4. QED
    BY <2>2, <2>3
<1>16. QED
  BY <1>9, <1>12, <1>13, <1>14, <1>15 DEF BlockInv

\* icap_deinit_transport frees what is linked, and leaves the rest to its owners.
LEMMA FlushBlock ==
  ASSUME TypeOK, BlockInv, DeinitFlush
  PROVE  BlockInv'
<1>1. /\ queue' = <<>> /\ used' = used \ Linked /\ teardown' = "clear"
      /\ skb' = [b \in Skb |-> IF b \in Linked THEN Blank ELSE skb[b]]
      /\ UNCHANGED <<pc, local, rx, channel, call>>
  BY DEF DeinitFlush, FreeLinked, history
<1>2. Linked' = {} /\ Distinct(queue') /\ InFlight' = InFlight /\ Closed'
  BY <1>1 DEF Linked, S!ToSet, Distinct, InFlight, channel, Closed
<1>3. \A b \in used' : b \in used /\ b \notin Linked /\ skb'[b] = skb[b]
  BY <1>1 DEF TypeOK
<1>4. \A t \in Thread, b \in used' : Mine(t, b)' <=> Mine(t, b)
  BY <1>1, <1>2, <1>3 DEF Mine, local
<1>5. OwnedInv' /\ UniqueInv'
  BY <1>3, <1>4 DEF BlockInv, OwnedInv, UniqueInv
<1>6. HeldInv'
  <2>1. SUFFICES ASSUME NEW t \in Thread, pc[t] \in Holding
                 PROVE  /\ buf[t] \in Skb
                        /\ buf[t] \in used' => Mine(t, buf[t])'
                        /\ pc[t] # "wait" /\ woke[t] = "reply" /\ buf[t] \in used' => Got(t)' # <<>>
    BY <1>1, <1>2 DEF HeldInv, local
  <2>2. ASSUME NEW b \in used', b = buf[t] PROVE Mine(t, buf[t])' /\ Got(t)' = Got(t)
    <3>1. Mine(t, b)
      BY <1>3, <2>1, <2>2 DEF BlockInv, HeldInv
    <3>2. Mine(t, b)' /\ (Mine(t, b)' <=> Mine(t, buf[t])')
      BY <1>1, <1>4, <2>2, <3>1 DEF Mine, local
    <3>3. QED
      BY <1>1, <1>3, <2>2, <3>2 DEF Got, local
  <2>3. QED
    BY <1>3, <2>1, <2>2 DEF BlockInv, HeldInv
<1>7. FilledInv'
  <2>1. SUFFICES ASSUME NEW b \in used', skb[b].got # <<>>
                 PROVE  /\ Len(skb[b].got) = 1 /\ skb[b].got[1].id = skb[b].id
                        /\ \A m \in InFlight : m.seq # skb[b].seq
                        /\ \A t \in Thread : Mine(t, b) => pc[t] \notin Unsent
    BY <1>1, <1>2, <1>3, <1>4 DEF FilledInv
  <2>2. QED
    BY <1>3, <2>1 DEF BlockInv, FilledInv
<1>8. QED
  BY <1>2, <1>5, <1>6, <1>7 DEF BlockInv

LEMMA InitAgainBlock ==
  ASSUME TypeOK, BlockInv, AppInit
  PROVE  BlockInv'
<1>1. /\ \A t \in Thread : pc[t] = "idle"
      /\ queue' = <<>> /\ used' = used /\ pc' = pc
  BY DEF AppInit, At
<1>2. used = {}
  BY <1>1 DEF BlockInv, OwnedInv, Mine
<1>3. Linked' = {} /\ Distinct(queue')
  BY <1>1 DEF Linked, S!ToSet, Distinct
<1>4. QED
  BY <1>1, <1>2, <1>3 DEF BlockInv, OwnedInv, UniqueInv, HeldInv, FilledInv, Holding

LEMMA NextBlockInv ==
  ASSUME TypeOK, CallInv, BlockInv, [Next]_vars
  PROVE  BlockInv'
<1>1. ASSUME NEW t \in Thread, UNCHANGED <<toDev, toApp, rx, memory, rpdev, teardown>>,
             Others(t), \A b \in used : ~Mine(t, b), pc'[t] \notin {"send", "find"} \cup Holding
      PROVE  BlockInv'
  <2>1. Older /\ (Closed => Closed')
    BY <1>1, OlderStill DEF Closed
  <2>2. QED
    BY <1>1, <2>1, QuietBlock
<1> USE DEF channel, instance
<1>2. ASSUME NEW t \in Thread, NEW c \in Cmd, Call(t, c) PROVE BlockInv'
  <2>1. /\ pc[t] = "idle" /\ Goto(t, "number") /\ call' = [call EXCEPT ![t] = call'[t]]
        /\ UNCHANGED <<toDev, toApp, rx, memory, rpdev, teardown, local>>
    BY <1>2 DEF Call, At, TypeOK
  <2>2. Others(t) /\ pc'[t] = "number"
    BY <2>1 DEF Goto, TypeOK, Others, local
  <2>3. QED
    BY <1>1, <2>1, <2>2, NotMine DEF Holding
<1>3. ASSUME NEW t \in Thread, TakeNumber(t) PROVE BlockInv'
  <2>1. /\ pc[t] = "number" /\ Goto(t, "numbered")
        /\ UNCHANGED <<toDev, toApp, rx, memory, rpdev, teardown, local, call>>
    BY <1>3 DEF TakeNumber, At, history
  <2>2. QED
    BY <1>1, <2>1, GotoOthers, NotMine DEF Holding
<1>4. ASSUME NEW t \in Thread, ReadNumber(t) PROVE BlockInv'
  <2>1. /\ pc[t] = "numbered" /\ Goto(t, "prepare") /\ seq' = [seq EXCEPT ![t] = seqNum]
        /\ UNCHANGED <<toDev, toApp, rx, memory, rpdev, teardown, buf, woke, call>>
    BY <1>4 DEF ReadNumber, At, history
  <2>2. Others(t) /\ pc'[t] = "prepare"
    BY <2>1 DEF Goto, TypeOK, Others
  <2>3. QED
    BY <1>1, <2>1, <2>2, NotMine DEF Holding
<1>5. ASSUME NEW t \in Thread, PrepareWait(t) PROVE BlockInv'
  <2>1. pc[t] = "prepare" /\ UNCHANGED <<instance, rx, channel>>
    BY <1>5 DEF PrepareWait, At
  <2>2. ASSUME NEW v, Return(t, v), UNCHANGED memory PROVE BlockInv'
    BY <1>1, <2>1, <2>2, ReturnOthers, NotMine DEF Holding
  <2>3. ASSUME rpdev, NEW b \in Skb \ used, used' = used \cup {b},
               skb' = [skb EXCEPT ![b] = [seq |-> seq[t], id |-> call[t].id, got |-> <<>>]],
               queue' = Append(queue, b), Goto(t, "send"), UNCHANGED <<local, history>>
        PROVE  BlockInv'
    <3>1. ~Closed
      BY <1>5, <2>3 DEF PrepareWait, Closed
    <3>2. QED
      BY <2>1, <2>3, <3>1, AllocBlock
  <2>4. QED
    BY <1>5, <2>2, <2>3 DEF PrepareWait
<1>6. ASSUME NEW t \in Thread, Send(t) PROVE BlockInv'
  BY <1>6, SendBlock
<1>7. ASSUME NEW t \in Thread, FindBuffer(t) PROVE BlockInv'
  BY <1>7, FindBlock
<1>8. ASSUME NEW t \in Thread, NEW why \in {"reply", "signal", "timeout"}, WakeUp(t, why)
      PROVE  BlockInv'
  BY <1>8, WakeBlock
<1>9. ASSUME NEW t \in Thread, Unlink(t) PROVE BlockInv'
  <2>1. pc[t] = "unlink" /\ Goto(t, "finish")
        /\ UNCHANGED <<instance, used, skb, local, rx, channel, history>>
    BY <1>9 DEF Unlink, At
  <2>2. ASSUME buf[t] \notin used, UNCHANGED queue PROVE BlockInv'
    BY <2>1, <2>2, StaleBlock DEF memory, Holding
  <2>3. QED
    BY <1>9, <2>1, <2>2, UnlinkBlock DEF Unlink
<1>10. ASSUME NEW t \in Thread, Finish(t) PROVE BlockInv'
  <2>1. pc[t] = "finish" /\ FreeBuffer(t) /\ (\E v : Return(t, v)) /\ UNCHANGED <<instance, rx, channel>>
    BY <1>10 DEF Finish, At
  <2>2. QED
    BY <2>1, FreeBlock
<1>11. ASSUME NEW t \in Thread, Oops(t) PROVE BlockInv'
  <2>1. Goto(t, "oops") /\ UNCHANGED <<instance, memory, local, rx, channel, history>>
    BY <1>11 DEF Oops
  <2>2. pc[t] \in Holding /\ buf[t] \notin used
    <3>1. ~(pc[t] = "unlink" /\ buf[t] \notin Linked /\ buf[t] \in used)
      BY DEF BlockInv, HeldInv, Holding, Mine
    <3>2. QED
      BY <1>11, <3>1 DEF Oops, At, BlockInv, Holding
  <2>3. QED
    BY <2>1, <2>2, StaleBlock
<1>12. ASSUME UNCHANGED <<memory, pc, local, call>>, Closed => Closed', Older PROVE BlockInv'
  BY <1>12, StillBlock
<1>13. ASSUME NEW m \in toApp, Receive(m) PROVE BlockInv'
  <2>1. /\ toApp' = toApp \ {m} /\ rx' \in {m, NoMsg}
        /\ UNCHANGED <<toDev, memory, pc, local, call, teardown, rpdev>>
    BY <1>13 DEF Receive, history
  <2>2. Older
    BY <2>1, OlderSame DEF InFlight
  <2>3. QED
    BY <1>12, <2>1, <2>2 DEF Closed
<1>14. ASSUME Notify PROVE BlockInv'
  <2>1. rx # NoMsg /\ rx' = NoMsg
        /\ UNCHANGED <<instance, queue, used, pc, local, channel, history>>
    BY <1>14 DEF Notify
  <2>2. ASSUME UNCHANGED skb PROVE BlockInv'
    <3>1. Older
      BY <2>1, OlderSame DEF InFlight
    <3>2. QED
      BY <1>12, <2>1, <2>2, <3>1 DEF Closed, memory, history
  <2>3. QED
    BY <1>14, <2>1, <2>2, FillBlock DEF Notify
<1>15. ASSUME NEW m \in toDev, NEW ret, DeviceParse(m, ret) PROVE BlockInv'
  <2>1. /\ toDev' \subseteq toDev /\ rx' = rx /\ m \in InFlight
        /\ \A n \in toApp' : n \in toApp \/ n.seq = m.seq
        /\ UNCHANGED <<memory, pc, local, call, teardown, rpdev>>
    BY <1>15 DEF DeviceParse, InFlight
  <2>2. Older
    BY <2>1, OlderSame DEF InFlight
  <2>3. QED
    BY <1>12, <2>1, <2>2 DEF Closed
<1>16. ASSUME NEW m \in toDev, Lose(m) PROVE BlockInv'
  <2>1. toDev' \subseteq toDev /\ UNCHANGED <<toApp, rx, memory, pc, local, call, teardown, rpdev>>
    BY <1>16 DEF Lose, history
  <2>2. Older
    BY <2>1, OlderSame DEF InFlight
  <2>3. QED
    BY <1>12, <2>1, <2>2 DEF Closed
<1>17. ASSUME Deinit \/ DeinitClear \/ UNCHANGED vars PROVE BlockInv'
  <2>1. UNCHANGED <<toDev, toApp, rx, memory, pc, local, call>> /\ (Closed => Closed')
    BY <1>17 DEF Deinit, DeinitClear, vars, Closed, history
  <2>2. QED
    BY <1>12, <2>1, OlderStill
<1>18. CASE DeinitFlush
  BY <1>18, FlushBlock
<1>19. CASE AppInit
  BY <1>19, InitAgainBlock
<1>20. QED
  BY <1>2, <1>3, <1>4, <1>5, <1>6, <1>7, <1>8, <1>9, <1>10, <1>11, <1>13, <1>14, <1>15, <1>16,
     <1>17, <1>18, <1>19 DEF Next, Step, Exhausted

-----------------------------------------------------------------------------
(* Both, for as long as numbers are free. *)

CoreInv == TypeOK /\ CallInv /\ BlockInv

LEMMA CoreInvariant == Spec /\ []NumberFree => []CoreInv
<1>1. CoreInv /\ NumberFree /\ [Next]_vars => CoreInv'
  BY NextTypeOK, NextCallInv, NextBlockInv DEF CoreInv
<1>2. Init => CoreInv
  BY InitTypeOK, InitCallInv, InitBlockInv DEF CoreInv
<1>3. QED
  BY <1>1, <1>2, PTL DEF Spec
-----------------------------------------------------------------------------
(* Which numbers have been given out. *)

\* platform_lock is held by the thread that is copying seq_num.
LockInv == \A t \in Thread : pc[t] = "numbered" <=> platformLock = t

Waiters == {t \in Thread : pc[t] = "number"}

\* The numbers of this session are 1..seqNum, the last one not yet in use while it is
\* being copied ...
Counting == /\ seqNum + Cardinality(Waiters) <= calls
            /\ platformLock # Free => seqNum # 0
            /\ \A n \in UsedNumbers : n \in 1..seqNum /\ (platformLock # Free => n < seqNum)

\* ... until the last of 2^32 calls gets 0.
Wrapped == /\ seqNum = 0 /\ calls = MaxCalls /\ Waiters = {}
           /\ platformLock # Free => 0 \notin UsedNumbers

CountInv == LockInv /\ (Counting \/ Wrapped)

\* The number of threads about to take a number, when one joins or leaves them.
LEMMA Waiting ==
  ASSUME TypeOK, NEW t \in Thread, NEW to, Goto(t, to)
  PROVE  /\ Cardinality(Waiters) \in Nat /\ Cardinality(Waiters') \in Nat
         /\ pc[t] # "number" /\ to = "number"
              => Cardinality(Waiters') = Cardinality(Waiters) + 1
         /\ pc[t] = "number" /\ to # "number"
              => Cardinality(Waiters') = Cardinality(Waiters) - 1
         /\ pc[t] # "number" /\ to # "number" => Waiters' = Waiters
<1>1. IsFiniteSet(Waiters) /\ IsFiniteSet(Waiters')
  BY KernelAssumption, FS_Subset DEF Waiters
<1>2. Cardinality(Waiters) \in Nat /\ Cardinality(Waiters') \in Nat
  BY <1>1, FS_CardinalityType
<1>3. ASSUME pc[t] # "number", to = "number"
      PROVE  Cardinality(Waiters') = Cardinality(Waiters) + 1
  <2>1. Waiters' = Waiters \cup {t} /\ t \notin Waiters
    BY <1>3 DEF Goto, TypeOK, Waiters
  <2>2. QED
    BY <1>1, <2>1, FS_AddElement
<1>4. ASSUME pc[t] = "number", to # "number"
      PROVE  Cardinality(Waiters') = Cardinality(Waiters) - 1
  <2>1. Waiters' = Waiters \ {t} /\ t \in Waiters
    BY <1>4 DEF Goto, TypeOK, Waiters
  <2>2. QED
    BY <1>1, <2>1, FS_RemoveElement
<1>5. ASSUME pc[t] # "number", to # "number"
      PROVE  Waiters' = Waiters
  BY <1>5 DEF Goto, TypeOK, Waiters
<1>6. QED
  BY <1>2, <1>3, <1>4, <1>5

LEMMA SmallMod ==
  ASSUME NEW m \in Nat \ {0}, NEW n \in Nat
  PROVE  /\ n < m => n % m = n
         /\ n = m => n % m = 0
OBVIOUS

LEMMA InitCount == Init => CountInv
<1> SUFFICES ASSUME Init PROVE CountInv
  OBVIOUS
<1>1. Waiters = {} /\ UsedNumbers = {}
  BY DEF Init, Waiters, UsedNumbers, InFlight, Numbered
<1>2. Cardinality(Waiters) = 0
  BY <1>1, FS_EmptySet
<1>3. Counting
  BY <1>1, <1>2 DEF Init, Counting
<1>4. QED
  BY <1>3, KernelAssumption DEF Init, CountInv, LockInv

\* Numbers come into use when they are copied from seq_num, and only then.
LEMMA UsedFewer ==
  ASSUME \A t \in Thread : pc'[t] \in Numbered => pc[t] \in Numbered /\ seq'[t] = seq[t],
         \A m \in InFlight' : m.seq \in UsedNumbers
  PROVE  UsedNumbers' \subseteq UsedNumbers
BY DEF UsedNumbers

LEMMA FewerCount ==
  ASSUME CountInv, UNCHANGED <<seqNum, calls, platformLock>>,
         UsedNumbers' \subseteq UsedNumbers, Waiters' = Waiters, LockInv'
  PROVE  CountInv'
BY DEF CountInv, Counting, Wrapped

\* A thread moves on that is neither waiting for a number nor copying it.
LEMMA MoveCount ==
  ASSUME TypeOK, CountInv, UNCHANGED <<seqNum, calls, platformLock>>, NEW t \in Thread, NEW to,
         Goto(t, to), pc[t] \in Busy \ {"number", "numbered"}, to \in (Busy \cup {"idle"}) \ {"number", "numbered"},
         UsedNumbers' \subseteq UsedNumbers
  PROVE  CountInv'
<1>1. LockInv' /\ Waiters' = Waiters
  BY DEF Goto, TypeOK, CountInv, LockInv, Waiters
<1>2. QED
  BY <1>1, FewerCount

LEMMA TakeCount ==
  ASSUME MaxCalls <= SeqMod, TypeOK, CountInv, NEW t \in Thread, TakeNumber(t)
  PROVE  CountInv'
<1>1. /\ pc[t] = "number" /\ Goto(t, "numbered") /\ platformLock = Free /\ platformLock' = t
      /\ t # Free /\ seqNum' = (seqNum + 1) % SeqMod /\ calls' = calls
      /\ UNCHANGED <<seq, rx, toDev, toApp>>
  BY KernelAssumption DEF TakeNumber, At, channel, history, local
<1>2. LockInv'
  <2>1. pc'[t] = "numbered" /\ \A u \in Thread \ {t} : pc'[u] = pc[u]
    BY <1>1 DEF Goto, TypeOK
  <2>2. \A u \in Thread : pc[u] # "numbered"
    BY <1>1, KernelAssumption DEF CountInv, LockInv
  <2>3. QED
    BY <1>1, <2>1, <2>2 DEF LockInv
<1>3. UsedNumbers' \subseteq UsedNumbers
  BY <1>1 DEF UsedNumbers, InFlight, Goto, TypeOK, Numbered
<1>4. t \in Waiters
  BY <1>1 DEF Waiters
<1>5. Counting
  BY <1>4 DEF CountInv, Wrapped
<1>6. /\ Cardinality(Waiters') = Cardinality(Waiters) - 1
      /\ Cardinality(Waiters) \in Nat /\ Cardinality(Waiters') \in Nat
  BY <1>1, Waiting
<1>7. /\ seqNum \in Nat /\ calls \in Nat /\ calls <= MaxCalls /\ MaxCalls \in Nat
      /\ SeqMod \in Nat \ {0}
  BY KernelAssumption DEF TypeOK
<1> DEFINE s == seqNum + 1
<1>8. s \in Nat /\ s <= SeqMod /\ s + Cardinality(Waiters') <= calls
  BY <1>5, <1>6, <1>7 DEF Counting
<1>9. CASE s < SeqMod
  <2>1. seqNum' = seqNum + 1
    BY <1>1, <1>7, <1>8, <1>9, SmallMod
  <2>2. \A n \in UsedNumbers' : n \in 1..seqNum' /\ n < seqNum'
    BY <1>3, <1>5, <1>7, <2>1 DEF Counting
  <2>3. Counting'
    BY <1>1, <1>7, <1>8, <2>1, <2>2 DEF Counting
  <2>4. QED
    BY <1>2, <2>3 DEF CountInv
<1>10. CASE s = SeqMod
  <2>1. seqNum' = 0
    BY <1>1, <1>7, <1>8, <1>10, SmallMod
  <2>2. calls' = MaxCalls /\ Cardinality(Waiters') = 0
    BY <1>1, <1>6, <1>7, <1>8, <1>10
  <2>3. IsFiniteSet(Waiters')
    BY KernelAssumption, FS_Subset DEF Waiters
  <2>4. Waiters' = {}
    BY <2>2, <2>3, FS_EmptySet
  <2>5. 0 \notin UsedNumbers'
    BY <1>3, <1>5 DEF Counting
  <2>6. Wrapped'
    BY <2>1, <2>2, <2>4, <2>5 DEF Wrapped
  <2>7. QED
    BY <1>2, <2>6 DEF CountInv
<1>11. QED
  BY <1>7, <1>8, <1>9, <1>10

LEMMA ReadCount ==
  ASSUME TypeOK, CountInv, NEW t \in Thread, ReadNumber(t)
  PROVE  CountInv'
<1>1. /\ pc[t] = "numbered" /\ Goto(t, "prepare") /\ platformLock' = Free
      /\ seq' = [seq EXCEPT ![t] = seqNum]
      /\ UNCHANGED <<seqNum, calls, rx, toDev, toApp>>
  BY DEF ReadNumber, At, channel, history
<1>2. platformLock = t /\ t # Free /\ seqNum \in Nat
  BY <1>1, KernelAssumption DEF CountInv, LockInv, TypeOK
<1>3. LockInv'
  <2>1. pc'[t] = "prepare" /\ \A u \in Thread \ {t} : pc'[u] = pc[u]
    BY <1>1 DEF Goto, TypeOK
  <2>2. \A u \in Thread \ {t} : pc[u] # "numbered"
    BY <1>2 DEF CountInv, LockInv
  <2>3. \A u \in Thread : platformLock' # u
    BY <1>1, KernelAssumption
  <2>4. QED
    BY <2>1, <2>2, <2>3 DEF LockInv
<1>4. UsedNumbers' \subseteq UsedNumbers \cup {seqNum}
  BY <1>1 DEF UsedNumbers, InFlight, Goto, TypeOK, Numbered
<1>5. Waiters' = Waiters
  BY <1>1, Waiting
<1>6. ASSUME Counting PROVE Counting'
  <2>1. seqNum \in 1..seqNum
    BY <1>2, <1>6 DEF Counting
  <2>2. QED
    BY <1>1, <1>4, <1>5, <1>6, <2>1 DEF Counting
<1>7. ASSUME Wrapped PROVE Wrapped'
  BY <1>1, <1>5, <1>7 DEF Wrapped
<1>8. QED
  BY <1>3, <1>6, <1>7 DEF CountInv

LEMMA NextCount ==
  ASSUME FreshChannel, MaxCalls <= SeqMod, TypeOK, CountInv, [Next]_vars
  PROVE  CountInv'
<1>1. ASSUME NEW t \in Thread, NEW c \in Cmd, Call(t, c) PROVE CountInv'
  <2>1. /\ pc[t] = "idle" /\ Goto(t, "number") /\ calls < MaxCalls /\ calls' = calls + 1
        /\ UNCHANGED <<seqNum, platformLock, seq, rx, toDev, toApp>>
    BY <1>1 DEF Call, At, channel, local
  <2>2. UsedNumbers' \subseteq UsedNumbers
    BY <2>1 DEF UsedNumbers, InFlight, Goto, TypeOK, Numbered
  <2>3. LockInv'
    BY <2>1 DEF Goto, TypeOK, CountInv, LockInv
  <2>4. Cardinality(Waiters) \in Nat /\ Cardinality(Waiters') = Cardinality(Waiters) + 1
    BY <2>1, Waiting
  <2>5. seqNum \in Nat /\ calls \in Nat /\ MaxCalls \in Nat /\ Counting
    BY <2>1, KernelAssumption DEF TypeOK, CountInv, Wrapped
  <2>6. Counting'
    BY <2>1, <2>2, <2>4, <2>5 DEF Counting
  <2>7. QED
    BY <2>3, <2>6 DEF CountInv
<1>2. ASSUME NEW t \in Thread, TakeNumber(t) PROVE CountInv'
  BY <1>2, TakeCount
<1>3. ASSUME NEW t \in Thread, ReadNumber(t) PROVE CountInv'
  BY <1>3, ReadCount
<1>4. ASSUME NEW t \in Thread, NEW v, Return(t, v), pc[t] \in Busy \ {"number", "numbered"},
             UNCHANGED <<seqNum, platformLock, rx, toDev, toApp>>
      PROVE  CountInv'
  <2>1. UsedNumbers' \subseteq UsedNumbers
    BY <1>4 DEF Return, UsedNumbers, InFlight, Goto, TypeOK, Numbered
  <2>2. QED
    BY <1>4, <2>1, MoveCount DEF Return
<1>5. ASSUME NEW t \in Thread, NEW to, Goto(t, to),
             <<pc[t], to>> \in {<<"prepare", "send">>, <<"find", "wait">>, <<"wait", "unlink">>,
                               <<"unlink", "finish">>, <<"find", "oops">>, <<"wait", "oops">>,
                               <<"unlink", "oops">>, <<"finish", "oops">>},
             UNCHANGED <<seqNum, calls, platformLock, seq, rx, toDev, toApp>>
      PROVE  CountInv'
  <2>1. UsedNumbers' \subseteq UsedNumbers
    BY <1>5 DEF UsedNumbers, InFlight, Goto, TypeOK, Numbered
  <2>2. QED
    BY <1>5, <2>1, MoveCount DEF Busy
<1>6. ASSUME NEW t \in Thread, PrepareWait(t) PROVE CountInv'
  BY <1>4, <1>5, <1>6 DEF PrepareWait, At, Busy, channel, history, local
<1>7. ASSUME NEW t \in Thread, Send(t) PROVE CountInv'
  <2>1. /\ pc[t] = "send" /\ Goto(t, "find")
        /\ \A m \in toDev' : m \in toDev \/ m.seq = seq[t]
        /\ UNCHANGED <<seqNum, calls, platformLock, seq, rx, toApp>>
    BY <1>7 DEF Send, At, history, local
  <2>2. UsedNumbers' \subseteq UsedNumbers
    BY <2>1 DEF UsedNumbers, InFlight, Goto, TypeOK, Numbered
  <2>3. QED
    BY <2>1, <2>2, MoveCount DEF Busy
<1>8. ASSUME NEW t \in Thread, FindBuffer(t) PROVE CountInv'
  BY <1>4, <1>5, <1>8 DEF FindBuffer, At, Busy, channel, history, local
<1>9. ASSUME NEW t \in Thread, NEW why \in {"reply", "signal", "timeout"}, WakeUp(t, why)
      PROVE  CountInv'
  BY <1>5, <1>9 DEF WakeUp, At, channel, history, local
<1>10. ASSUME NEW t \in Thread, Unlink(t) PROVE CountInv'
  BY <1>5, <1>10 DEF Unlink, At, channel, history, local
<1>11. ASSUME NEW t \in Thread, Finish(t) PROVE CountInv'
  <2>1. /\ pc[t] = "finish" /\ \E v : Return(t, v)
        /\ UNCHANGED <<seqNum, platformLock, rx, toDev, toApp>>
    BY <1>11 DEF Finish, At, channel
  <2>2. QED
    BY <1>4, <2>1 DEF Busy
<1>12. ASSUME UNCHANGED <<seqNum, calls, platformLock, pc, seq>>,
              \A m \in InFlight' : \E n \in InFlight : m.seq = n.seq
       PROVE  CountInv'
  <2>1. UsedNumbers' \subseteq UsedNumbers
    BY <1>12 DEF UsedNumbers
  <2>2. LockInv' /\ Waiters' = Waiters
    BY <1>12 DEF CountInv, LockInv, Waiters
  <2>3. QED
    BY <1>12, <2>1, <2>2, FewerCount
<1>13. ASSUME NEW m \in toApp, Receive(m) PROVE CountInv'
  BY <1>12, <1>13 DEF Receive, InFlight, history, local
<1>14. ASSUME Notify PROVE CountInv'
  BY <1>12, <1>14 DEF Notify, InFlight, channel, history, local
<1>15. ASSUME NEW m \in toDev, NEW ret, DeviceParse(m, ret) PROVE CountInv'
  <2>1. /\ toDev' \subseteq toDev /\ rx' = rx
        /\ \A n \in toApp' : n \in toApp \/ n.seq = m.seq
        /\ UNCHANGED <<seqNum, calls, platformLock, pc, seq>>
    BY <1>15 DEF DeviceParse, local
  <2>2. QED
    BY <1>12, <2>1 DEF InFlight
<1>16. ASSUME NEW m \in toDev, Lose(m) PROVE CountInv'
  BY <1>12, <1>16 DEF Lose, InFlight, history, local
<1>17. ASSUME Deinit \/ DeinitFlush \/ DeinitClear \/ UNCHANGED vars PROVE CountInv'
  <2>1. UNCHANGED <<seqNum, calls, platformLock, pc, seq, toDev, toApp, rx>>
    BY <1>17 DEF Deinit, DeinitFlush, DeinitClear, vars, channel, history, local
  <2>2. QED
    BY <1>12, <2>1 DEF InFlight
<1>18. ASSUME AppInit PROVE CountInv'
  <2>1. /\ \A t \in Thread : pc'[t] = "idle"
        /\ toDev' = {} /\ toApp' = {} /\ rx' = NoMsg /\ seqNum' = 0 /\ platformLock' = Free
        /\ calls' = calls /\ calls \in Nat
    BY <1>18, KernelAssumption DEF AppInit, At, history, TypeOK
  <2>2. Waiters' = {} /\ UsedNumbers' = {}
    BY <2>1 DEF Waiters, UsedNumbers, InFlight, Numbered
  <2>3. Cardinality(Waiters') = 0
    BY <2>2, FS_EmptySet
  <2>4. Counting' /\ LockInv'
    BY <2>1, <2>2, <2>3, KernelAssumption DEF Counting, LockInv
  <2>5. QED
    BY <2>4 DEF CountInv
<1>19. ASSUME NEW t \in Thread, Oops(t) PROVE CountInv'
  <2>1. /\ pc[t] \in {"find", "wait", "unlink", "finish"} /\ Goto(t, "oops")
        /\ UNCHANGED <<seqNum, calls, platformLock, seq, rx, toDev, toApp>>
    BY <1>19 DEF Oops, At, channel, history, local
  <2>2. QED
    BY <1>5, <2>1
<1>20. QED
  BY <1>1, <1>2, <1>3, <1>6, <1>7, <1>8, <1>9, <1>10, <1>11, <1>13, <1>14, <1>15, <1>16, <1>17,
     <1>18, <1>19 DEF Next, Step, Exhausted

LEMMA CountedFree == TypeOK /\ CountInv => NumberFree
<1> SUFFICES ASSUME TypeOK, CountInv, NEW t \in Thread, pc[t] = "numbered", seqNum \in UsedNumbers
             PROVE  FALSE
  BY DEF NumberFree, At
<1>1. platformLock # Free /\ seqNum \in Nat
  BY KernelAssumption DEF CountInv, LockInv, TypeOK
<1>2. QED
  BY <1>1 DEF CountInv, Counting, Wrapped

\* In each session every number is new, up to and including the 2^32nd call, when
\* icap_application_init gets a channel with nothing in flight.
THEOREM NumbersAreFree ==
  ASSUME FreshChannel, MaxCalls <= SeqMod
  PROVE  Spec => []NumberFree
BY InitCount, NextCount, CountedFree, NextTypeOK, InitTypeOK, PTL DEF Spec

-----------------------------------------------------------------------------
(* Responses and buffers, with the numbers that tell them apart. *)

LEMMA OwnOnce == CoreInv => OwnReply /\ FilledOnce /\ QueueOwned /\ NotifyLive
<1> SUFFICES ASSUME CoreInv PROVE OwnReply /\ FilledOnce /\ QueueOwned /\ NotifyLive
  OBVIOUS
<1>1. TypeOK /\ BlockInv
  BY DEF CoreInv
<1>2. OwnReply
  <2>1. SUFFICES ASSUME NEW t \in Thread, NEW m \in Answers(t) PROVE m.id = call[t].id
    BY DEF OwnReply
  <2>2. pc[t] \in Holding /\ buf[t] \in used /\ m \in S!ToSet(Got(t))
    BY <2>1 DEF Answers
  <2>3. PICK b \in used : b = buf[t]
    BY <2>2
  <2>4. skb[b].got \in Seq(Reply)
    BY <1>1, <2>3 DEF TypeOK, Buffer
  <2>5. PICK i \in DOMAIN skb[b].got : m = skb[b].got[i]
    BY <2>2, <2>3 DEF Got, S!ToSet
  <2>6. skb[b].got # <<>>
    BY <2>4, <2>5
  <2>7. Len(skb[b].got) = 1 /\ skb[b].got[1].id = skb[b].id
    BY <1>1, <2>6 DEF BlockInv, FilledInv
  <2>8. i = 1
    BY <2>4, <2>5, <2>7
  <2>9. call[t].id = skb[b].id
    BY <1>1, <2>2, <2>3 DEF BlockInv, HeldInv, Mine
  <2>10. QED
    BY <2>5, <2>7, <2>8, <2>9
<1>3. FilledOnce
  <2>1. SUFFICES ASSUME NEW b \in used PROVE Len(skb[b].got) <= 1
    BY DEF FilledOnce
  <2>2. CASE skb[b].got = <<>>
    <3>1. Len(<<>>) = 0
      OBVIOUS
    <3>2. QED
      BY <2>2, <3>1
  <2>3. CASE skb[b].got # <<>>
    <3>1. Len(skb[b].got) = 1
      BY <1>1, <2>3 DEF BlockInv, FilledInv
    <3>2. QED
      BY <3>1
  <2>4. QED
    BY <2>2, <2>3
<1>4. QueueOwned
  BY <1>1 DEF BlockInv, OwnedInv, QueueOwned, Owns, Mine
<1>5. QED
  BY <1>1, <1>2, <1>3, <1>4 DEF BlockInv, NotifyLive

\* With a free number for every call the response a call gets is its own, and the only
\* one, and every buffer is freed by the call that allocated it or by deinit, on any
\* channel and after any number of calls.
THEOREM OwnWhileFree == Spec => FreeNumbersSuffice
BY CoreInvariant, OwnOnce, PTL DEF FreeNumbersSuffice

\* So with up to 2^32 calls, and a fresh channel for each session, a response a call
\* reads is its own ...
THEOREM ResponsesAreOwn ==
  ASSUME FreshChannel, MaxCalls <= SeqMod
  PROVE  Spec => []OwnReply
BY NumbersAreFree, CoreInvariant, OwnOnce, PTL

\* ... no buffer is filled twice ...
THEOREM BuffersAreFilledOnce ==
  ASSUME FreshChannel, MaxCalls <= SeqMod
  PROVE  Spec => []FilledOnce
BY NumbersAreFree, CoreInvariant, OwnOnce, PTL

\* ... no buffer stays behind in response_queue or in memory ...
THEOREM QueueIsOwned ==
  ASSUME FreshChannel, MaxCalls <= SeqMod
  PROVE  Spec => []QueueOwned
BY NumbersAreFree, CoreInvariant, OwnOnce, PTL

\* ... and response_queue has no freed buffer, though deinit frees buffers of calls in
\* progress.
THEOREM NotifyFindsLive ==
  ASSUME FreshChannel, MaxCalls <= SeqMod
  PROVE  Spec => []NotifyLive
BY NumbersAreFree, CoreInvariant, OwnOnce, PTL

-----------------------------------------------------------------------------
(* No call in progress while the instance is deinitialised. *)

Alive == {"send", "find", "wait", "unlink", "finish"}

\* Each call in progress has its buffer, and no thread has crashed.
LiveInv ==
  /\ teardown # "none" => \A t \in Thread : pc[t] = "idle"
  /\ \A t \in Thread : pc[t] # "oops"
  /\ \A t \in Thread : pc[t] \in Alive => \E b \in used : skb[b].seq = seq[t]

LEMMA InitLive == Init => LiveInv
BY DEF Init, LiveInv, Alive

LEMMA LiveOwns ==
  ASSUME CoreInv, LiveInv, NEW t \in Thread, pc[t] \in Alive
  PROVE  \E b \in used : Mine(t, b)
<1>1. PICK b \in used : skb[b].seq = seq[t]
  BY DEF LiveInv
<1>2. QED
  BY <1>1, OwnBuffer DEF CoreInv, Alive, Numbered

LEMMA LiveHolds ==
  ASSUME CoreInv, LiveInv, NEW t \in Thread, pc[t] \in Holding
  PROVE  buf[t] \in used /\ Mine(t, buf[t])
<1>1. PICK b \in used : Mine(t, b)
  BY LiveOwns DEF Holding, Alive
<1>2. QED
  BY <1>1 DEF Mine

LEMMA LiveFinds ==
  ASSUME CoreInv, LiveInv, NEW t \in Thread, pc[t] = "find"
  PROVE  \E b \in used : Found(seq[t]) = {b} /\ skb[b].id = call[t].id
<1>1. PICK b \in used : Mine(t, b)
  BY LiveOwns DEF Alive
<1>2. b \in Linked /\ Has(b, seq[t]) /\ skb[b].id = call[t].id
  BY <1>1 DEF Mine, Has
<1>3. QED
  BY <1>1, <1>2, FoundOne DEF CoreInv

LEMMA LiveSafe == CoreInv /\ LiveInv => NoDangling /\ BufferFound
<1> SUFFICES ASSUME CoreInv, LiveInv PROVE NoDangling /\ BufferFound
  OBVIOUS
<1>1. NoDangling
  BY LiveHolds DEF NoDangling, Dangles, LiveInv
<1>2. BufferFound
  BY LiveFinds DEF BufferFound, At
<1>3. QED
  BY <1>1, <1>2

\* Thread t moves on, in a step that frees no buffer of another call.
LEMMA MoveLive ==
  ASSUME LiveInv, teardown' = teardown, NEW t \in Thread, Others(t), teardown = "none",
         pc'[t] # "oops",
         \A u \in Thread \ {t} : pc[u] \in Alive =>
            \A b \in used : skb[b].seq = seq[u] => b \in used' /\ skb'[b].seq = skb[b].seq,
         pc'[t] \in Alive => \E b \in used' : skb'[b].seq = seq'[t]
  PROVE  LiveInv'
<1>1. \A u \in Thread : pc'[u] # "oops"
  BY DEF LiveInv, Others
<1>2. ASSUME NEW u \in Thread, pc'[u] \in Alive
      PROVE  \E b \in used' : skb'[b].seq = seq'[u]
  <2>1. CASE u = t
    BY <1>2, <2>1
  <2>2. CASE u # t
    <3>1. pc'[u] = pc[u] /\ seq'[u] = seq[u]
      BY <2>2 DEF Others
    <3>2. PICK b \in used : skb[b].seq = seq[u]
      BY <1>2, <3>1 DEF LiveInv
    <3>3. QED
      BY <1>2, <2>2, <3>1, <3>2
  <2>3. QED
    BY <2>1, <2>2
<1>3. QED
  BY <1>1, <1>2 DEF LiveInv

LEMMA StillLive ==
  ASSUME LiveInv, UNCHANGED <<pc, seq, used>>, \A b \in used : skb'[b].seq = skb[b].seq,
         teardown' # "none" => teardown # "none" \/ \A t \in Thread : pc[t] = "idle"
  PROVE  LiveInv'
<1>1. \A t \in Thread : pc'[t] \in Alive => \E b \in used' : skb'[b].seq = seq'[t]
  <2>1. SUFFICES ASSUME NEW t \in Thread, pc[t] \in Alive
                 PROVE  \E b \in used : skb'[b].seq = seq[t]
    OBVIOUS
  <2>2. PICK b \in used : skb[b].seq = seq[t]
    BY <2>1 DEF LiveInv
  <2>3. QED
    BY <2>2
<1>2. QED
  BY <1>1 DEF LiveInv

LEMMA NextLive ==
  ASSUME Quiesced, CoreInv, LiveInv, [Next]_vars
  PROVE  LiveInv'
<1> USE DEF instance, channel, history, local, memory
<1>1. TypeOK /\ BlockInv /\ CallInv
  BY DEF CoreInv
<1>2. \A t \in Thread : pc[t] # "idle" => teardown = "none"
  BY DEF LiveInv
<1>3. ASSUME NEW t \in Thread, teardown' = teardown, Others(t), teardown = "none",
             pc'[t] # "oops", UNCHANGED <<used, skb>>,
             pc'[t] \in Alive => pc[t] \in Alive /\ seq'[t] = seq[t]
      PROVE  LiveInv'
  <2>1. pc'[t] \in Alive => \E b \in used : skb[b].seq = seq'[t]
    BY <1>3 DEF LiveInv
  <2>2. QED
    BY <1>3, <2>1, MoveLive
<1>4. ASSUME NEW t \in Thread, NEW c \in Cmd, Call(t, c) PROVE LiveInv'
  <2>1. /\ Goto(t, "number") /\ call' = [call EXCEPT ![t] = call'[t]]
        /\ teardown = "none" /\ UNCHANGED <<memory, teardown, local>>
    BY <1>1, <1>4 DEF Call, At, TypeOK
  <2>2. Others(t) /\ pc'[t] = "number"
    BY <1>1, <2>1 DEF Goto, TypeOK, Others
  <2>3. QED
    BY <1>3, <2>1, <2>2 DEF Alive
<1>5. ASSUME NEW t \in Thread, NEW to \in Busy \ {"oops"}, Goto(t, to), pc[t] # "idle",
             to \in Alive => pc[t] \in Alive, UNCHANGED <<used, skb, local, call, teardown>>
      PROVE  LiveInv'
  <2>1. Others(t) /\ pc'[t] = to
    BY <1>1, <1>5, GotoOthers
  <2>2. QED
    BY <1>2, <1>3, <1>5, <2>1
<1>6. ASSUME NEW t \in Thread, TakeNumber(t) PROVE LiveInv'
  BY <1>5, <1>6 DEF TakeNumber, At, Busy, Alive
<1>7. ASSUME NEW t \in Thread, ReadNumber(t) PROVE LiveInv'
  <2>1. /\ pc[t] = "numbered" /\ Goto(t, "prepare") /\ seq' = [seq EXCEPT ![t] = seqNum]
        /\ UNCHANGED <<memory, teardown, buf, woke, call>>
    BY <1>7 DEF ReadNumber, At
  <2>2. Others(t) /\ pc'[t] = "prepare"
    BY <1>1, <2>1 DEF Goto, TypeOK, Others
  <2>3. QED
    BY <1>2, <1>3, <2>1, <2>2 DEF Alive
<1>8. ASSUME NEW t \in Thread, NEW v, Return(t, v), UNCHANGED <<used, skb, teardown>>, pc[t] # "idle"
      PROVE  LiveInv'
  <2>1. Others(t) /\ pc'[t] = "idle"
    BY <1>1, <1>8, ReturnOthers
  <2>2. QED
    BY <1>2, <1>3, <1>8, <2>1 DEF Alive
<1>9. ASSUME NEW t \in Thread, PrepareWait(t) PROVE LiveInv'
  <2>1. pc[t] = "prepare" /\ UNCHANGED teardown
    BY <1>9 DEF PrepareWait, At
  <2>2. ASSUME NEW b \in Skb \ used, used' = used \cup {b},
               skb' = [skb EXCEPT ![b] = [seq |-> seq[t], id |-> call[t].id, got |-> <<>>]],
               Goto(t, "send"), UNCHANGED <<local, history>>
        PROVE  LiveInv'
    <3>1. Others(t) /\ pc'[t] = "send"
      BY <1>1, <2>2, GotoOthers
    <3>2. /\ skb'[b].seq = seq[t] /\ b \in used' /\ seq' = seq
          /\ \A c \in used : c \in used' /\ skb'[c].seq = skb[c].seq
      BY <1>1, <2>2 DEF TypeOK
    <3>3. QED
      BY <1>2, <2>1, <3>1, <3>2, MoveLive
  <2>3. QED
    BY <1>8, <1>9, <2>1, <2>2 DEF PrepareWait
<1>10. ASSUME NEW t \in Thread, Send(t) PROVE LiveInv'
  BY <1>5, <1>10 DEF Send, At, Busy, Alive
<1>11. ASSUME NEW t \in Thread, FindBuffer(t) PROVE LiveInv'
  <2>1. pc[t] = "find" /\ UNCHANGED <<used, skb, teardown>>
    BY <1>11 DEF FindBuffer, At
  <2>2. ASSUME NEW b, buf' = [buf EXCEPT ![t] = b], Goto(t, "wait"), UNCHANGED <<seq, woke, history>>
        PROVE  LiveInv'
    <3>1. Others(t) /\ pc'[t] = "wait"
      BY <1>1, <2>2 DEF Others, Goto, TypeOK
    <3>2. QED
      BY <1>2, <1>3, <2>1, <2>2, <3>1 DEF Alive
  <2>3. QED
    BY <1>8, <1>11, <2>1, <2>2 DEF FindBuffer
<1>12. ASSUME NEW t \in Thread, NEW why \in {"reply", "signal", "timeout"}, WakeUp(t, why)
       PROVE  LiveInv'
  <2>1. /\ pc[t] = "wait" /\ pc' = [pc EXCEPT ![t] = "unlink"] /\ woke' = [woke EXCEPT ![t] = why]
        /\ UNCHANGED <<used, skb, teardown, seq, buf, call>>
    BY <1>12 DEF WakeUp, At, Goto
  <2>2. Others(t) /\ pc'[t] = "unlink"
    BY <1>1, <2>1 DEF Others, TypeOK
  <2>3. QED
    BY <1>2, <1>3, <2>1, <2>2 DEF Alive
<1>13. ASSUME NEW t \in Thread, Unlink(t) PROVE LiveInv'
  BY <1>5, <1>13 DEF Unlink, At, Busy, Alive
<1>14. ASSUME NEW t \in Thread, Finish(t) PROVE LiveInv'
  <2>1. pc[t] = "finish" /\ FreeBuffer(t) /\ (\E v : Return(t, v)) /\ UNCHANGED teardown
    BY <1>14 DEF Finish, At
  <2>2. Others(t) /\ pc'[t] = "idle"
    BY <1>1, <2>1, ReturnOthers
  <2>3. buf[t] \in used /\ skb[buf[t]].seq = seq[t]
    BY <2>1, LiveHolds DEF Holding, Mine
  <2>4. \A b \in used : b # buf[t] => b \in used' /\ skb'[b] = skb[b]
    BY <1>1, <2>1 DEF FreeBuffer, TypeOK
  <2>5. \A u \in Thread \ {t} : pc[u] \in Alive => seq[u] # seq[t]
    BY <1>1, <2>1 DEF CallInv, NumbersInv, Numbered, Alive
  <2>6. QED
    BY <1>2, <2>1, <2>2, <2>3, <2>4, <2>5, MoveLive DEF Alive
<1>15. ASSUME NEW t \in Thread, Oops(t) PROVE LiveInv'
  <2>1. pc[t] \in Holding => buf[t] \in used /\ (pc[t] = "unlink" => buf[t] \in Linked)
    BY LiveHolds DEF Mine
  <2>2. QED
    BY <1>1, <1>15, <2>1 DEF Oops, At, Holding, BlockInv
<1>16. ASSUME NEW m \in toApp, Receive(m) PROVE LiveInv'
  BY <1>16, StillLive DEF Receive
<1>17. ASSUME Notify PROVE LiveInv'
  <2>1. rx # NoMsg /\ UNCHANGED <<pc, seq, used, teardown>>
    BY <1>17 DEF Notify
  <2>2. \A b \in used : skb'[b].seq = skb[b].seq
    <3>1. ASSUME NEW c \in Found(rx.seq), Fill(c) PROVE \A b \in used : skb'[b].seq = skb[b].seq
      <4>1. rx \in Reply /\ c \in Skb
        BY <1>1, <2>1, FoundHas DEF TypeOK
      <4>2. QED
        BY <1>1, <3>1, <4>1, FillType DEF TypeOK
    <3>2. QED
      BY <1>17, <3>1 DEF Notify
  <2>3. QED
    BY <2>1, <2>2, StillLive
<1>18. ASSUME NEW m \in toDev, NEW ret, DeviceParse(m, ret) PROVE LiveInv'
  BY <1>18, StillLive DEF DeviceParse
<1>19. ASSUME NEW m \in toDev, Lose(m) PROVE LiveInv'
  BY <1>19, StillLive DEF Lose
<1>20. ASSUME Deinit \/ DeinitClear \/ AppInit \/ UNCHANGED vars PROVE LiveInv'
  <2>1. /\ UNCHANGED <<pc, seq, used, skb>>
        /\ teardown' # "none" => teardown # "none" \/ \A t \in Thread : pc[t] = "idle"
    BY <1>20 DEF Deinit, DeinitClear, AppInit, vars, At
  <2>2. QED
    BY <2>1, StillLive
<1>21. ASSUME DeinitFlush PROVE LiveInv'
  <2>1. pc' = pc /\ \A t \in Thread : pc[t] = "idle"
    BY <1>21 DEF DeinitFlush, LiveInv
  <2>2. QED
    BY <2>1 DEF LiveInv, Alive
<1>22. QED
  BY <1>4, <1>6, <1>7, <1>9, <1>10, <1>11, <1>12, <1>13, <1>14, <1>15, <1>16, <1>17, <1>18, <1>19,
     <1>20, <1>21 DEF Next, Step, Exhausted

LEMMA LiveInvariant ==
  ASSUME Quiesced
  PROVE  Spec /\ []NumberFree => [](CoreInv /\ LiveInv)
<1>1. CoreInv /\ LiveInv /\ [Next]_vars => LiveInv'
  BY NextLive
<1>2. Init => LiveInv
  BY InitLive
<1>3. QED
  BY <1>1, <1>2, CoreInvariant, PTL DEF Spec

\* When no call is in progress while the instance is deinitialised, and while numbers
\* are free, no thread ever works on a buffer that was freed ...
THEOREM BuffersAreLive ==
  ASSUME Quiesced
  PROVE  Spec /\ []NumberFree => []NoDangling
BY LiveInvariant, LiveSafe, PTL

\* ... and each call finds the buffer it has linked, and could find no other.
THEOREM BuffersAreFound ==
  ASSUME Quiesced
  PROVE  Spec /\ []NumberFree => []BufferFound
BY LiveInvariant, LiveSafe, PTL

-----------------------------------------------------------------------------
(* Calls and what is on the way for them, by the number of the call. *)

\* Calls whose message has not been sent, and responses sent and not yet read.
BeforeSend == {"number", "numbered", "prepare", "send"}
Kept == UNION {S!ToSet(skb[b].got) : b \in used}
Replies == toApp \cup (IF rx = NoMsg THEN {} ELSE {rx}) \cup Kept

IdInv ==
  /\ \A t \in Thread : call[t] # NoCall => call[t].id \in 1..calls
  /\ \A t, u \in Thread :
       t # u /\ call[t] # NoCall /\ call[u] # NoCall => call[t].id # call[u].id
  /\ \A m \in toDev : m.id \in 1..calls
  /\ \A n \in Replies : n.id \in 1..calls
  /\ \A r \in ran : r.id \in 1..calls

\* The callback of a call runs at most once: there is one message for it until then,
\* and none before it is sent.
OnceInv ==
  /\ \A m, n \in toDev : m.id = n.id => m = n
  /\ \A m \in toDev, r \in ran : r.id # m.id
  /\ \A t \in Thread : pc[t] \in BeforeSend => /\ \A m \in toDev : m.id # call[t].id
                                           /\ \A r \in ran : r.id # call[t].id

\* A request asks for the command of its call, and a response fits what the callback
\* of its call returned.
Answered(t, n) == \E r \in ran : r.id = call[t].id /\ Fits(call[t].cmd, n, r)

AnswerInv ==
  \A t \in Thread : call[t] # NoCall =>
    /\ \A m \in toDev : m.id = call[t].id => m.cmd = call[t].cmd
    /\ \A n \in Replies : n.id = call[t].id => Answered(t, n)

RefInv == IdInv /\ OnceInv /\ AnswerInv

\* The response of icap_device_parse_msg as the application function reads it.
LEMMA ReplyIsRead ==
  ASSUME NEW cmd \in DeviceCmd, NEW ret \in Int, NEW n, NEW id,
         n.type = DeviceReply(cmd, ret).type, n.len = DeviceReply(cmd, ret).len,
         n.val = DeviceReply(cmd, ret).val
  PROVE  Fits(cmd, n, [id |-> id, ret |-> DeviceRet(cmd, ret)])
<1>1. CallResult(cmd, n) =
        IF cmd \notin Implemented
        THEN IF cmd \in ValueCmd THEN -ICAP_ERROR_MSG_LEN ELSE 0
        ELSE IF cmd = "GET_DEV_FEATURES" /\ ret > 0 THEN 0 ELSE ret
  BY CallRoundTrip
<1>2. DeviceRet(cmd, ret) = IF cmd \in Implemented THEN ret ELSE 0
  BY DEF DeviceRet
<1>3. QED
  BY <1>1, <1>2 DEF Fits, Abs!Promised

LEMMA InitRef == Init => RefInv
<1> SUFFICES ASSUME Init PROVE RefInv
  OBVIOUS
<1>1. toDev = {} /\ Replies = {} /\ ran = {} /\ \A t \in Thread : call[t] = NoCall /\ pc[t] = "idle"
  BY DEF Init, Replies, Kept
<1>2. IdInv
  BY <1>1 DEF IdInv
<1>3. OnceInv /\ AnswerInv
  BY <1>1 DEF OnceInv, AnswerInv, BeforeSend
<1>4. QED
  BY <1>2, <1>3 DEF RefInv

\* Buffers come empty and go with what is in them.
LEMMA FewerKept ==
  ASSUME \A b \in used' : skb'[b].got = <<>> \/ (b \in used /\ skb'[b].got = skb[b].got)
  PROVE  Kept' \subseteq Kept
<1>1. S!ToSet(<<>>) = {}
  BY DEF S!ToSet
<1>2. SUFFICES ASSUME NEW b \in used', NEW m \in S!ToSet(skb'[b].got) PROVE m \in Kept
  BY DEF Kept
<1>3. b \in used /\ skb'[b].got = skb[b].got
  BY <1>1, <1>2
<1>4. QED
  BY <1>2, <1>3 DEF Kept

LEMMA SameKept ==
  ASSUME UNCHANGED memory
  PROVE  Kept' \subseteq Kept
BY FewerKept DEF memory

\* Calls return or their threads move on, and nothing new is on its way.
LEMMA FewerRef ==
  ASSUME RefInv, UNCHANGED <<calls, ran>>, toDev' \subseteq toDev, Replies' \subseteq Replies,
         \A t \in Thread : call'[t] = call[t] \/ call'[t] = NoCall,
         \A t \in Thread : pc'[t] \in BeforeSend => pc[t] \in BeforeSend /\ call'[t] = call[t]
  PROVE  RefInv'
<1>1. IdInv'
  <2>1. \A u \in Thread : call'[u] # NoCall => call'[u].id \in 1..calls'
    BY DEF RefInv, IdInv
  <2>2. \A u, w \in Thread :
          u # w /\ call'[u] # NoCall /\ call'[w] # NoCall => call'[u].id # call'[w].id
    BY DEF RefInv, IdInv
  <2>3. QED
    BY <2>1, <2>2 DEF RefInv, IdInv
<1>2. OnceInv'
  BY DEF RefInv, OnceInv
<1>3. AnswerInv'
  <2>1. SUFFICES ASSUME NEW t \in Thread, call'[t] # NoCall
                 PROVE  /\ \A m \in toDev' : m.id = call'[t].id => m.cmd = call'[t].cmd
                        /\ \A n \in Replies' : n.id = call'[t].id => Answered(t, n)'
    BY DEF AnswerInv
  <2>2. call'[t] = call[t] /\ \A n : Answered(t, n)' <=> Answered(t, n)
    BY <2>1 DEF Answered, Fits, Abs!Promised
  <2>3. QED
    BY <2>1, <2>2 DEF RefInv, AnswerInv
<1>4. QED
  BY <1>1, <1>2, <1>3 DEF RefInv

LEMMA CallRef ==
  ASSUME TypeOK, RefInv, NEW t \in Thread, NEW c \in Cmd, Call(t, c)
  PROVE  RefInv'
<1>1. /\ calls' = calls + 1 /\ calls \in Nat /\ pc[t] = "idle"
      /\ call' = [call EXCEPT ![t] = [id |-> calls', cmd |-> c]]
      /\ pc' = [pc EXCEPT ![t] = "number"]
      /\ UNCHANGED <<ran, toDev, toApp, rx, used, skb>>
  BY DEF Call, At, Goto, channel, TypeOK, memory
<1>2. Replies' = Replies
  BY <1>1 DEF Replies, Kept
<1>3. call'[t] = [id |-> calls', cmd |-> c] /\ call'[t].id = calls' /\ pc'[t] = "number"
  BY <1>1 DEF TypeOK
<1>4. \A u \in Thread \ {t} : call'[u] = call[u] /\ pc'[u] = pc[u]
  BY <1>1 DEF TypeOK
<1>5. /\ \A m \in toDev : m.id \in 1..calls /\ m.id # calls'
      /\ \A n \in Replies : n.id \in 1..calls /\ n.id # calls'
      /\ \A r \in ran : r.id \in 1..calls /\ r.id # calls'
      /\ \A u \in Thread \ {t} : call'[u] # NoCall => call'[u].id \in 1..calls /\ call'[u].id # calls'
      /\ \A i \in 1..calls : i \in 1..calls'
  BY <1>1, <1>4 DEF RefInv, IdInv
<1>6. IdInv'
  <2>1. \A u \in Thread : call'[u] # NoCall => call'[u].id \in 1..calls'
    BY <1>1, <1>3, <1>5
  <2>2. \A u, w \in Thread :
          u # w /\ call'[u] # NoCall /\ call'[w] # NoCall => call'[u].id # call'[w].id
    BY <1>3, <1>4, <1>5 DEF RefInv, IdInv
  <2>3. QED
    BY <1>1, <1>2, <1>5, <2>1, <2>2 DEF IdInv
<1>7. OnceInv'
  <2>1. \A u \in Thread : pc'[u] \in BeforeSend => /\ \A m \in toDev : m.id # call'[u].id
                                               /\ \A r \in ran : r.id # call'[u].id
    BY <1>3, <1>4, <1>5 DEF RefInv, OnceInv
  <2>2. QED
    BY <1>1, <2>1 DEF RefInv, OnceInv
<1>8. AnswerInv'
  <2>1. ASSUME NEW u \in Thread, call'[u] # NoCall
        PROVE  /\ \A m \in toDev : m.id = call'[u].id => m.cmd = call'[u].cmd
               /\ \A n \in Replies : n.id = call'[u].id
                    => \E r \in ran : r.id = call'[u].id /\ Fits(call'[u].cmd, n, r)
    <3>1. CASE u = t
      BY <3>1, <1>3, <1>5
    <3>2. CASE u # t
      <4>1. call'[u] = call[u]
        BY <3>2, <1>4
      <4>2. QED
        BY <2>1, <4>1 DEF RefInv, AnswerInv, Answered
    <3>3. QED
      BY <3>1, <3>2
  <2>2. QED
    BY <1>1, <1>2, <2>1 DEF AnswerInv, Answered, Fits, Abs!Promised
<1>9. QED
  BY <1>6, <1>7, <1>8 DEF RefInv

LEMMA SendRef ==
  ASSUME TypeOK, RefInv, NEW t \in Thread, Send(t)
  PROVE  RefInv'
<1> DEFINE q == [seq |-> seq[t], id |-> call[t].id, cmd |-> call[t].cmd]
<1>1. /\ pc[t] = "send" /\ pc' = [pc EXCEPT ![t] = "find"]
      /\ toDev' = toDev \/ toDev' = toDev \cup {q}
      /\ UNCHANGED <<ran, call, calls, toApp, rx, used, skb>>
  BY DEF Send, At, Goto, history, memory
<1>2. call[t] # NoCall /\ \A m \in toDev' : m \in toDev \/ m = q
  BY <1>1 DEF TypeOK
<1>3. q.id = call[t].id /\ q.cmd = call[t].cmd
  OBVIOUS
<1>4. /\ \A m \in toDev : m.id # q.id
      /\ \A r \in ran : r.id # q.id
  BY <1>1, <1>3 DEF RefInv, OnceInv, BeforeSend
<1>5. \A u \in Thread : pc'[u] \in BeforeSend => /\ pc[u] \in BeforeSend /\ call[u] # NoCall
                                             /\ call[u].id # q.id
  <2>1. \A u \in Thread : pc'[u] \in BeforeSend => u # t /\ pc[u] \in BeforeSend /\ call[u] # NoCall
    BY <1>1 DEF TypeOK, BeforeSend
  <2>2. QED
    BY <1>2, <1>3, <2>1 DEF RefInv, IdInv
<1> HIDE DEF q
<1>6. Replies' = Replies
  BY <1>1 DEF Replies, Kept
<1>7. IdInv'
  BY <1>1, <1>2, <1>3, <1>6 DEF RefInv, IdInv
<1>8. OnceInv'
  BY <1>1, <1>2, <1>4, <1>5 DEF RefInv, OnceInv
<1>9. AnswerInv'
  <2>1. ASSUME NEW u \in Thread, call[u] # NoCall, NEW m \in toDev', m.id = call[u].id
        PROVE  m.cmd = call[u].cmd
    <3>1. CASE m \in toDev
      BY <2>1, <3>1 DEF RefInv, AnswerInv
    <3>2. CASE m = q
      BY <2>1, <3>2, <1>2, <1>3 DEF RefInv, IdInv
    <3>3. QED
      BY <1>2, <3>1, <3>2
  <2>2. QED
    BY <1>1, <1>6, <2>1 DEF RefInv, AnswerInv, Answered, Fits, Abs!Promised
<1>10. QED
  BY <1>7, <1>8, <1>9 DEF RefInv

LEMMA NotifyRef ==
  ASSUME TypeOK, RefInv, Notify
  PROVE  RefInv'
<1>1. /\ rx # NoMsg /\ rx' = NoMsg /\ rx \in Reply
      /\ UNCHANGED <<call, calls, ran, pc, toDev, toApp, used>>
  BY DEF Notify, channel, history, TypeOK
<1>2. Kept' \subseteq Kept \cup {rx}
  <2>1. CASE UNCHANGED skb
    BY <1>1, <2>1 DEF Kept
  <2>2. ASSUME NEW b \in Found(rx.seq), Fill(b)
        PROVE  Kept' \subseteq Kept \cup {rx}
    <3>1. b \in Skb
      BY Linking DEF TypeOK
    <3>2. /\ \A c \in Skb \ {b} : skb'[c] = skb[c]
          /\ skb'[b].got = Append(skb[b].got, rx) /\ skb[b].got \in Seq(Reply)
      BY <1>1, <2>2, <3>1, FillType DEF TypeOK, Buffer
    <3>3. S!ToSet(skb'[b].got) = S!ToSet(skb[b].got) \cup {rx}
      BY <1>1, <3>2, Appended
    <3>4. SUFFICES ASSUME NEW c \in used, NEW m \in S!ToSet(skb'[c].got) PROVE m \in Kept \cup {rx}
      BY <1>1 DEF Kept
    <3>5. CASE c = b
      BY <3>3, <3>4, <3>5 DEF Kept
    <3>6. CASE c # b
      <4>1. skb'[c] = skb[c]
        BY <3>2, <3>6 DEF TypeOK
      <4>2. QED
        BY <3>4, <4>1 DEF Kept
    <3>7. QED
      BY <3>5, <3>6
  <2>3. QED
    BY <2>1, <2>2 DEF Notify
<1>3. Replies' \subseteq Replies
  BY <1>1, <1>2 DEF Replies
<1>4. QED
  BY <1>1, <1>3, FewerRef

LEMMA DeviceParseRef ==
  ASSUME TypeOK, RefInv, NEW m \in toDev, NEW ret \in LegalRet(m.cmd, Ret), DeviceParse(m, ret)
  PROVE  RefInv'
<1> DEFINE reply == DeviceReply(m.cmd, ret)
           n == [seq |-> m.seq, id |-> m.id, type |-> reply.type, len |-> reply.len,
                 val |-> reply.val]
           done == [id |-> m.id, ret |-> DeviceRet(m.cmd, ret)]
<1>1. /\ toDev' = toDev \ {m} /\ ran' = ran \cup {done}
      /\ toApp' = toApp \/ toApp' = toApp \cup {n}
      /\ UNCHANGED <<call, calls, pc, rx, used, skb>>
  BY DEF DeviceParse, memory
<1>2. m \in Request /\ m.cmd \in DeviceCmd /\ ret \in Int
  BY KernelAssumption DEF TypeOK, Request, LegalRet
<1>3. Fits(m.cmd, n, done)
  BY <1>2, ReplyIsRead
<1>4. n.id = m.id /\ done.id = m.id
  OBVIOUS
<1> HIDE DEF reply, n, done
<1>5. \A k \in Replies' : k \in Replies \/ k = n
  BY <1>1 DEF Replies, Kept
<1>6. m.id \in 1..calls
  BY DEF RefInv, IdInv
<1>7. IdInv'
  <2>1. \A k \in Replies' : k.id \in 1..calls
    BY <1>4, <1>5, <1>6 DEF RefInv, IdInv
  <2>2. \A r \in ran' : r.id \in 1..calls
    BY <1>1, <1>4, <1>6 DEF RefInv, IdInv
  <2>3. QED
    BY <1>1, <2>1, <2>2 DEF RefInv, IdInv
<1>8. OnceInv'
  <2>1. \A k \in toDev' : k.id # m.id
    BY <1>1 DEF RefInv, OnceInv
  <2>2. \A k \in toDev', r \in ran' : r.id # k.id
    BY <1>1, <1>4, <2>1 DEF RefInv, OnceInv
  <2>3. \A t \in Thread : pc[t] \in BeforeSend => m.id # call[t].id
    BY DEF RefInv, OnceInv
  <2>4. \A t \in Thread : pc[t] \in BeforeSend => \A r \in ran' : r.id # call[t].id
    BY <1>1, <1>4, <2>3 DEF RefInv, OnceInv
  <2>5. QED
    BY <1>1, <2>2, <2>4 DEF RefInv, OnceInv
<1>9. AnswerInv'
  <2>1. ASSUME NEW t \in Thread, NEW k, Answered(t, k)
        PROVE  Answered(t, k)'
    BY <2>1, <1>1 DEF Answered, Fits, Abs!Promised
  <2>2. ASSUME NEW t \in Thread, call[t] # NoCall, n.id = call[t].id
        PROVE  Answered(t, n)'
    <3>1. m.cmd = call[t].cmd
      BY <2>2, <1>4 DEF RefInv, AnswerInv
    <3>2. QED
      BY <2>2, <3>1, <1>1, <1>3, <1>4 DEF Answered, Fits, Abs!Promised
  <2>3. ASSUME NEW t \in Thread, call[t] # NoCall, NEW k \in Replies', k.id = call[t].id
        PROVE  Answered(t, k)'
    BY <2>1, <2>2, <2>3, <1>5 DEF RefInv, AnswerInv
  <2>4. \A t \in Thread, k \in toDev' :
          call[t] # NoCall /\ k.id = call[t].id => k.cmd = call[t].cmd
    BY <1>1 DEF RefInv, AnswerInv
  <2>5. QED
    BY <1>1, <2>3, <2>4 DEF AnswerInv
<1>10. QED
  BY <1>7, <1>8, <1>9 DEF RefInv

LEMMA NextRef ==
  ASSUME TypeOK, RefInv, [Next]_vars
  PROVE  RefInv'
<1> USE DEF instance, channel, history, local
<1>1. ASSUME UNCHANGED <<calls, ran, call, toDev, toApp, rx, memory>>,
             \A t \in Thread : pc'[t] \in BeforeSend => pc[t] \in BeforeSend
      PROVE  RefInv'
  <2>1. Replies' \subseteq Replies
    BY <1>1, SameKept DEF Replies
  <2>2. QED
    BY <1>1, <2>1, FewerRef
<1>2. ASSUME NEW t \in Thread, NEW v, Return(t, v), UNCHANGED <<toDev, toApp, rx>>,
             Kept' \subseteq Kept
      PROVE  RefInv'
  <2>1. /\ UNCHANGED <<calls, ran>> /\ call' = [call EXCEPT ![t] = NoCall]
        /\ pc' = [pc EXCEPT ![t] = "idle"]
    BY <1>2 DEF Return, Goto
  <2>2. /\ \A u \in Thread : call'[u] = call[u] \/ call'[u] = NoCall
        /\ \A u \in Thread : pc'[u] \in BeforeSend => pc[u] \in BeforeSend /\ call'[u] = call[u]
    BY <2>1 DEF TypeOK, BeforeSend
  <2>3. Replies' \subseteq Replies
    BY <1>2 DEF Replies
  <2>4. QED
    BY <1>2, <2>1, <2>2, <2>3, FewerRef
<1>3. ASSUME NEW t \in Thread, NEW c \in Cmd, Call(t, c) PROVE RefInv'
  BY <1>3, CallRef
<1>4. ASSUME NEW t \in Thread, TakeNumber(t) PROVE RefInv'
  BY <1>1, <1>4 DEF TakeNumber, At, Goto, BeforeSend, TypeOK
<1>5. ASSUME NEW t \in Thread, ReadNumber(t) PROVE RefInv'
  BY <1>1, <1>5 DEF ReadNumber, At, Goto, BeforeSend, TypeOK
<1>6. ASSUME NEW t \in Thread, PrepareWait(t) PROVE RefInv'
  <2>1. pc[t] = "prepare" /\ UNCHANGED <<toDev, toApp, rx>>
    BY <1>6 DEF PrepareWait, At
  <2>2. ASSUME NEW v, Return(t, v), UNCHANGED memory PROVE RefInv'
    BY <1>2, <2>1, <2>2, SameKept
  <2>3. ASSUME NEW b \in Skb \ used, used' = used \cup {b},
               skb' = [skb EXCEPT ![b] = [seq |-> seq[t], id |-> call[t].id, got |-> <<>>]],
               Goto(t, "send"), UNCHANGED <<local, history>>
        PROVE  RefInv'
    <3>1. \A c \in used' : skb'[c].got = <<>> \/ (c \in used /\ skb'[c].got = skb[c].got)
      <4>1. skb'[b].got = <<>> /\ \A c \in used : skb'[c] = skb[c]
        BY <2>3 DEF TypeOK
      <4>2. QED
        BY <2>3, <4>1
    <3>2. Replies' \subseteq Replies
      BY <2>1, <3>1, FewerKept DEF Replies
    <3>3. \A u \in Thread : pc'[u] \in BeforeSend => pc[u] \in BeforeSend
      BY <2>1, <2>3 DEF Goto, TypeOK, BeforeSend
    <3>4. QED
      BY <2>1, <2>3, <3>2, <3>3, FewerRef
  <2>4. QED
    BY <1>6, <2>2, <2>3 DEF PrepareWait
<1>7. ASSUME NEW t \in Thread, Send(t) PROVE RefInv'
  BY <1>7, SendRef
<1>8. ASSUME NEW t \in Thread, FindBuffer(t) PROVE RefInv'
  <2>1. pc[t] = "find" /\ UNCHANGED <<toDev, toApp, rx, memory>>
    BY <1>8 DEF FindBuffer, At
  <2>2. ASSUME NEW v, Return(t, v) PROVE RefInv'
    BY <1>2, <2>1, <2>2, SameKept
  <2>3. ASSUME Goto(t, "wait"), UNCHANGED history PROVE RefInv'
    BY <1>1, <2>1, <2>3 DEF Goto, BeforeSend, TypeOK
  <2>4. QED
    BY <1>8, <2>2, <2>3 DEF FindBuffer
<1>9. ASSUME NEW t \in Thread, NEW why \in {"reply", "signal", "timeout"}, WakeUp(t, why)
      PROVE  RefInv'
  BY <1>1, <1>9 DEF WakeUp, At, Goto, BeforeSend, TypeOK
<1>10. ASSUME NEW t \in Thread, Unlink(t) PROVE RefInv'
  <2>1. /\ Goto(t, "finish") /\ UNCHANGED <<calls, ran, call, toDev, toApp, rx, used, skb>>
    BY <1>10 DEF Unlink
  <2>2. Replies' \subseteq Replies
    BY <2>1 DEF Replies, Kept
  <2>3. \A u \in Thread : pc'[u] \in BeforeSend => pc[u] \in BeforeSend
    BY <2>1 DEF Goto, TypeOK, BeforeSend
  <2>4. QED
    BY <2>1, <2>2, <2>3, FewerRef
<1>11. ASSUME NEW t \in Thread, Finish(t) PROVE RefInv'
  <2>1. (\E v : Return(t, v)) /\ FreeBuffer(t) /\ UNCHANGED <<toDev, toApp, rx>>
    BY <1>11 DEF Finish
  <2>2. \A c \in used' : skb'[c].got = <<>> \/ (c \in used /\ skb'[c].got = skb[c].got)
    BY <2>1 DEF FreeBuffer, TypeOK
  <2>3. QED
    BY <1>2, <2>1, <2>2, FewerKept
<1>12. ASSUME NEW t \in Thread, Oops(t) PROVE RefInv'
  BY <1>1, <1>12 DEF Oops, At, Goto, BeforeSend, TypeOK
<1>13. ASSUME NEW m \in toApp, Receive(m) PROVE RefInv'
  <2>1. Replies' \subseteq Replies
    BY <1>13, SameKept DEF Receive, Replies
  <2>2. QED
    BY <1>13, <2>1, FewerRef DEF Receive
<1>14. ASSUME Notify PROVE RefInv'
  BY <1>14, NotifyRef
<1>15. ASSUME NEW m \in toDev, NEW ret \in LegalRet(m.cmd, Ret), DeviceParse(m, ret) PROVE RefInv'
  BY <1>15, DeviceParseRef
<1>16. ASSUME NEW m \in toDev, Lose(m) PROVE RefInv'
  <2>1. Replies' \subseteq Replies
    BY <1>16, SameKept DEF Lose, Replies
  <2>2. QED
    BY <1>16, <2>1, FewerRef DEF Lose
<1>17. ASSUME Deinit \/ DeinitClear \/ UNCHANGED vars PROVE RefInv'
  BY <1>1, <1>17 DEF Deinit, DeinitClear, vars
<1>18. ASSUME DeinitFlush PROVE RefInv'
  <2>1. \A c \in used' : c \in used /\ skb'[c].got = skb[c].got
    BY <1>18 DEF DeinitFlush, FreeLinked, TypeOK
  <2>2. Replies' \subseteq Replies
    BY <1>18, <2>1, FewerKept DEF DeinitFlush, Replies
  <2>3. QED
    BY <1>18, <2>2, FewerRef DEF DeinitFlush
<1>19. ASSUME AppInit PROVE RefInv'
  <2>1. UNCHANGED <<used, skb>> /\ toApp' \subseteq toApp /\ rx' = rx
    BY <1>19 DEF AppInit
  <2>2. Replies' \subseteq Replies
    BY <2>1 DEF Replies, Kept
  <2>3. QED
    BY <1>19, <2>2, FewerRef DEF AppInit
<1>20. QED
  BY <1>3, <1>4, <1>5, <1>6, <1>7, <1>8, <1>9, <1>10, <1>11, <1>12, <1>13, <1>14, <1>15, <1>16,
     <1>17, <1>18, <1>19 DEF Next, Step, Exhausted

LEMMA RefInvariant == Spec /\ []NumberFree => [](CoreInv /\ RefInv)
<1>1. CoreInv /\ RefInv /\ [Next]_vars => RefInv'
  BY NextRef DEF CoreInv
<1>2. QED
  BY InitRef, <1>1, CoreInvariant, PTL DEF Spec

\* A response a call may read fits what the callback of this call has returned.
LEMMA FittingReply ==
  ASSUME CoreInv, RefInv, NEW t \in Thread, NEW m \in Answers(t)
  PROVE  call[t] # NoCall /\ Answered(t, m)
<1>1. pc[t] \in Holding /\ buf[t] \in used /\ m \in S!ToSet(skb[buf[t]].got)
  BY DEF Answers, Got
<1>2. m \in Replies
  BY <1>1 DEF Replies, Kept
<1>3. m.id = call[t].id
  BY OwnOnce DEF OwnReply
<1>4. call[t] # NoCall
  BY <1>1 DEF CoreInv, TypeOK, Holding
<1>5. QED
  BY <1>2, <1>3, <1>4 DEF RefInv, AnswerInv

\* A response that reaches the buffer of a call fits what the callback of this call
\* has returned, for every command and whether or not a callback is registered.
THEOREM RepliesFit ==
  ASSUME FreshChannel, MaxCalls <= SeqMod
  PROVE  Spec => []ReplyFits
<1>1. CoreInv /\ RefInv => ReplyFits
  BY FittingReply DEF ReplyFits, Answered
<1>2. QED
  BY NumbersAreFree, RefInvariant, <1>1, PTL

-----------------------------------------------------------------------------
(* What calls return. *)

\* A thread that finishes with a buffer of its own.
LEMMA FinishValue ==
  ASSUME CoreInv, RefInv, NEW t \in Thread, Finish(t), ~Dangles(t)
  PROVE  \E v \in Deserved(t) : Return(t, v)
<1>1. ASSUME woke[t] = "reply", NEW v \in Readable(t), Return(t, v)
      PROVE  v \in Deserved(t)
  <2>1. pc[t] \in Holding /\ pc[t] # "wait" /\ buf[t] \in used
    BY DEF Finish, At, Dangles, Holding
  <2>2. Got(t) # <<>> /\ buf[t] \in Skb
    BY <1>1, <2>1 DEF CoreInv, BlockInv, HeldInv
  <2>3. Got(t) \in Seq(Reply)
    BY <2>2 DEF CoreInv, TypeOK, Buffer, Got
  <2>4. Head(Got(t)) \in S!ToSet(Got(t))
    <3>1. 1 \in DOMAIN Got(t) /\ Head(Got(t)) = Got(t)[1]
      BY <2>2, <2>3
    <3>2. QED
      BY <3>1 DEF S!ToSet
  <2>5. Head(Got(t)) \in Answers(t)
    BY <2>1, <2>4 DEF Answers
  <2>6. Answered(t, Head(Got(t)))
    BY <2>5, FittingReply
  <2>7. PICK r \in ran : r.id = call[t].id /\ Fits(call[t].cmd, Head(Got(t)), r)
    BY <2>6 DEF Answered
  <2>8. v = CallResult(call[t].cmd, Head(Got(t)))
    BY <1>1, <2>1, <2>2 DEF Readable
  <2>9. v = -ICAP_ERROR_MSG_LEN \/ v = Abs!Promised(call[t].cmd, r.ret)
    BY <2>7, <2>8 DEF Fits
  <2>10. QED
    BY <2>7, <2>9 DEF Deserved, LocalError
<1>2. \A v \in LocalError : v \in Deserved(t)
  BY DEF Deserved
<1>3. QED
  BY <1>1, <1>2 DEF Finish, LocalError

LEMMA ReturnStep ==
  ASSUME TypeOK, NEW t \in Thread, pc[t] # "idle", NEW v \in Deserved(t), Return(t, v)
  PROVE  /\ Abs!Complete(t)
         /\ result'[t] \in Deserved(t)
         /\ \A u \in Thread \ {t} : call'[u] = call[u]
<1>1. Abs!Complete(t)
  BY DEF TypeOK, Return, Abs!Complete, Deserved
<1>2. result'[t] = v /\ \A u \in Thread \ {t} : call'[u] = call[u]
  BY DEF TypeOK, Return
<1>3. QED
  BY <1>1, <1>2

\* The steps that end a call of t, and the others.
LEMMA EndOrGoOn ==
  ASSUME CoreInv, [Next]_vars
  PROVE  \/ \E t \in Thread : pc[t] # "idle" /\ \E v \in LocalError : Return(t, v)
         \/ \E t \in Thread : Finish(t)
         \/ \E t \in Thread, c \in Cmd : Call(t, c)
         \/ \E m \in toDev : \E ret \in LegalRet(m.cmd, Ret) : DeviceParse(m, ret)
         \/ UNCHANGED history
<1>1. ASSUME NEW t \in Thread, PrepareWait(t) \/ FindBuffer(t)
      PROVE  UNCHANGED history \/ (pc[t] # "idle" /\ \E v \in LocalError : Return(t, v))
  BY <1>1 DEF PrepareWait, FindBuffer, At, LocalError
<1>2. ASSUME NEW t \in Thread,
             TakeNumber(t) \/ ReadNumber(t) \/ Send(t) \/ Unlink(t) \/ Oops(t)
               \/ \E why \in {"reply", "signal", "timeout"} : WakeUp(t, why)
      PROVE  UNCHANGED history
  BY <1>2 DEF TakeNumber, ReadNumber, Send, Unlink, WakeUp, Oops
<1>3. ASSUME \/ \E m \in toApp : Receive(m)
             \/ Notify
             \/ \E m \in toDev : Lose(m)
             \/ Deinit \/ DeinitFlush \/ DeinitClear \/ AppInit \/ Exhausted \/ UNCHANGED vars
      PROVE  UNCHANGED history
  BY <1>3 DEF Receive, Notify, Lose, Deinit, DeinitFlush, DeinitClear, AppInit, Exhausted, vars
<1>4. QED
  BY <1>1, <1>2, <1>3 DEF Next, Step

LEMMA ReturnsOwnStep ==
  ASSUME CoreInv, RefInv, [Next]_vars, NEW t \in Thread, call[t] # NoCall, call'[t] = NoCall,
         ~Dangles(t)
  PROVE  result'[t] \in Deserved(t)
<1>1. TypeOK
  BY DEF CoreInv
<1>2. ASSUME NEW u \in Thread, pc[u] # "idle", NEW v \in LocalError, Return(u, v)
      PROVE  result'[t] \in Deserved(t)
  BY <1>1, <1>2, ReturnStep DEF Deserved
<1>3. ASSUME NEW u \in Thread, Finish(u) PROVE result'[t] \in Deserved(t)
  <2>1. pc[u] # "idle" /\ \E v : Return(u, v)
    BY <1>3 DEF Finish, At
  <2>2. u = t
    BY <1>1, <2>1 DEF Return, TypeOK
  <2>3. QED
    BY <1>1, <1>3, <2>1, <2>2, FinishValue, ReturnStep
<1>4. ASSUME NEW u \in Thread, NEW c \in Cmd, Call(u, c) PROVE FALSE
  <2>1. call' = [call EXCEPT ![u] = [id |-> calls', cmd |-> c]] /\ calls' \in Nat
    BY <1>1, <1>4 DEF Call, TypeOK
  <2>2. call'[t] \in CallInfo
    BY <1>1, <2>1 DEF TypeOK, CallInfo
  <2>3. QED
    BY <2>2, KernelAssumption
<1>5. QED
  BY <1>2, <1>3, <1>4, EndOrGoOn DEF DeviceParse, history

\* Whatever deinit does to the buffers of calls in progress, a call whose own buffer
\* was not freed under it returns what its callback returned, or an error of its own
\* side, for as long as a free number is found for each call.
THEOREM CallsReturnOwn == Spec /\ []NumberFree => ReturnsOwn
<1>1. CoreInv /\ RefInv /\ [Next]_vars =>
        [\A t \in Thread : call[t] # NoCall /\ call'[t] = NoCall /\ ~Dangles(t)
                             => result'[t] \in Deserved(t)]_vars
  BY ReturnsOwnStep
<1>2. QED
  BY <1>1, RefInvariant, PTL DEF Spec, ReturnsOwn

-----------------------------------------------------------------------------
(* The steps of IcapKernel as steps of IcapCall. *)

LEMMA AbsNext ==
  ASSUME 0 \in Ret, CoreInv, RefInv, NoDangling, [Next]_vars
  PROVE  [Abs!Next]_(Abs!vars)
<1> SUFFICES Abs!Next \/ UNCHANGED history
  BY DEF history, Abs!vars
<1>1. TypeOK
  BY DEF CoreInv
<1>2. ASSUME NEW t \in Thread, NEW c \in Cmd, Call(t, c) PROVE Abs!Issue(t, c)
  BY <1>1, <1>2 DEF Call, At, TypeOK, Abs!Issue
<1>3. ASSUME NEW t \in Thread, pc[t] # "idle", NEW v \in LocalError, Return(t, v)
      PROVE  Abs!Complete(t)
  BY <1>1, <1>3, ReturnStep DEF Deserved
<1>4. ASSUME NEW t \in Thread, Finish(t) PROVE Abs!Complete(t)
  BY <1>1, <1>4, FinishValue, ReturnStep DEF Finish, At, NoDangling
<1>5. ASSUME NEW m \in toDev, NEW ret \in LegalRet(m.cmd, Ret), DeviceParse(m, ret) PROVE Abs!Next
  <2>1. m.id \in 1..calls /\ \A r \in ran : r.id # m.id
    BY DEF RefInv, IdInv, OnceInv
  <2>2. m.cmd \in DeviceCmd /\ ret \in Ret
    BY <1>1, KernelAssumption DEF TypeOK, Request, LegalRet
  <2>3. DeviceRet(m.cmd, ret) \in Ret
    BY <2>2 DEF DeviceRet
  <2>4. Abs!Run(m.id, DeviceRet(m.cmd, ret))
    BY <1>5, <2>1 DEF DeviceParse, Abs!Run
  <2>5. QED
    BY <2>1, <2>3, <2>4 DEF Abs!Next
<1>6. QED
  BY <1>2, <1>3, <1>4, <1>5, EndOrGoOn DEF Abs!Next

\* Every call runs its callback at most once and returns what it returned or an error
\* of its own side, on any channel and after any number of calls: only a number that is
\* in use, or a buffer that deinit frees under its call, can break this ...
THEOREM FreeNumbersKeepPromise ==
  ASSUME 0 \in Ret
  PROVE  Spec /\ []NumberFree /\ []NoDangling => Implements
<1>1. Init => Abs!Init
  BY DEF Init, Abs!Init
<1>2. CoreInv /\ RefInv /\ NoDangling /\ [Next]_vars => [Abs!Next]_(Abs!vars)
  BY AbsNext
<1>3. QED
  BY <1>1, <1>2, RefInvariant, PTL DEF Spec, Implements, Abs!Spec

\* ... and so none does with up to 2^32 calls, a fresh channel for each session, and no
\* call in progress while the instance is deinitialised.
THEOREM KernelKeepsPromise ==
  ASSUME Quiesced, FreshChannel, MaxCalls <= SeqMod, 0 \in Ret
  PROVE  Spec => Implements
BY NumbersAreFree, BuffersAreLive, FreeNumbersKeepPromise, PTL
=============================================================================
