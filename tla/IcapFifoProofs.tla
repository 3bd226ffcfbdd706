---------------------------- MODULE IcapFifoProofs ----------------------------
(***************************************************************************)
(* Proofs about IcapFifo, for every size of the ring and every bound.      *)
(***************************************************************************)
EXTENDS IcapFifo, SequenceTheorems, TLAPS

\* The messages in the ring are distinct and older than the one being put; the
\* slot after head is free while a message is put, and the one after tail is in
\* use while icap_loop works on it.
RingInv ==
  /\ put # "idle" => received # 0 /\ Following(head) # tail
  /\ put = "publish" => slot[Following(head)] = received
  /\ \A i \in Used : slot[i] \in 1..received /\ (put # "idle" => slot[i] # received)
  /\ \A i, j \in Used : slot[i] = slot[j] => i = j
  /\ loop # "idle" => tail # head
  /\ handling = IF loop \in {"release", "advance"} THEN slot[Following(tail)] ELSE 0
  /\ boot = "clear" => loop = "idle" /\ (Quiet => put = "idle" /\ head = tail)

\* Every message in the ring, and the one being put, still has its buffer.
HeldInv ==
  /\ put # "idle" => received \in held
  /\ \A i \in Used : slot[i] \in held \/ (loop = "advance" /\ i = Following(tail))
  /\ Quiet => HeldExact

IInv == TypeOK /\ RingInv /\ HeldInv

-----------------------------------------------------------------------------
(* The ring. *)

LEMMA FollowingType ==
  ASSUME NEW i \in Index
  PROVE  Following(i) \in Index /\ Following(i) # i
BY FifoAssumption DEF Index, Following

LEMMA EmptyRing ==
  ASSUME head \in Index, tail = head
  PROVE  Used = {}
BY DEF Used, Index

\* Advancing head adds the slot after head.
LEMMA UsedPublish ==
  ASSUME head \in Index, tail \in Index, Following(head) # tail
  PROVE  /\ Following(head) \notin Used
         /\ head' = Following(head) /\ tail' = tail => Used' = Used \cup {Following(head)}
BY FifoAssumption DEF Used, Index, Following

\* Advancing tail removes the slot after tail.
LEMMA UsedAdvance ==
  ASSUME head \in Index, tail \in Index, head # tail
  PROVE  /\ Following(tail) \in Used
         /\ tail' = Following(tail) /\ head' = head => Used' = Used \ {Following(tail)}
BY FifoAssumption DEF Used, Index, Following

LEMMA InitIInv == Init => IInv
<1> SUFFICES ASSUME Init PROVE IInv
  OBVIOUS
<1>1. TypeOK
  BY FifoAssumption DEF Init, TypeOK, Index
<1>2. Used = {}
  BY <1>1, EmptyRing DEF Init, TypeOK
<1>3. RingInv
  BY <1>2 DEF Init, RingInv
<1>4. HeldInv
  BY <1>2 DEF Init, HeldInv, HeldExact, Linked
<1>5. QED
  BY <1>1, <1>3, <1>4 DEF IInv

LEMMA NextIInv == IInv /\ [Next]_vars => IInv'
<1> SUFFICES ASSUME TypeOK, RingInv, HeldInv, [Next]_vars
             PROVE  TypeOK' /\ RingInv' /\ HeldInv'
  BY DEF IInv
<1> USE FifoAssumption
<1>a. head \in Index /\ tail \in Index /\ Following(head) \in Index /\ Following(tail) \in Index
  BY FollowingType DEF TypeOK
<1>b. loop # "idle" => Following(tail) \in Used /\ slot[Following(tail)] \in 1..received
  BY <1>a, UsedAdvance DEF RingInv
<1>c. put # "idle" => Following(head) \notin Used
  BY <1>a, UsedPublish DEF RingInv
<1>1. CASE Drop
  <2>1. Used' = Used
    BY <1>1 DEF Drop, ring, Used
  <2>2. TypeOK'
    BY <1>1 DEF Drop, ring, TypeOK, RingInv
  <2>3. RingInv'
    BY <1>1, <2>1 DEF Drop, ring, TypeOK, RingInv, MainRuns
  <2>4. HeldInv'
    BY <1>1, <2>1 DEF Drop, ring, TypeOK, RingInv, HeldInv, HeldExact, Linked, MainRuns
  <2>5. QED
    BY <2>2, <2>3, <2>4
<1>2. CASE Accept
  <2>1. Used' = Used
    BY <1>2 DEF Accept, ring, Used
  <2>2. TypeOK'
    BY <1>2 DEF Accept, ring, TypeOK, RingInv
  <2>3. RingInv'
    BY <1>2, <2>1 DEF Accept, ring, TypeOK, RingInv, MainRuns
  <2>4. HeldInv'
    <3>1. /\ put' # "idle" => received' \in held'
          /\ \A i \in Used' : slot'[i] \in held' \/ (loop' = "advance" /\ i = Following(tail'))
      BY <1>2, <2>1, <1>a, <1>b, <1>c DEF Accept, ring, TypeOK, RingInv, HeldInv
    <3>2. ASSUME Quiet PROVE HeldExact'
      <4>1. HeldExact
        BY <3>2 DEF HeldInv
      <4>2. QED
        BY <4>1, <1>2, <2>1, <1>a, <1>b, <1>c DEF Accept, ring, TypeOK, RingInv, HeldExact, Linked
    <3>3. QED
      BY <3>1, <3>2 DEF HeldInv
  <2>5. QED
    BY <2>2, <2>3, <2>4
<1>3. CASE PutFill
  <2>1. Used' = Used
    BY <1>3 DEF PutFill, ring, Used
  <2>2. TypeOK'
    BY <1>3 DEF PutFill, ring, TypeOK, RingInv
  <2>3. RingInv'
    BY <1>3, <2>1, <1>a, <1>b, <1>c DEF PutFill, TypeOK, RingInv
  <2>4. HeldInv'
    <3>1. /\ put' # "idle" => received' \in held'
          /\ \A i \in Used' : slot'[i] \in held' \/ (loop' = "advance" /\ i = Following(tail'))
      BY <1>3, <2>1, <1>a, <1>b, <1>c DEF PutFill, ring, TypeOK, RingInv, HeldInv
    <3>2. ASSUME Quiet PROVE HeldExact'
      <4>1. HeldExact
        BY <3>2 DEF HeldInv
      <4>2. QED
        BY <4>1, <1>3, <2>1, <1>a, <1>b, <1>c DEF PutFill, ring, TypeOK, RingInv, HeldExact, Linked
    <3>3. QED
      BY <3>1, <3>2 DEF HeldInv
  <2>5. QED
    BY <2>2, <2>3, <2>4
<1>4. CASE PutPublish
  <2>1. Following(head) \in Index /\ Following(head) \notin Used
        /\ Used' = Used \cup {Following(head)}
    BY <1>4, FollowingType, UsedPublish DEF PutPublish, TypeOK, RingInv
  <2>2. TypeOK'
    BY <1>4, <1>a DEF PutPublish, TypeOK
  <2>3. RingInv'
    BY <1>4, <2>1 DEF PutPublish, ring, TypeOK, RingInv, MainRuns
  <2>4. HeldInv'
    BY <1>4, <2>1 DEF PutPublish, ring, TypeOK, RingInv, HeldInv, HeldExact, Linked, MainRuns
  <2>5. QED
    BY <2>2, <2>3, <2>4
<1>5. CASE LoopBegin
  <2>1. Used' = Used
    BY <1>5 DEF LoopBegin, ring, Used
  <2>2. TypeOK'
    BY <1>5 DEF LoopBegin, ring, TypeOK, RingInv
  <2>3. RingInv'
    BY <1>5, <2>1 DEF LoopBegin, ring, TypeOK, RingInv, MainRuns
  <2>4. HeldInv'
    BY <1>5, <2>1 DEF LoopBegin, ring, TypeOK, RingInv, HeldInv, HeldExact, Linked, MainRuns
  <2>5. QED
    BY <2>2, <2>3, <2>4
<1>6. CASE LoopParse
  <2>1. Used' = Used
    BY <1>6 DEF LoopParse, ring, Used
  <2>2. TypeOK'
    <3>1. handling' \in 1..MaxMsgs
      BY <1>6, <1>b DEF LoopParse, TypeOK
    <3>2. parsed' \in Seq(1..MaxMsgs)
      <4>1. parsed \in Seq(1..MaxMsgs)
        BY DEF TypeOK
      <4>2. Append(parsed, handling') \in Seq(1..MaxMsgs)
        BY <3>1, <4>1
      <4>3. QED
        BY <1>6, <4>1, <4>2 DEF LoopParse
    <3>3. QED
      BY <1>6, <3>1, <3>2 DEF LoopParse, ring, TypeOK
  <2>3. RingInv'
    BY <1>6, <2>1 DEF LoopParse, ring, TypeOK, RingInv, MainRuns
  <2>4. HeldInv'
    BY <1>6, <2>1 DEF LoopParse, ring, TypeOK, RingInv, HeldInv, HeldExact, Linked, MainRuns
  <2>5. QED
    BY <2>2, <2>3, <2>4
<1>7. CASE LoopRelease
  <2>1. Used' = Used
    BY <1>7 DEF LoopRelease, ring, Used
  <2>2. TypeOK'
    BY <1>7 DEF LoopRelease, ring, TypeOK, RingInv
  <2>3. RingInv'
    BY <1>7, <2>1 DEF LoopRelease, ring, TypeOK, RingInv, MainRuns
  <2>4. HeldInv'
    <3>1. /\ put' # "idle" => received' \in held'
          /\ \A i \in Used' : slot'[i] \in held' \/ (loop' = "advance" /\ i = Following(tail'))
      BY <1>7, <2>1, <1>a, <1>b, <1>c DEF LoopRelease, ring, TypeOK, RingInv, HeldInv
    <3>2. ASSUME Quiet PROVE HeldExact'
      <4>1. HeldExact
        BY <3>2 DEF HeldInv
      <4>2. QED
        BY <4>1, <1>7, <2>1, <1>a, <1>b, <1>c DEF LoopRelease, ring, TypeOK, RingInv, HeldExact, Linked
    <3>3. QED
      BY <3>1, <3>2 DEF HeldInv
  <2>5. QED
    BY <2>2, <2>3, <2>4
<1>8. CASE LoopAdvance
  <2>1. Following(tail) \in Used /\ Used' = Used \ {Following(tail)}
    BY <1>8, UsedAdvance DEF LoopAdvance, TypeOK, RingInv
  <2>2. TypeOK'
    BY <1>8, <1>a DEF LoopAdvance, TypeOK
  <2>3. RingInv'
    BY <1>8, <2>1, <1>a, <1>b, <1>c DEF LoopAdvance, ring, TypeOK, RingInv, MainRuns
  <2>4. HeldInv'
    BY <1>8, <2>1 DEF LoopAdvance, ring, TypeOK, RingInv, HeldInv, HeldExact, Linked, MainRuns
  <2>5. QED
    BY <2>2, <2>3, <2>4
<1>9. CASE InitCallbacks
  <2>1. Used' = Used
    BY <1>9 DEF InitCallbacks, ring, Used
  <2>2. TypeOK'
    BY <1>9 DEF InitCallbacks, ring, TypeOK, RingInv
  <2>3. RingInv'
    BY <1>9, <2>1 DEF InitCallbacks, ring, TypeOK, RingInv, MainRuns
  <2>4. HeldInv'
    BY <1>9, <2>1 DEF InitCallbacks, ring, TypeOK, RingInv, HeldInv, HeldExact, Linked, MainRuns
  <2>5. QED
    BY <2>2, <2>3, <2>4
<1>10. CASE InitClear
  <2>1. Used' = {}
    BY <1>10 DEF InitClear, Used, Index
  <2>2. TypeOK'
    BY <1>10 DEF InitClear, TypeOK, Index
  <2>3. RingInv'
    BY <1>10, <2>1 DEF InitClear, ring, TypeOK, RingInv, MainRuns
  <2>4. HeldInv'
    <3>1. loop = "idle" /\ loop' = "idle" /\ put = "idle" /\ put' = "idle" /\ held' = held
      BY <1>10 DEF InitClear, RingInv, MainRuns
    <3>2. ASSUME Quiet PROVE HeldExact'
      <4>1. held = {}
        BY <1>a, <3>1, <3>2, EmptyRing, <1>10 DEF InitClear, RingInv, HeldInv, HeldExact, Linked
      <4>2. QED
        BY <2>1, <3>1, <4>1 DEF HeldExact, Linked
    <3>3. QED
      BY <2>1, <3>1, <3>2 DEF HeldInv
  <2>5. QED
    BY <2>2, <2>3, <2>4
<1>11. CASE Deinit
  <2>1. Used' = Used
    BY <1>11 DEF Deinit, ring, Used
  <2>2. TypeOK'
    BY <1>11 DEF Deinit, ring, TypeOK, RingInv
  <2>3. RingInv'
    BY <1>11, <2>1 DEF Deinit, ring, TypeOK, RingInv, MainRuns
  <2>4. HeldInv'
    BY <1>11, <2>1 DEF Deinit, ring, TypeOK, RingInv, HeldInv, HeldExact, Linked, MainRuns
  <2>5. QED
    BY <2>2, <2>3, <2>4
<1>12. CASE UNCHANGED vars
  <2>1. Used' = Used
    BY <1>12 DEF vars, ring, Used
  <2>2. TypeOK'
    BY <1>12 DEF vars, ring, TypeOK, RingInv
  <2>3. RingInv'
    BY <1>12, <2>1 DEF vars, ring, TypeOK, RingInv, MainRuns
  <2>4. HeldInv'
    BY <1>12, <2>1 DEF vars, ring, TypeOK, RingInv, HeldInv, HeldExact, Linked, MainRuns
  <2>5. QED
    BY <2>2, <2>3, <2>4
<1>13. QED
  BY <1>1, <1>2, <1>3, <1>4, <1>5, <1>6, <1>7, <1>8, <1>9, <1>10, <1>11, <1>12
     DEF Next, Put, Loop, Exhausted

-----------------------------------------------------------------------------
(* The theorems. *)

LEMMA Invariance == Spec => []IInv
BY InitIInv, NextIInv, PTL DEF Spec

\* The variables keep their types: no index leaves the ring.
THEOREM TypeCorrect == Spec => []TypeOK
<1>1. IInv => TypeOK
  BY DEF IInv
<1>2. QED
  BY <1>1, Invariance, PTL

\* icap_put_msg never overwrites the slot icap_loop is working on, and a buffer
\* is given back once.
THEOREM SlotsAreStable == Spec => []SlotStable
<1>1. IInv => SlotStable
  <2> SUFFICES ASSUME IInv, loop = "release"
               PROVE  handling = slot[Following(tail)] /\ handling \in held
    BY DEF SlotStable
  <2>1. Following(tail) \in Used
    BY UsedAdvance DEF IInv, TypeOK, RingInv
  <2>2. QED
    BY <2>1 DEF IInv, RingInv, HeldInv
<1>2. QED
  BY <1>1, Invariance, PTL

\* When nothing is received during an initialisation and the FIFO is empty
\* before it, icap holds exactly the buffers of the messages it has to parse.
THEOREM BuffersAreAccountedFor ==
  ASSUME Quiet
  PROVE  Spec => []HeldExact
<1>1. IInv => HeldExact
  BY DEF IInv, HeldInv
<1>2. QED
  BY <1>1, Invariance, PTL

\* So a message that icap_put_msg accepted stays in the ring until icap_loop handles
\* it: what is received during an initialisation is all that can be forgotten.
THEOREM NothingForgotten ==
  ASSUME Quiet
  PROVE  Spec => []Saved
<1>1. HeldExact => Saved
  BY DEF HeldExact, Saved
<1>2. QED
  BY <1>1, BuffersAreAccountedFor, PTL
-----------------------------------------------------------------------------
(* The ring implements the queue of IcapQueue. *)

\* Count, Place and Contents of a ring with these indices and slots.
CountOf(h, t) == IF h >= t THEN h - t ELSE h + QueueSize - t
PlaceOf(t, i) == IF t + i >= QueueSize THEN t + i - QueueSize ELSE t + i
ContentsOf(h, t, s) == [i \in 1..CountOf(h, t) |-> s[PlaceOf(t, i)]]

LEMMA ContentsAre == Contents = ContentsOf(head, tail, slot) /\ Count = CountOf(head, tail)
BY DEF Contents, Count, Place, ContentsOf, CountOf, PlaceOf

LEMMA CountType ==
  ASSUME NEW h \in Index, NEW t \in Index
  PROVE  /\ CountOf(h, t) \in 0..(QueueSize - 1)
         /\ CountOf(h, t) = 0 <=> h = t
         /\ CountOf(h, t) = QueueSize - 1 <=> Following(h) = t
         /\ \A i \in 1..CountOf(h, t) : PlaceOf(t, i) \in Index
         /\ \A i \in 1..CountOf(h, t) : Following(h) # t => PlaceOf(t, i) # Following(h)
BY FifoAssumption DEF CountOf, PlaceOf, Following, Index

\* Advancing head.
LEMMA CountPublish ==
  ASSUME NEW h \in Index, NEW t \in Index, Following(h) # t
  PROVE  /\ CountOf(Following(h), t) = CountOf(h, t) + 1
         /\ PlaceOf(t, CountOf(h, t) + 1) = Following(h)
BY FifoAssumption DEF CountOf, PlaceOf, Following, Index

\* Advancing tail.
LEMMA CountAdvance ==
  ASSUME NEW h \in Index, NEW t \in Index, h # t
  PROVE  /\ CountOf(h, Following(t)) = CountOf(h, t) - 1
         /\ PlaceOf(t, 1) = Following(t)
         /\ \A i \in 1..(CountOf(h, t) - 1) : PlaceOf(Following(t), i) = PlaceOf(t, i + 1)
BY FifoAssumption DEF CountOf, PlaceOf, Following, Index

LEMMA ContentsType ==
  ASSUME NEW h \in Index, NEW t \in Index, NEW s \in [Index -> Nat]
  PROVE  /\ ContentsOf(h, t, s) \in Seq(Nat)
         /\ Len(ContentsOf(h, t, s)) = CountOf(h, t)
         /\ \A i \in 1..CountOf(h, t) : ContentsOf(h, t, s)[i] = s[PlaceOf(t, i)]
<1> DEFINE n == CountOf(h, t)
           c == ContentsOf(h, t, s)
<1>1. n \in Nat /\ \A i \in 1..n : PlaceOf(t, i) \in Index
  BY CountType, FifoAssumption
<1>2. c = [i \in 1..n |-> s[PlaceOf(t, i)]]
  BY DEF ContentsOf
<1> HIDE DEF n, c
<1>3. c \in [1..n -> Nat]
  BY <1>1, <1>2
<1>4. c \in Seq(Nat) /\ Len(c) = n
  BY <1>1, <1>3
<1>5. QED
  BY <1>2, <1>4 DEF n, c

\* A slot outside the ring may be filled, ...
LEMMA ContentsFill ==
  ASSUME NEW h \in Index, NEW t \in Index, NEW s \in [Index -> Nat], Following(h) # t,
         NEW r, \A i \in Index \ {Following(h)} : r[i] = s[i]
  PROVE  ContentsOf(h, t, r) = ContentsOf(h, t, s)
<1>1. \A i \in 1..CountOf(h, t) : r[PlaceOf(t, i)] = s[PlaceOf(t, i)]
  BY CountType
<1>2. QED
  BY <1>1 DEF ContentsOf

\* ... becomes the newest message when head advances, ...
LEMMA ContentsPublish ==
  ASSUME NEW h \in Index, NEW t \in Index, NEW s \in [Index -> Nat], Following(h) # t
  PROVE  ContentsOf(Following(h), t, s) = Append(ContentsOf(h, t, s), s[Following(h)])
<1> DEFINE c == ContentsOf(h, t, s)
           d == ContentsOf(Following(h), t, s)
           n == CountOf(h, t)
<1>1. /\ Following(h) \in Index /\ n \in Nat /\ s[Following(h)] \in Nat
      /\ CountOf(Following(h), t) = n + 1 /\ PlaceOf(t, n + 1) = Following(h)
  BY FollowingType, CountType, CountPublish, FifoAssumption
<1>2. c \in Seq(Nat) /\ Len(c) = n /\ \A i \in 1..n : c[i] = s[PlaceOf(t, i)]
  BY ContentsType
<1>a. /\ d \in Seq(Nat) /\ Len(d) = CountOf(Following(h), t)
      /\ \A i \in 1..CountOf(Following(h), t) : d[i] = s[PlaceOf(t, i)]
  BY <1>1, ContentsType
<1> HIDE DEF c, d, n
<1>3. d \in Seq(Nat) /\ Len(d) = n + 1 /\ \A i \in 1..(n + 1) : d[i] = s[PlaceOf(t, i)]
  BY <1>1, <1>a
<1>4. \A i \in 1..(n + 1) : d[i] = Append(c, s[Following(h)])[i]
  BY <1>1, <1>2, <1>3
<1>5. Append(c, s[Following(h)]) \in Seq(Nat) /\ Len(Append(c, s[Following(h)])) = n + 1
  BY <1>1, <1>2
<1>6. d = Append(c, s[Following(h)])
  BY <1>3, <1>4, <1>5, SeqEqual
<1>7. QED
  BY <1>6 DEF c, d

\* ... and the oldest one goes when tail does.
LEMMA ContentsAdvance ==
  ASSUME NEW h \in Index, NEW t \in Index, NEW s \in [Index -> Nat], h # t
  PROVE  /\ ContentsOf(h, t, s) \in Seq(Nat) /\ ContentsOf(h, t, s) # <<>>
         /\ Head(ContentsOf(h, t, s)) = s[Following(t)]
         /\ ContentsOf(h, Following(t), s) = Tail(ContentsOf(h, t, s))
<1> DEFINE c == ContentsOf(h, t, s)
           d == ContentsOf(h, Following(t), s)
           n == CountOf(h, t)
<1>1. /\ Following(t) \in Index /\ n \in Nat /\ n # 0
      /\ CountOf(h, Following(t)) = n - 1 /\ PlaceOf(t, 1) = Following(t)
      /\ \A i \in 1..(n - 1) : PlaceOf(Following(t), i) = PlaceOf(t, i + 1)
  BY FollowingType, CountType, CountAdvance, FifoAssumption
<1>2. c \in Seq(Nat) /\ Len(c) = n /\ \A i \in 1..n : c[i] = s[PlaceOf(t, i)]
  BY ContentsType
<1>a. /\ d \in Seq(Nat) /\ Len(d) = CountOf(h, Following(t))
      /\ \A i \in 1..CountOf(h, Following(t)) : d[i] = s[PlaceOf(Following(t), i)]
  BY <1>1, ContentsType
<1> HIDE DEF c, d, n
<1>3. d \in Seq(Nat) /\ Len(d) = n - 1 /\ \A i \in 1..(n - 1) : d[i] = s[PlaceOf(Following(t), i)]
  BY <1>1, <1>a
<1>4. c # <<>> /\ Head(c) = s[Following(t)]
  BY <1>1, <1>2
<1>5. Tail(c) \in Seq(Nat) /\ Len(Tail(c)) = n - 1 /\ \A i \in 1..(n - 1) : Tail(c)[i] = c[i + 1]
  BY <1>1, <1>2, <1>4
<1>6. \A i \in 1..(n - 1) : d[i] = Tail(c)[i]
  <2>1. SUFFICES ASSUME NEW i \in 1..(n - 1)
                 PROVE  d[i] = Tail(c)[i]
    OBVIOUS
  <2>2. i + 1 \in 1..n
    BY <1>1
  <2>3. QED
    BY <1>1, <1>2, <1>3, <1>5, <2>2
<1>7. d = Tail(c)
  BY <1>3, <1>5, <1>6, SeqEqual
<1>8. QED
  BY <1>2, <1>4, <1>7 DEF c, d

\* The queue that IcapQueue sees.
Rest(hd, c) == IF hd = 0 THEN c ELSE Tail(c)
Queue == <<boot # "down", received, put # "idle", Rest(handling, Contents), handling, parsed,
           dropped>>

LEMMA AbsInit == Init => Abs!Init
<1> SUFFICES ASSUME Init PROVE Abs!Init
  OBVIOUS
<1>1. head \in Index /\ tail = head /\ slot \in [Index -> Nat]
  BY FifoAssumption DEF Init, Index
<1>2. Contents \in Seq(Nat) /\ Len(Contents) = 0
  BY <1>1, ContentsAre, ContentsType, CountType
<1>3. Contents = <<>>
  BY <1>2, EmptySeq
<1>4. QED
  BY <1>3 DEF Init, Abs!Init

LEMMA AbsNext ==
  ASSUME Quiet, IInv, [Next]_vars
  PROVE  Abs!Next \/ UNCHANGED Queue
<1> DEFINE c == Contents
           n == Count
<1>1. /\ head \in Index /\ tail \in Index /\ slot \in [Index -> Nat]
      /\ Following(head) \in Index /\ Following(tail) \in Index
  BY FollowingType, FifoAssumption DEF IInv, TypeOK
<1>2. /\ c \in Seq(Nat) /\ Len(c) = n /\ n \in 0..(QueueSize - 1)
      /\ c = ContentsOf(head, tail, slot)
      /\ n = 0 <=> head = tail
      /\ n = QueueSize - 1 <=> Following(head) = tail
  BY <1>1, ContentsAre, ContentsType, CountType
<1>3. /\ head # tail => /\ c # <<>> /\ Head(c) = slot[Following(tail)]
                        /\ ContentsOf(head, Following(tail), slot) = Tail(c)
      /\ Following(head) # tail =>
           ContentsOf(Following(head), tail, slot) = Append(c, slot[Following(head)])
  <2>1. c = ContentsOf(head, tail, slot)
    BY <1>2
  <2> HIDE DEF c
  <2>2. head # tail => /\ c # <<>> /\ Head(c) = slot[Following(tail)]
                       /\ ContentsOf(head, Following(tail), slot) = Tail(c)
    BY <1>1, <2>1, ContentsAdvance
  <2>3. Following(head) # tail =>
          ContentsOf(Following(head), tail, slot) = Append(c, slot[Following(head)])
    BY <1>1, <2>1, ContentsPublish
  <2>4. QED
    BY <2>2, <2>3
<1>4. /\ put # "idle" => Following(head) # tail
      /\ put = "publish" => slot[Following(head)] = received
      /\ loop # "idle" => head # tail
      /\ loop \in {"release", "advance"} <=> handling # 0
      /\ handling # 0 => handling = slot[Following(tail)]
      /\ head # tail => slot[Following(tail)] # 0
      /\ boot = "clear" => loop = "idle" /\ head = tail
  <2>1. head # tail => slot[Following(tail)] \in 1..received
    BY <1>1, UsedAdvance DEF IInv, RingInv
  <2>2. QED
    BY <2>1 DEF IInv, RingInv
<1>5. Contents' = ContentsOf(head', tail', slot')
  BY DEF Contents, Count, Place, ContentsOf, CountOf, PlaceOf
<1>6. Abs!Occupied = n
  <2>1. CASE handling = 0
    BY <1>2, <2>1 DEF Abs!Occupied
  <2>2. CASE handling # 0
    <3>1. c # <<>>
      BY <1>3, <1>4, <2>2
    <3>2. Len(Tail(c)) = n - 1 /\ n \in Nat \ {0}
      BY <1>2, <3>1, EmptySeq
    <3>3. QED
      BY <2>2, <3>2 DEF Abs!Occupied
  <2>3. QED
    BY <2>1, <2>2
<1> HIDE DEF c, n
<1>7. ASSUME UNCHANGED ring
      PROVE  Contents' = Contents
  BY <1>7 DEF ring, Contents, Count, Place
<1>8. CASE Drop
  <2>1. /\ put = "idle" /\ (boot # "down" => n = QueueSize - 1) /\ received' = received + 1
        /\ dropped' = dropped \cup {received'}
        /\ UNCHANGED <<boot, ring, put, handling, parsed>>
    BY <1>2, <1>8 DEF Drop
  <2>2. Contents' = Contents
    BY <1>7, <2>1
  <2>3. Abs!Refuse
    BY <1>6, <2>1, <2>2 DEF Abs!Refuse
  <2>4. QED
    BY <2>3 DEF Abs!Next
<1>9. CASE Accept
  <2>1. /\ put = "idle" /\ boot # "down" /\ n < QueueSize - 1 /\ received' = received + 1
        /\ put' # "idle" /\ UNCHANGED <<boot, ring, handling, parsed, dropped>>
    BY <1>2, <1>9, FifoAssumption DEF Accept
  <2>2. Contents' = Contents
    BY <1>7, <2>1
  <2>3. Abs!Receive
    BY <1>6, <2>1, <2>2 DEF Abs!Receive
  <2>4. QED
    BY <2>3 DEF Abs!Next
<1>10. CASE PutFill
  <2>1. /\ put # "idle" /\ put' # "idle" /\ slot' = [slot EXCEPT ![Following(head)] = received]
        /\ UNCHANGED <<boot, head, tail, handling, received, parsed, dropped>>
    BY <1>10 DEF PutFill
  <2>2. \A i \in Index \ {Following(head)} : slot'[i] = slot[i]
    BY <1>1, <2>1
  <2>3. ContentsOf(head, tail, slot') = ContentsOf(head, tail, slot)
    <3>1. Following(head) # tail
      BY <1>4, <2>1
    <3>2. QED
      BY ONLY <1>1, <2>2, <3>1, ContentsFill
  <2>4. Contents' = Contents
    BY <1>2, <1>5, <2>1, <2>3 DEF c
  <2>5. QED
    BY <2>1, <2>4 DEF Queue
<1>11. CASE PutPublish
  <2>1. /\ put = "publish" /\ put' = "idle" /\ head' = Following(head)
        /\ UNCHANGED <<boot, tail, slot, handling, received, parsed, dropped>>
    BY <1>11 DEF PutPublish
  <2>2. Contents' = Append(c, received) /\ received \in Nat
    BY <1>1, <1>3, <1>4, <1>5, <2>1
  <2>3. Rest(handling, Contents') = Append(Rest(handling, c), received)
    <3>1. CASE handling = 0
      BY <2>2, <3>1 DEF Rest
    <3>2. CASE handling # 0
      <4>1. c # <<>>
        BY <1>3, <1>4, <3>2
      <4>2. Tail(Append(c, received)) = Append(Tail(c), received)
        BY <1>2, <2>2, <4>1, HeadTailAppend
      <4>3. QED
        BY <2>2, <3>2, <4>2 DEF Rest
    <3>3. QED
      BY <3>1, <3>2
  <2>4. Abs!Accept
    BY <2>1, <2>3 DEF Abs!Accept, Rest, c
  <2>5. QED
    BY <2>4 DEF Abs!Next
<1>12. CASE LoopBegin \/ LoopRelease
  <2>1. UNCHANGED <<boot, ring, put, handling, received, parsed, dropped>>
    BY <1>12 DEF LoopBegin, LoopRelease
  <2>2. QED
    BY <1>7, <2>1 DEF Queue
<1>13. CASE LoopParse
  <2>1. /\ loop = "parse" /\ handling' = slot[Following(tail)]
        /\ parsed' = IF boot = "up" THEN Append(parsed, handling') ELSE parsed
        /\ UNCHANGED <<boot, ring, put, received, dropped>>
    BY <1>13 DEF LoopParse
  <2>2. /\ handling = 0 /\ handling' # 0 /\ c # <<>> /\ handling' = Head(c)
        /\ boot = "up" <=> boot # "down"
    BY <1>3, <1>4, <2>1 DEF IInv, TypeOK
  <2>3. Contents' = Contents
    BY <1>7, <2>1
  <2>4. Abs!Take
    BY <2>1, <2>2, <2>3 DEF Abs!Take, c
  <2>5. QED
    BY <2>4 DEF Abs!Next
<1>14. CASE LoopAdvance
  <2>1. /\ loop = "advance" /\ tail' = Following(tail) /\ handling' = 0
        /\ UNCHANGED <<boot, head, slot, put, received, parsed, dropped>>
    BY <1>14 DEF LoopAdvance
  <2>2. handling # 0 /\ Contents' = Tail(c)
    BY <1>3, <1>4, <1>5, <2>1
  <2>3. Abs!Finish
    BY <2>1, <2>2 DEF Abs!Finish, c
  <2>4. QED
    BY <2>3 DEF Abs!Next
<1>15. CASE InitCallbacks \/ Deinit
  <2>1. /\ loop = "idle" /\ (boot' # "down") = ~(boot # "down")
        /\ UNCHANGED <<ring, put, handling, received, parsed, dropped>>
    BY <1>15 DEF InitCallbacks, Deinit
  <2>2. handling = 0 /\ Contents' = Contents
    BY <1>4, <1>7, <2>1
  <2>3. Abs!OpenClose
    BY <2>1, <2>2 DEF Abs!OpenClose
  <2>4. QED
    BY <2>3 DEF Abs!Next
<1>16. CASE InitClear
  <2>1. /\ boot = "clear" /\ boot' = "up" /\ head' = 0 /\ tail' = 0
        /\ slot' = [i \in Index |-> 0]
        /\ UNCHANGED <<put, handling, received, parsed, dropped>>
    BY <1>16 DEF InitClear
  <2>2. c = <<>>
    BY <1>2, <1>4, <2>1, EmptySeq
  <2>3. ContentsOf(head', tail', slot') = <<>>
    <3>1. 0 \in Index /\ slot' \in [Index -> Nat]
      BY <2>1, FifoAssumption DEF Index
    <3>2. /\ ContentsOf(0, 0, slot') \in Seq(Nat)
          /\ Len(ContentsOf(0, 0, slot')) = 0
      BY <3>1, ContentsType, CountType
    <3>3. QED
      BY <2>1, <3>2, EmptySeq
  <2>4. Contents' = Contents
    BY <1>5, <2>2, <2>3 DEF c
  <2>5. QED
    BY <2>1, <2>4 DEF Queue
<1>17. CASE UNCHANGED vars
  BY <1>7, <1>17 DEF vars, Queue, ring
<1>18. QED
  BY <1>8, <1>9, <1>10, <1>11, <1>12, <1>13, <1>14, <1>15, <1>16, <1>17
  DEF Next, Put, Loop, Exhausted

\* icap_put_msg and icap_loop together are a bounded queue for every ring size: they
\* refuse a message only when QueueSize - 1 are in the ring, forget none and parse each
\* once, in order, when nothing is received during an initialisation and the first
\* finds the FIFO empty.
THEOREM RingIsQueue ==
  ASSUME Quiet
  PROVE  Spec => Implements
<1>1. IInv /\ [Next]_vars => [Abs!Next]_(Abs!vars)
  <2>1. UNCHANGED Queue => UNCHANGED Abs!vars
    BY DEF Queue, Rest, Abs!vars
  <2>2. QED
    BY <2>1, AbsNext
<1>2. QED
  BY <1>1, AbsInit, Invariance, PTL DEF Spec, Implements, Abs!Spec
=============================================================================
