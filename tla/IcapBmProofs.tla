----------------------------- MODULE IcapBmProofs -----------------------------
(***************************************************************************)
(* Proofs about IcapBm, for every ring size, every timeout and every set   *)
(* of commands and addresses.                                              *)
(***************************************************************************)
EXTENDS IcapBm, IcapMsgProofs, SequenceTheorems, TLAPS

Frame == CallFrame \cup LoopFrame

\* Calls and callbacks alternate on the stack, and only the topmost call can
\* have left its icap_loop.
StackInv ==
  \A i \in 1..(Len(stack) - 1) :
    /\ IsCall(stack[i]) <=> ~IsCall(stack[i + 1])
    /\ IsCall(stack[i]) => stack[i].at = "poll"

\* What becomes of a stack: frames stay in their places; a call may change its
\* place in the loop, and it may have waited longer by a member of D.
Keeps(f, g, D) ==
  IF IsCall(f) THEN \E at \in {"poll", "test"}, d \in D :
                      g = [f EXCEPT !.at = at, !.waited = f.waited + d]
               ELSE g = f

LEMMA FrameKinds ==
  ASSUME NEW f \in Frame
  PROVE  IF IsCall(f) THEN f \in CallFrame ELSE f \in LoopFrame
BY DEF Frame, CallFrame, LoopFrame, IsCall

LEMMA KeepsType ==
  ASSUME NEW f \in Frame, NEW D \in SUBSET Nat, NEW g, Keeps(f, g, D)
  PROVE  g \in Frame /\ (IsCall(g) <=> IsCall(f))
<1>1. CASE IsCall(f)
  <2>1. f \in CallFrame /\ f.waited \in Nat
    BY <1>1, FrameKinds DEF CallFrame
  <2>2. PICK at \in {"poll", "test"}, d \in D : g = [f EXCEPT !.at = at, !.waited = f.waited + d]
    BY <1>1 DEF Keeps
  <2>3. f.waited + d \in Nat
    BY <2>1, <2>2
  <2> DEFINE w == f.waited + d
  <2>4. w \in Nat /\ g = [f EXCEPT !.at = at, !.waited = w]
    BY <2>2, <2>3
  <2> HIDE DEF w
  <2>5. QED
    BY <1>1, <2>1, <2>2, <2>4 DEF CallFrame, Frame, IsCall
<1>2. CASE ~IsCall(f)
  BY <1>2 DEF Keeps
<1>3. QED
  BY <1>1, <1>2

LEMMA PrefixType ==
  ASSUME NEW S, NEW s \in Seq(S), NEW n \in Nat, n <= Len(s)
  PROVE  /\ SubSeq(s, 1, n) \in Seq(S)
         /\ Len(SubSeq(s, 1, n)) = n
         /\ \A i \in 1..n : SubSeq(s, 1, n)[i] = s[i]
OBVIOUS

LEMMA SubType ==
  ASSUME NEW s \in Seq(Frame), s # <<>>
  PROVE  /\ Len(s) \in Nat \ {0}
         /\ SubSeq(s, 1, Len(s) - 1) \in Seq(Frame)
         /\ Len(SubSeq(s, 1, Len(s) - 1)) = Len(s) - 1
         /\ \A i \in 1..(Len(s) - 1) : SubSeq(s, 1, Len(s) - 1)[i] = s[i]
         /\ \A i \in 1..Len(s) : s[i] \in Frame
<1>1. Len(s) \in Nat \ {0} /\ \A i \in 1..Len(s) : s[i] \in Frame
  BY EmptySeq, ElementOfSeq
<1> DEFINE n == Len(s) - 1
<1>2. n \in Nat /\ n <= Len(s) /\ n = Len(s) - 1
  BY <1>1
<1> HIDE DEF n
<1>3. /\ SubSeq(s, 1, n) \in Seq(Frame)
      /\ Len(SubSeq(s, 1, n)) = n
      /\ \A i \in 1..n : SubSeq(s, 1, n)[i] = s[i]
  BY <1>2, PrefixType
<1>4. QED
  BY <1>1, <1>2, <1>3

\* icap_loop returns to the call that polls.
LEMMA PolledType ==
  ASSUME NEW s \in Seq(Frame), s # <<>> => IsCall(s[Len(s)])
  PROVE  /\ Polled(s) \in Seq(Frame)
         /\ Len(Polled(s)) = Len(s)
         /\ \A i \in 1..(Len(s) - 1) : Polled(s)[i] = s[i]
         /\ s # <<>> => Polled(s)[Len(s)] = [s[Len(s)] EXCEPT !.at = "test"]
<1>1. CASE s = <<>>
  BY <1>1 DEF Polled
<1>2. CASE s # <<>>
  <2>1. Len(s) \in 1..Len(s) /\ s[Len(s)] \in CallFrame
    BY <1>2, FrameKinds
  <2>2. [s[Len(s)] EXCEPT !.at = "test"] \in Frame
    BY <2>1 DEF CallFrame, Frame
  <2>3. Polled(s) = [s EXCEPT ![Len(s)] = [s[Len(s)] EXCEPT !.at = "test"]]
    BY <1>2 DEF Polled
  <2>4. QED
    BY <1>2, <2>1, <2>2, <2>3
<1>3. QED
  BY <1>1, <1>2

-----------------------------------------------------------------------------
(* What the steps do to the stack. *)

StackOK == stack \in Seq(Frame) /\ StackInv

\* Nothing is pushed ...
Kept(D) == /\ Len(stack') <= Len(stack)
           /\ \A i \in 1..Len(stack') : Keeps(stack[i], stack'[i], D)

\* ... or only f is.
Pushed(f) == /\ Len(stack') = Len(stack) + 1
             /\ \A i \in 1..Len(stack) : stack'[i] = stack[i]
             /\ stack'[Len(stack')] = f

LEMMA TopType ==
  ASSUME StackOK, stack # <<>>
  PROVE  /\ Len(stack) \in Nat \ {0}
         /\ Top = stack[Len(stack)]
         /\ IF IsCall(Top) THEN Top \in CallFrame ELSE Top \in LoopFrame
BY SubType, FrameKinds DEF StackOK, Top

LEMMA KeepsWith ==
  ASSUME NEW f, IsCall(f), NEW at \in {"poll", "test"}, NEW D, NEW d \in D,
         NEW g, g = [f EXCEPT !.at = at, !.waited = f.waited + d]
  PROVE  Keeps(f, g, D)
BY DEF Keeps

LEMMA KeepsPlace ==
  ASSUME NEW f \in CallFrame, IsCall(f), NEW at \in {"poll", "test"}, NEW D, 0 \in D
  PROVE  Keeps(f, [f EXCEPT !.at = at], D)
<1> DEFINE g == [f EXCEPT !.at = at]
<1>1. f.waited \in Nat
  BY DEF CallFrame
<1>2. f.waited + 0 = f.waited
  BY <1>1
<1>3. g = [f EXCEPT !.at = at, !.waited = f.waited]
  BY DEF CallFrame
<1>4. g = [f EXCEPT !.at = at, !.waited = f.waited + 0]
  BY <1>2, <1>3
<1> HIDE DEF g
<1>5. Keeps(f, g, D)
  BY <1>4, KeepsWith
<1>6. QED
  BY <1>5 DEF g

LEMMA KeepsItself ==
  ASSUME NEW f \in Frame, NEW D, 0 \in D
  PROVE  Keeps(f, f, D)
<1>1. CASE IsCall(f)
  <2>1. f \in CallFrame /\ f.at \in {"poll", "test"} /\ f = [f EXCEPT !.at = f.at]
    BY <1>1, FrameKinds DEF CallFrame
  <2>2. Keeps(f, [f EXCEPT !.at = f.at], D)
    BY <1>1, <2>1, KeepsPlace
  <2>3. QED
    BY <2>1, <2>2
<1>2. QED
  BY <1>1 DEF Keeps

LEMMA StackSame ==
  ASSUME StackOK, stack' = stack
  PROVE  StackOK' /\ Kept({0})
<1>1. Len(stack) \in Nat /\ \A i \in 1..Len(stack) : stack[i] \in Frame
  BY ElementOfSeq, LenProperties DEF StackOK
<1>2. QED
  BY <1>1, KeepsItself DEF StackOK, StackInv, Kept

LEMMA StackPush ==
  ASSUME StackOK, NEW f \in Frame, stack' = Append(stack, f),
         stack # <<>> => /\ IsCall(Top) <=> ~IsCall(f)
                         /\ IsCall(Top) => Top.at = "poll"
  PROVE  StackOK' /\ Pushed(f)
<1>1. /\ stack' \in Seq(Frame)
      /\ Len(stack) \in Nat /\ Len(stack') = Len(stack) + 1
      /\ \A i \in 1..Len(stack) : stack'[i] = stack[i]
      /\ stack'[Len(stack) + 1] = f
  BY AppendProperties, LenProperties DEF StackOK
<1>2. Pushed(f)
  BY <1>1 DEF Pushed
<1>4. StackInv'
  <2>1. CASE stack = <<>>
    <3>1. Len(stack') = 1
      BY <1>1, <2>1
    <3>2. QED
      BY <3>1 DEF StackInv
  <2>2. CASE stack # <<>>
    BY <1>1, <2>2 DEF StackOK, StackInv, Top
  <2>3. QED
    BY <2>1, <2>2
<1>5. QED
  BY <1>1, <1>2, <1>4 DEF StackOK

LEMMA StackPop ==
  ASSUME StackOK, stack # <<>>, stack' = Below, NEW D, 0 \in D
  PROVE  /\ StackOK' /\ Kept(D)
         /\ Len(stack') = Len(stack) - 1
<1>1. /\ Len(stack) \in Nat \ {0}
      /\ stack' \in Seq(Frame) /\ Len(stack') = Len(stack) - 1
      /\ \A i \in 1..Len(stack') : stack'[i] = stack[i]
      /\ \A i \in 1..Len(stack) : stack[i] \in Frame
  BY SubType DEF StackOK, Below
<1>2. Kept(D)
  BY <1>1, KeepsItself DEF Kept
<1>3. StackInv
  BY DEF StackOK
<1>4. StackInv'
  <2>1. SUFFICES ASSUME NEW i \in 1..(Len(stack') - 1)
                 PROVE  /\ IsCall(stack'[i]) <=> ~IsCall(stack'[i + 1])
                        /\ IsCall(stack'[i]) => stack'[i].at = "poll"
    BY DEF StackInv, IsCall
  <2>2. /\ i \in 1..(Len(stack) - 1)
        /\ stack'[i] = stack[i] /\ stack'[i + 1] = stack[i + 1]
    BY <1>1
  <2>3. QED
    BY <1>3, <2>2 DEF StackInv
<1>5. StackOK'
  BY <1>1, <1>4 DEF StackOK
<1>6. QED
  BY <1>1, <1>2, <1>5

\* The topmost frame is a call, and its place or the time it waited changes.
LEMMA StackTop ==
  ASSUME StackOK, stack # <<>>, IsCall(Top), NEW D \in SUBSET Nat, 0 \in D, NEW g, Keeps(Top, g, D),
         stack' = Append(Below, g)
  PROVE  /\ StackOK' /\ Kept(D)
         /\ Len(stack') = Len(stack)
         /\ stack'[Len(stack)] = g
<1>1. /\ Len(stack) \in Nat \ {0}
      /\ Below \in Seq(Frame) /\ Len(Below) = Len(stack) - 1
      /\ \A i \in 1..(Len(stack) - 1) : Below[i] = stack[i]
      /\ \A i \in 1..Len(stack) : stack[i] \in Frame
  BY SubType DEF StackOK, Below
<1>2. Top \in Frame /\ Top = stack[Len(stack)]
  BY <1>1 DEF Top
<1>3. g \in Frame /\ IsCall(g)
  BY <1>2, KeepsType
<1>4. /\ stack' \in Seq(Frame) /\ Len(stack') = Len(stack)
      /\ \A i \in 1..(Len(stack) - 1) : stack'[i] = stack[i]
      /\ stack'[Len(stack)] = g
  BY <1>1, <1>3, AppendProperties
<1>5. Kept(D)
  BY <1>1, <1>2, <1>4, KeepsItself DEF Kept
<1>6. StackInv'
  <2>1. SUFFICES ASSUME NEW i \in 1..(Len(stack') - 1)
                 PROVE  /\ IsCall(stack'[i]) <=> ~IsCall(stack'[i + 1])
                        /\ IsCall(stack'[i]) => stack'[i].at = "poll"
    BY DEF StackInv, IsCall
  <2>2. i \in 1..(Len(stack) - 1) /\ stack'[i] = stack[i]
    BY <1>1, <1>4
  <2>3. IsCall(stack'[i + 1]) <=> IsCall(stack[i + 1])
    BY <1>1, <1>2, <1>3, <1>4, <2>2
  <2>4. QED
    BY <2>2, <2>3 DEF StackOK, StackInv
<1>7. StackOK'
  BY <1>4, <1>6 DEF StackOK
<1>8. QED
  BY <1>4, <1>5, <1>7

\* icap_loop returns to the main loop or to the call that polls.
LEMMA StackPolled ==
  ASSUME StackOK, CanPoll, stack' = Polled(stack)
  PROVE  /\ StackOK' /\ Kept({0})
         /\ Len(stack') = Len(stack)
<1>1. /\ stack \in Seq(Frame) /\ Len(stack) \in Nat
      /\ \A i \in 1..Len(stack) : stack[i] \in Frame
      /\ stack # <<>> => Len(stack) # 0 /\ IsCall(stack[Len(stack)])
  BY ElementOfSeq, LenProperties, EmptySeq DEF StackOK, CanPoll, Calling, Top
<1>2. /\ stack' \in Seq(Frame) /\ Len(stack') = Len(stack)
      /\ \A i \in 1..(Len(stack) - 1) : stack'[i] = stack[i]
      /\ stack # <<>> => stack'[Len(stack)] = [stack[Len(stack)] EXCEPT !.at = "test"]
  BY <1>1, PolledType
<1>3. stack # <<>> => Keeps(stack[Len(stack)], stack'[Len(stack)], {0})
  <2>1. SUFFICES ASSUME stack # <<>>
                 PROVE  Keeps(stack[Len(stack)], stack'[Len(stack)], {0})
    OBVIOUS
  <2>2. PICK f \in CallFrame : f = stack[Len(stack)] /\ IsCall(f)
    BY <1>1, <2>1, FrameKinds
  <2>3. Keeps(f, [f EXCEPT !.at = "test"], {0})
    BY <2>2, KeepsPlace
  <2>4. QED
    BY <1>2, <2>1, <2>2, <2>3
<1>4. Kept({0})
  <2>1. CASE stack = <<>>
    BY <1>2, <2>1, EmptySeq DEF Kept
  <2>2. CASE stack # <<>>
    BY <1>1, <1>2, <1>3, <2>2, KeepsItself DEF Kept
  <2>3. QED
    BY <2>1, <2>2
<1>5. StackInv'
  <2>1. CASE stack = <<>>
    BY <1>2, <2>1, EmptySeq DEF StackInv
  <2>2. CASE stack # <<>>
    <3>1. IsCall(stack'[Len(stack)])
      BY <1>1, <1>3, <2>2, KeepsType
    <3>2. QED
      BY <1>1, <1>2, <2>2, <3>1 DEF StackOK, StackInv
  <2>3. QED
    BY <2>1, <2>2
<1>6. QED
  BY <1>2, <1>4, <1>5 DEF StackOK

\* icap_loop returns from a callback.
LEMMA StackReturn ==
  ASSUME StackOK, InCallback, stack' = Polled(Below)
  PROVE  /\ StackOK' /\ Kept({0})
         /\ Len(stack') = Len(stack) - 1
<1> DEFINE n == Len(stack) - 1
<1>1. /\ Len(stack) \in Nat \ {0} /\ n \in Nat /\ Len(stack) = n + 1
      /\ Below \in Seq(Frame) /\ Len(Below) = n
      /\ \A i \in 1..n : Below[i] = stack[i]
      /\ \A i \in 1..Len(stack) : stack[i] \in Frame
      /\ ~IsCall(stack[n + 1])
  BY SubType DEF StackOK, Below, InCallback, Top
<1> HIDE DEF n
<1>2. n # 0 => IsCall(stack[n])
  BY <1>1 DEF StackOK, StackInv
<1>3. Below # <<>> <=> n # 0
  BY <1>1, EmptySeq
<1>4. /\ stack' \in Seq(Frame) /\ Len(stack') = n
      /\ \A i \in 1..(n - 1) : stack'[i] = stack[i]
      /\ n # 0 => stack'[n] = [stack[n] EXCEPT !.at = "test"]
  <2>1. Below # <<>> => IsCall(Below[Len(Below)])
    BY <1>1, <1>2, <1>3
  <2>2. /\ Polled(Below) \in Seq(Frame) /\ Len(Polled(Below)) = Len(Below)
        /\ \A i \in 1..(Len(Below) - 1) : Polled(Below)[i] = Below[i]
        /\ Below # <<>> => Polled(Below)[Len(Below)] = [Below[Len(Below)] EXCEPT !.at = "test"]
    BY <1>1, <2>1, PolledType
  <2>3. stack' \in Seq(Frame) /\ Len(stack') = n
    BY <1>1, <2>2
  <2>4. \A i \in 1..(n - 1) : stack'[i] = stack[i]
    <3>1. \A i \in 1..(n - 1) : i \in 1..n /\ stack'[i] = Below[i]
      BY <1>1, <2>2
    <3>2. QED
      BY <1>1, <3>1
  <2>5. n # 0 => stack'[n] = [stack[n] EXCEPT !.at = "test"]
    <3>1. n # 0 => Below[n] = stack[n]
      BY <1>1
    <3>2. n # 0 => stack'[n] = [Below[n] EXCEPT !.at = "test"]
      BY <1>1, <1>3, <2>2
    <3>3. QED
      BY <3>1, <3>2
  <2>6. QED
    BY <2>3, <2>4, <2>5
<1>5. n # 0 => Keeps(stack[n], stack'[n], {0})
  <2>1. SUFFICES ASSUME n # 0
                 PROVE  Keeps(stack[n], stack'[n], {0})
    OBVIOUS
  <2>2. PICK f \in CallFrame : f = stack[n] /\ IsCall(f)
    BY <1>1, <1>2, <2>1, FrameKinds
  <2>3. Keeps(f, [f EXCEPT !.at = "test"], {0})
    BY <2>2, KeepsPlace
  <2>4. QED
    BY <1>4, <2>1, <2>2, <2>3
<1>6. Kept({0})
  BY <1>1, <1>4, <1>5, KeepsItself DEF Kept
<1>7. StackInv'
  <2>1. n # 0 => IsCall(stack'[n])
    BY <1>1, <1>2, <1>5, KeepsType
  <2>2. StackInv
    BY DEF StackOK
  <2>3. QED
    BY <1>1, <1>2, <1>4, <2>1, <2>2 DEF StackInv
<1>8. QED
  BY <1>1, <1>4, <1>6, <1>7 DEF StackOK

-----------------------------------------------------------------------------
(* Types. *)

LEMMA ResponseType ==
  ASSUME NEW m \in Body, NEW reply \in ResponseForm
  PROVE  /\ Response(m, reply) \in Body
         /\ Response(m, reply).type # "MSG"
         /\ Response(m, reply).seq = m.seq /\ Response(m, reply).id = m.id
BY DEF Response, ResponseForm, Body

LEMMA ModType ==
  ASSUME NEW m \in Nat \ {0}, NEW n \in Int
  PROVE  n % m \in 0..(m - 1)
OBVIOUS

LEMMA FollowingType ==
  ASSUME NEW i \in Index
  PROVE  Following(i) \in Index
BY BmAssumption DEF Index, Following

LEMMA ClockAssumption == ClockMod \in Nat \ {0}
BY BmAssumption

TypeInv == TypeOK /\ StackInv

LEMMA InitType == Init => TypeInv
<1> SUFFICES ASSUME Init PROVE TypeInv
  OBVIOUS
<1>1. Zeroes \in Message
  BY DEF Zeroes, Received, Message, Body
<1>2. 0 \in Index /\ 0 \in 0..(SeqMod - 1)
  BY BmAssumption DEF Index
<1>3. stack \in Seq(CallFrame \cup LoopFrame) /\ Len(stack) = 0
  BY EmptySeq DEF Init
<1>4. StackInv
  BY <1>3 DEF StackInv
<1>5. handled \in [1..MaxNotes -> Nat] /\ result \in [1..MaxDepth -> Int]
      /\ slot \in [Index -> Message]
  BY <1>1 DEF Init
<1>6. held \in SUBSET Index /\ torn \in BOOLEAN /\ written \in SUBSET Body
  BY DEF Init
<1>7. QED
  BY <1>1, <1>2, <1>3, <1>4, <1>5, <1>6, BmAssumption DEF Init, TypeInv, TypeOK

LEMMA StackIsOK == TypeInv => StackOK
BY DEF TypeInv, TypeOK, StackOK, Frame

\* Steps that leave the stack alone: only their own variables matter.
LEMMA ReturnType ==
  ASSUME TypeInv, NEW v \in Int, stack # <<>>, Return(v), NEW D, 0 \in D
  PROVE  StackOK' /\ Kept(D) /\ result' \in [1..MaxDepth -> Int]
BY StackIsOK, StackPop DEF Return, TypeInv, TypeOK

LEMMA CallType ==
  ASSUME TypeInv, NEW c \in Cmd, Call(c)
  PROVE  TypeInv' /\ Pushed([kind |-> "call", at |-> "poll", id |-> calls', cmd |-> c,
                              seq |-> seqNum', start |-> clock, waited |-> 0])
<1> DEFINE f == [kind |-> "call", at |-> "poll", id |-> calls', cmd |-> c,
                 seq |-> seqNum', start |-> clock, waited |-> 0]
<1>1. calls' \in 1..MaxCalls /\ seqNum' \in 0..(SeqMod - 1)
  BY ModType, BmAssumption DEF Call, CanCall, TypeInv, TypeOK
<1>2. f \in Frame /\ IsCall(f)
  BY <1>1 DEF Frame, CallFrame, IsCall, TypeInv, TypeOK
<1>3. stack' = Append(stack, f) /\ (stack # <<>> => ~IsCall(Top))
  BY DEF Call, CanCall, InCallback
<1> HIDE DEF f
<1>4. StackOK' /\ Pushed(f)
  BY <1>2, <1>3, StackIsOK, StackPush
<1>5. [type |-> "MSG", seq |-> seqNum', id |-> calls', cmd |-> c, len |-> 0, val |-> 0] \in Body
  BY <1>1, BmAssumption DEF Body
<1>6. toDev' \in SUBSET [to : Addr \cup {Unknown}, body : Body]
  BY <1>5 DEF Call, Sent, TypeInv, TypeOK
<1>7. QED
  BY <1>1, <1>4, <1>6 DEF Call, f, instance, ring, StackOK, Frame, TypeInv, TypeOK

LEMMA OldestType ==
  ASSUME TypeInv
  PROVE  /\ Following(tail) \in Index
         /\ Oldest \in Message /\ Oldest.body \in Body
         /\ Oldest.from \in Addr \cup {Unknown}
BY FollowingType DEF Oldest, Message, TypeInv, TypeOK

LEMMA ReadingsType ==
  ASSUME TypeInv, NEW m \in Readings
  PROVE  m \in Message /\ m.body \in Body /\ m.from \in Addr \cup {Unknown}
<1>1. CASE m = Oldest
  BY <1>1, OldestType
<1>2. CASE m # Oldest
  <2>1. PICK h \in written, p \in written : m = Received(Oldest.from, [h EXCEPT !.val = p.val])
    BY <1>2 DEF Readings
  <2>2. h \in Body /\ p \in Body
    BY DEF TypeInv, TypeOK
  <2>3. [h EXCEPT !.val = p.val] \in Body
    BY <2>2 DEF Body
  <2>4. QED
    BY <2>1, <2>3, OldestType DEF Received, Message
<1>3. QED
  BY <1>1, <1>2

LEMMA ReleaseType ==
  ASSUME TypeInv, NEW i, Release(i)
  PROVE  held' \in SUBSET Index /\ torn' \in BOOLEAN
BY DEF Release, TypeInv, TypeOK

LEMMA TestType ==
  ASSUME TypeInv, NEW d \in 0..MaxLapse, Test(d)
  PROVE  TypeInv' /\ Kept(0..MaxLapse)
<1>1. clock' \in 0..(ClockMod - 1)
  BY ModType, ClockAssumption, BmAssumption DEF Test, TypeInv, TypeOK
<1>2. stack # <<>> /\ IsCall(Top) /\ Top \in CallFrame
  BY StackIsOK, TopType DEF Test, Calling
<1> DEFINE D == 0..MaxLapse
<1>a. 0 \in D /\ D \in SUBSET Nat
  BY BmAssumption
<1>3. StackOK' /\ Kept(0..MaxLapse) /\ result' \in [1..MaxDepth -> Int]
  <2>1. CASE Return(CallResult(Top.cmd, last.body))
    <3>1. CallResult(Top.cmd, last.body) \in Int
      BY CallResultType DEF Message, Body, TypeInv, TypeOK
    <3>2. QED
      BY <1>2, <1>a, <2>1, <3>1, ReturnType
  <2>2. CASE Return(-ICAP_ERROR_TIMEOUT)
    <3>1. -ICAP_ERROR_TIMEOUT \in Int
      BY DEF ICAP_ERROR_TIMEOUT
    <3>2. QED
      BY <1>2, <1>a, <2>2, <3>1, ReturnType
  <2>3. CASE /\ stack' = Append(Below, [Top EXCEPT !.at = "poll", !.waited = @ + d])
             /\ UNCHANGED result
    <3>1. Keeps(Top, [Top EXCEPT !.at = "poll", !.waited = @ + d], 0..MaxLapse)
      <4>1. [Top EXCEPT !.at = "poll", !.waited = @ + d]
              = [Top EXCEPT !.at = "poll", !.waited = Top.waited + d]
        BY <1>2 DEF CallFrame
      <4>2. QED
        BY <1>2, <4>1, KeepsWith
    <3>2. StackOK' /\ Kept(0..MaxLapse)
      BY <1>2, <1>a, <2>3, <3>1, StackIsOK, StackTop
    <3>3. QED
      BY <2>3, <3>2 DEF TypeInv, TypeOK
  <2>4. QED
    BY <2>1, <2>2, <2>3 DEF Test
<1>4. QED
  BY <1>1, <1>3 DEF Test, instance, ring, channel, StackOK, Frame, TypeInv, TypeOK

LEMMA PollEmptyType ==
  ASSUME TypeInv, PollEmpty
  PROVE  TypeInv' /\ Kept({0})
<1>1. StackOK' /\ Kept({0})
  BY StackIsOK, StackPolled DEF PollEmpty, CanPoll
<1>2. QED
  BY <1>1 DEF PollEmpty, instance, ring, channel, history, StackOK, Frame, TypeInv, TypeOK

LEMMA PollRefuseType ==
  ASSUME TypeInv, PollRefuse
  PROVE  TypeInv' /\ Kept({0})
<1>1. StackOK' /\ Kept({0})
  BY StackIsOK, StackPolled DEF PollRefuse
<1>2. held' \in SUBSET Index /\ torn' \in BOOLEAN
  BY ReleaseType DEF PollRefuse
<1>3. QED
  BY <1>1, <1>2, OldestType
  DEF PollRefuse, instance, channel, history, StackOK, Frame, TypeInv, TypeOK

LEMMA PollResponseType ==
  ASSUME TypeInv, NEW m \in Readings, PollResponse(m)
  PROVE  TypeInv' /\ Kept({0})
<1>1. StackOK' /\ Kept({0})
  BY StackIsOK, StackPolled DEF PollResponse
<1>2. remote' \in Addr \cup {Unknown} /\ last' \in Message
  BY ReadingsType DEF PollResponse, Verify, TypeInv, TypeOK
<1>3. held' \in SUBSET Index /\ torn' \in BOOLEAN
  BY ReleaseType DEF PollResponse
<1>4. QED
  BY <1>1, <1>2, <1>3, OldestType
  DEF PollResponse, instance, channel, history, StackOK, Frame, TypeInv, TypeOK

LEMMA PollMessageType ==
  ASSUME TypeInv, NEW m \in Readings, PollMessage(m)
  PROVE  TypeInv' /\ Pushed([kind |-> "loop", next |-> Following(tail), msg |-> m])
<1> DEFINE f == [kind |-> "loop", next |-> Following(tail), msg |-> m]
<1>1. f \in Frame /\ ~IsCall(f)
  BY OldestType, ReadingsType DEF Frame, LoopFrame, IsCall
<1>2. stack' = Append(stack, f) /\ (stack # <<>> => IsCall(Top) /\ Top.at = "poll")
  BY DEF PollMessage, CanPoll, Calling
<1> HIDE DEF f
<1>3. StackOK' /\ Pushed(f)
  BY <1>1, <1>2, StackIsOK, StackPush
<1>4. remote' \in Addr \cup {Unknown}
  BY ReadingsType DEF PollMessage, Verify, TypeInv, TypeOK
<1>5. handled' \in [1..MaxNotes -> Nat]
  <2>1. handled \in [1..MaxNotes -> Nat] /\ handled' = [handled EXCEPT ![m.body.id] = @ + 1]
    BY DEF PollMessage, TypeInv, TypeOK
  <2> DEFINE n == m.body.id
  <2>2. handled' = [handled EXCEPT ![n] = handled[n] + 1]
    BY <2>1
  <2> HIDE DEF n
  <2>3. CASE n \in 1..MaxNotes
    BY <2>1, <2>2, <2>3
  <2>4. CASE n \notin 1..MaxNotes
    BY <2>1, <2>2, <2>4
  <2>5. QED
    BY <2>3, <2>4
<1>6. QED
  BY <1>3, <1>4, <1>5
  DEF PollMessage, f, instance, ring, channel, StackOK, Frame, TypeInv, TypeOK

LEMMA CallbackReturnType ==
  ASSUME TypeInv, NEW ret \in Ret, CallbackReturn(ret)
  PROVE  TypeInv' /\ Kept({0})
<1>1. StackOK' /\ Kept({0})
  BY StackIsOK, StackReturn DEF CallbackReturn
<1>2. Top \in LoopFrame
  BY StackIsOK, TopType DEF CallbackReturn, InCallback
<1>3. /\ Top.msg.body \in Body /\ Top.next \in Index
      /\ Top.msg.body.val \in Int
  BY <1>2 DEF LoopFrame, Message, Body
<1> DEFINE reply == AppReply(Top.msg.body.cmd, Top.msg.body.val, ret)
<1>4. reply \in ResponseForm
  BY <1>3, AppReplyType, BmAssumption
<1>5. \A h \in Headers : Response(h, reply) \in Body
  <2>1. Headers \subseteq Body
    BY <1>3 DEF Headers, TypeInv, TypeOK
  <2>2. QED
    BY <1>4, <2>1, ResponseType
<1>6. toDev' \in SUBSET [to : Addr \cup {Unknown}, body : Body] /\ tail' \in Index
  BY <1>3, <1>5 DEF CallbackReturn, Sent, TypeInv, TypeOK
<1>7. held' \in SUBSET Index /\ torn' \in BOOLEAN
  BY ReleaseType DEF CallbackReturn
<1>8. QED
  BY <1>1, <1>6, <1>7 DEF CallbackReturn, instance, history, StackOK, Frame, TypeInv, TypeOK

LEMMA PutType ==
  ASSUME TypeInv, NEW m \in toApp, Put(m)
  PROVE  TypeInv' /\ Kept({0})
<1>1. StackOK' /\ Kept({0})
  BY StackIsOK, StackSame DEF Put
<1>2. Following(head) \in Index /\ m \in Message
  BY FollowingType DEF TypeInv, TypeOK
<1>3. QED
  BY <1>1, <1>2 DEF Put, instance, history, StackOK, Frame, TypeInv, TypeOK

LEMMA DeviceParseType ==
  ASSUME TypeInv, NEW m \in toDev, NEW ret \in Int, DeviceParse(m, ret)
  PROVE  TypeInv' /\ Kept({0})
<1>1. StackOK' /\ Kept({0})
  BY StackIsOK, StackSame DEF DeviceParse
<1>2. m.to \in Addr \cup {Unknown} /\ m.body \in Body
  BY DEF TypeInv, TypeOK
<1>3. /\ DeviceRet(m.body.cmd, ret) \in Int
      /\ Response(m.body, DeviceReply(m.body.cmd, ret)) \in Body
  BY <1>2, DeviceRetType, DeviceReplyType, ResponseType
<1>4. toApp' \in SUBSET Message
  BY <1>2, <1>3 DEF DeviceParse, Received, Message, TypeInv, TypeOK
<1>5. ran' \in SUBSET [id : Nat, ret : Int]
  BY <1>2, <1>3 DEF DeviceParse, Body, TypeInv, TypeOK
<1>6. written' \in SUBSET Body
  BY <1>3 DEF DeviceParse, TypeInv, TypeOK
<1>7. QED
  BY <1>1, <1>4, <1>5, <1>6 DEF DeviceParse, instance, ring, StackOK, Frame, TypeInv, TypeOK

LEMMA DeviceNoteType ==
  ASSUME TypeInv, NEW a \in Addr, NEW c \in Note, DeviceNote(a, c)
  PROVE  TypeInv' /\ Kept({0})
<1>1. StackOK' /\ Kept({0})
  BY StackIsOK, StackSame DEF DeviceNote
<1>2. notes' \in 0..MaxNotes
  BY BmAssumption DEF DeviceNote, TypeInv, TypeOK
<1>3. [type |-> "MSG", seq |-> notes', id |-> notes', cmd |-> c, len |-> WordLen, val |-> 0] \in Body
  BY <1>2, BmAssumption DEF Body, WordLen
<1>4. toApp' \in SUBSET Message
  BY <1>3 DEF DeviceNote, Received, Message, TypeInv, TypeOK
<1>5. written' \in SUBSET Body
  BY <1>3 DEF DeviceNote, TypeInv, TypeOK
<1>6. QED
  BY <1>1, <1>2, <1>4, <1>5 DEF DeviceNote, instance, ring, StackOK, Frame, TypeInv, TypeOK

\* The steps that are not of the loop, of a message or of the clock.
Quiet == /\ \/ \E m \in toDev : Gone(m)
            \/ Deinit \/ AppInit
            \/ UNCHANGED vars

LEMMA QuietType ==
  ASSUME TypeInv, Quiet
  PROVE  TypeInv' /\ Kept({0})
<1>1. StackOK' /\ Kept({0})
  BY StackIsOK, StackSame DEF Quiet, Gone, Deinit, AppInit, vars
<1>2. CASE \E m \in toDev : Gone(m)
  BY <1>1, <1>2 DEF Gone, instance, ring, history, StackOK, Frame, TypeInv, TypeOK
<1>3. CASE Deinit
  BY <1>1, <1>3 DEF Deinit, ring, channel, history, StackOK, Frame, TypeInv, TypeOK
<1>4. CASE AppInit
  <2>1. Zeroes \in Message
    BY DEF Zeroes, Received, Message, Body
  <2>2. sessions' \in 0..MaxSessions /\ 0 \in Index /\ 0 \in 0..(SeqMod - 1)
    BY <1>4, BmAssumption DEF AppInit, Index, TypeInv, TypeOK
  <2>3. QED
    BY <1>1, <1>4, <2>1, <2>2 DEF AppInit, channel, history, StackOK, Frame, TypeInv, TypeOK
<1>5. CASE UNCHANGED vars
  BY <1>1, <1>5 DEF vars, instance, ring, channel, history, StackOK, Frame, TypeInv, TypeOK
<1>6. QED
  BY <1>1, <1>2, <1>3, <1>4, <1>5 DEF Quiet

\* The steps, with what each has been shown to do.
Steps == \/ \E c \in Cmd : Call(c)
         \/ \E d \in 0..MaxLapse : Test(d)
         \/ PollEmpty \/ PollRefuse
         \/ \E m \in Readings : PollResponse(m)
         \/ \E m \in Readings : PollMessage(m)
         \/ \E ret \in Ret : CallbackReturn(ret)
         \/ \E m \in toApp : Put(m)
         \/ \E m \in toDev : \E ret \in Int : DeviceParse(m, ret)
         \/ \E a \in Addr, c \in Note : DeviceNote(a, c)
         \/ Quiet

LEMMA NextSteps == [Next]_vars => Steps
BY BmAssumption DEF Next, Main, Poll, Exhausted, Quiet, Steps, LegalRet

LEMMA NextType ==
  ASSUME TypeInv, [Next]_vars
  PROVE  TypeInv'
BY NextSteps, CallType, TestType, PollEmptyType, PollRefuseType, PollResponseType,
   PollMessageType, CallbackReturnType, PutType, DeviceParseType, DeviceNoteType, QuietType
DEF Steps

LEMMA TypeInvariant == Spec => []TypeInv
BY InitType, NextType, PTL DEF Spec

\* The variables of a bare-metal application keep their types: indices of the
\* ring, sequence numbers and the clock stay within their widths, and only
\* received messages are parsed.
THEOREM TypeCorrect == Spec => []TypeOK
<1>1. TypeInv => TypeOK
  BY DEF TypeInv
<1>2. QED
  BY <1>1, TypeInvariant, PTL
-----------------------------------------------------------------------------
(* The clock.  Without calls from callbacks the only call is the outermost  *)
(* frame; it has waited for less than the timeout, and the clock is that    *)
(* much after its start.                                                    *)

LEMMA WrapMod ==
  ASSUME NEW m \in Nat \ {0}, NEW n \in Nat, m <= n, n < 2 * m
  PROVE  n % m = n - m
OBVIOUS

LEMMA SmallMod ==
  ASSUME NEW m \in Nat \ {0}, NEW n \in Nat, n < m
  PROVE  n % m = n
OBVIOUS

\* c is the clock of width m, w after s.
After(c, s, w, m) == c = s + w \/ c = s + w - m

LEMMA Advance ==
  ASSUME NEW m \in Nat \ {0}, NEW c \in 0..(m - 1), NEW s \in 0..(m - 1),
         NEW w \in Nat, NEW d \in Nat, w + d < m, After(c, s, w, m)
  PROVE  /\ (c + d + m - s) % m = w + d
         /\ After((c + d) % m, s, w + d, m)
<1> DEFINE x == c + d + m - s
<1> DEFINE y == c + d
<1>1. /\ x \in Nat /\ y \in Nat /\ y < 2 * m
      /\ x = w + d \/ x = w + d + m
      /\ y = s + (w + d) \/ y = s + (w + d) - m
  BY DEF After
<1>2. x = c + d + m - s /\ y = c + d
  OBVIOUS
<1> HIDE DEF x, y
<1>3. x % m = w + d
  <2>1. CASE x = w + d
    BY <1>1, <2>1, SmallMod
  <2>2. CASE x = w + d + m
    <3>1. m <= x /\ x < 2 * m /\ x - m = w + d
      BY <2>2
    <3>2. x % m = x - m
      BY <1>1, <3>1, WrapMod
    <3>3. QED
      BY <3>1, <3>2
  <2>3. QED
    BY <1>1, <2>1, <2>2
<1>4. After(y % m, s, w + d, m)
  <2>1. CASE y < m
    <3>1. y % m = y
      BY <1>1, <2>1, SmallMod
    <3>2. QED
      BY <1>1, <3>1 DEF After
  <2>2. CASE m <= y
    <3>1. y % m = y - m
      BY <1>1, <2>2, WrapMod
    <3>2. y = s + (w + d)
      BY <1>1, <2>2
    <3>3. QED
      BY <3>1, <3>2 DEF After
  <2>3. QED
    BY <1>1, <2>1, <2>2
<1>5. QED
  BY <1>2, <1>3, <1>4

ClockInv ==
  \A i \in 1..Len(stack) :
    IsCall(stack[i]) =>
      /\ i = 1 /\ stack[i].waited < MsgTimeout
      /\ After(clock, stack[i].start, stack[i].waited, ClockMod)

\* A call that goes on to poll.
LEMMA StaysType ==
  ASSUME NEW f \in CallFrame, NEW d \in Nat,
         NEW g, g = [f EXCEPT !.at = "poll", !.waited = @ + d]
  PROVE  g \in CallFrame /\ g.waited = f.waited + d /\ g.start = f.start
<1> DEFINE w == f.waited + d
<1>1. w \in Nat /\ g = [f EXCEPT !.at = "poll", !.waited = w]
  BY DEF CallFrame
<1>2. w = f.waited + d
  OBVIOUS
<1> HIDE DEF w
<1>3. g \in CallFrame /\ g.waited = w /\ g.start = f.start
  BY <1>1 DEF CallFrame
<1>4. QED
  BY <1>2, <1>3

\* What a look at the clock computes.
LEMMA GivesUpExactly ==
  ASSUME TypeInv, ClockInv, NEW d \in 0..MaxLapse, Calling("test")
  PROVE  /\ GivesUp(d) <=> Top.waited + d >= MsgTimeout
         /\ After((clock + d) % ClockMod, Top.start, Top.waited + d, ClockMod)
         /\ Len(stack) = 1 /\ Top = stack[1]
<1>1. /\ Len(stack) \in Nat \ {0} /\ Top = stack[Len(stack)]
      /\ IsCall(Top) /\ Top \in CallFrame
  BY StackIsOK, TopType DEF Calling
<1>2. /\ Len(stack) = 1 /\ Top.waited < MsgTimeout
      /\ After(clock, Top.start, Top.waited, ClockMod)
  BY <1>1 DEF ClockInv
<1>3. /\ ClockMod \in Nat \ {0} /\ clock \in 0..(ClockMod - 1)
      /\ Top.start \in 0..(ClockMod - 1) /\ Top.waited \in Nat /\ d \in Nat
  BY <1>1, ClockAssumption, BmAssumption DEF CallFrame, TypeInv, TypeOK
<1>4. Top.waited + d < ClockMod
  BY <1>2, <1>3, BmAssumption
<1>5. /\ (clock + d + ClockMod - Top.start) % ClockMod = Top.waited + d
      /\ After((clock + d) % ClockMod, Top.start, Top.waited + d, ClockMod)
  BY <1>2, <1>3, <1>4, Advance
<1>6. QED
  BY <1>1, <1>2, <1>5 DEF GivesUp

LEMMA InitClock == Init => ClockInv
<1>1. Init => Len(stack) = 0
  BY EmptySeq DEF Init
<1>2. QED
  BY <1>1 DEF ClockInv

\* Steps that do not move the clock and push no call.
LEMMA ClockKept ==
  ASSUME TypeInv, ClockInv, Kept({0}), clock' = clock
  PROVE  ClockInv'
<1>1. Len(stack) \in Nat /\ Len(stack') <= Len(stack)
  BY StackIsOK, LenProperties DEF StackOK, Kept
<1>2. SUFFICES ASSUME NEW i \in 1..Len(stack'), IsCall(stack'[i])
               PROVE  /\ i = 1 /\ stack'[i].waited < MsgTimeout
                      /\ After(clock, stack'[i].start, stack'[i].waited, ClockMod)
  BY DEF ClockInv, IsCall, After
<1>3. i \in 1..Len(stack) /\ Keeps(stack[i], stack'[i], {0})
  BY <1>1, <1>2 DEF Kept
<1>4. stack[i] \in Frame
  BY <1>3, StackIsOK, ElementOfSeq DEF StackOK
<1>5. IsCall(stack[i]) /\ stack[i] \in CallFrame
  BY <1>2, <1>3, <1>4, FrameKinds DEF Keeps
<1>6. stack'[i].waited = stack[i].waited /\ stack'[i].start = stack[i].start
  <2>1. PICK at \in {"poll", "test"}, d \in {0} :
          stack'[i] = [stack[i] EXCEPT !.at = at, !.waited = stack[i].waited + d]
    BY <1>3, <1>5 DEF Keeps
  <2>2. /\ stack'[i].start = stack[i].start
        /\ stack'[i].waited = stack[i].waited + d
    BY <1>5, <2>1 DEF CallFrame
  <2>3. stack[i].waited + d = stack[i].waited
    BY <1>5, <2>1 DEF CallFrame
  <2>4. QED
    BY <2>2, <2>3
<1>7. QED
  BY <1>3, <1>5, <1>6 DEF ClockInv

LEMMA NextClock ==
  ASSUME ~Reentrant, TypeInv, ClockInv, [Next]_vars
  PROVE  ClockInv'
<1>1. ASSUME NEW c \in Cmd, Call(c)
      PROVE  ClockInv'
  <2> DEFINE f == [kind |-> "call", at |-> "poll", id |-> calls', cmd |-> c,
                   seq |-> seqNum', start |-> clock, waited |-> 0]
  <2>1. stack = <<>> /\ clock' = clock /\ Pushed(f)
    BY <1>1, CallType DEF Call, CanCall
  <2>2. f.waited = 0 /\ f.start = clock
    OBVIOUS
  <2> HIDE DEF f
  <2>3. Len(stack') = 1 /\ stack'[1] = f
    BY <2>1, EmptySeq DEF Pushed
  <2>4. After(clock, clock, 0, ClockMod) /\ 0 < MsgTimeout
    BY BmAssumption DEF After, TypeInv, TypeOK
  <2>5. QED
    BY <2>1, <2>2, <2>3, <2>4 DEF ClockInv
<1>2. ASSUME NEW d \in 0..MaxLapse, Test(d)
      PROVE  ClockInv'
  <2>1. Calling("test") /\ clock' = (clock + d) % ClockMod
    BY <1>2 DEF Test
  <2>2. /\ GivesUp(d) <=> Top.waited + d >= MsgTimeout
        /\ After(clock', Top.start, Top.waited + d, ClockMod)
        /\ Len(stack) = 1 /\ Top = stack[1] /\ Top \in CallFrame
    BY <2>1, GivesUpExactly, StackIsOK, TopType DEF Calling
  <2>3. CASE stack' = Below
    <3>1. Len(stack') = 0
      BY <2>1, <2>2, <2>3, StackIsOK, SubType DEF Below, StackOK, Calling
    <3>2. QED
      BY <3>1 DEF ClockInv
  <2>4. CASE ~GivesUp(d) /\ stack' = Append(Below, [Top EXCEPT !.at = "poll", !.waited = @ + d])
    <3> DEFINE g == [Top EXCEPT !.at = "poll", !.waited = @ + d]
    <3>1. stack' = Append(Below, g) /\ g = [Top EXCEPT !.at = "poll", !.waited = @ + d]
      BY <2>4
    <3> HIDE DEF g
    <3>2. d \in Nat
      BY BmAssumption
    <3>3. g \in CallFrame /\ g.waited = Top.waited + d /\ g.start = Top.start
      BY <2>2, <3>1, <3>2, StaysType
    <3>4. Below \in Seq(Frame) /\ Len(Below) = 0
      BY <2>1, <2>2, StackIsOK, SubType DEF Below, StackOK, Calling
    <3>5. Len(stack') = 1 /\ stack'[1] = g
      BY <3>3, <3>1, <3>4, AppendProperties DEF Frame
    <3>6. g.waited < MsgTimeout
      BY <2>2, <2>4, <3>3, BmAssumption DEF CallFrame
    <3>7. QED
      BY <2>2, <3>3, <3>5, <3>6 DEF ClockInv
  <2>5. QED
    BY <1>2, <2>3, <2>4 DEF Test, Return
<1>3. ASSUME NEW m \in Readings, PollMessage(m)
      PROVE  ClockInv'
  <2>1. Pushed([kind |-> "loop", next |-> Following(tail), msg |-> m]) /\ clock' = clock
    BY <1>3, PollMessageType DEF PollMessage
  <2>2. Len(stack) \in Nat
    BY StackIsOK, LenProperties DEF StackOK
  <2>3. SUFFICES ASSUME NEW i \in 1..Len(stack'), IsCall(stack'[i])
                 PROVE  /\ i = 1 /\ stack'[i].waited < MsgTimeout
                        /\ After(clock, stack'[i].start, stack'[i].waited, ClockMod)
    BY <2>1 DEF ClockInv, IsCall, After
  <2>4. i \in 1..Len(stack) /\ stack'[i] = stack[i]
    BY <2>1, <2>2, <2>3 DEF Pushed, IsCall
  <2>5. QED
    BY <2>3, <2>4 DEF ClockInv
<1>4. CASE \/ PollEmpty \/ PollRefuse
           \/ \E m \in Readings : PollResponse(m)
           \/ \E ret \in Ret : CallbackReturn(ret)
           \/ \E m \in toApp : Put(m)
           \/ \E m \in toDev : \E ret \in Int : DeviceParse(m, ret)
           \/ \E a \in Addr, c \in Note : DeviceNote(a, c)
           \/ Quiet
  <2>1. clock' = clock
    BY <1>4 DEF PollEmpty, PollRefuse, PollResponse, CallbackReturn, Put, DeviceParse,
                DeviceNote, Quiet, Gone, Deinit, AppInit, vars
  <2>2. Kept({0})
    BY <1>4, PollEmptyType, PollRefuseType, PollResponseType, CallbackReturnType, PutType,
       DeviceParseType, DeviceNoteType, QuietType
  <2>3. QED
    BY <2>1, <2>2, ClockKept
<1>5. QED
  BY <1>1, <1>2, <1>3, <1>4, NextSteps DEF Steps

LEMMA ClockInvariant ==
  ASSUME ~Reentrant
  PROVE  Spec => []ClockInv
<1>1. TypeInv /\ ClockInv /\ [Next]_vars => ClockInv'
  BY NextClock
<1>2. QED
  BY <1>1, InitClock, TypeInvariant, PTL DEF Spec

\* A call that is not answered gives up exactly at the first look at the clock
\* that is ICAP_MSG_TIMEOUT_US or more after it was sent, wherever the clock
\* wraps, as long as callbacks make no calls.
THEOREM TimeoutIsExact ==
  ASSUME ~Reentrant
  PROVE  Spec => TimeoutExact
<1>1. TypeInv /\ ClockInv =>
        \A d \in 0..MaxLapse :
          Test(d) /\ ~Matches => (Len(stack') < Len(stack) <=> Top.waited + d >= MsgTimeout)
  <2>1. SUFFICES ASSUME TypeInv, ClockInv, NEW d \in 0..MaxLapse, Test(d), ~Matches
                 PROVE  Len(stack') < Len(stack) <=> Top.waited + d >= MsgTimeout
    OBVIOUS
  <2>2. /\ GivesUp(d) <=> Top.waited + d >= MsgTimeout
        /\ Len(stack) = 1 /\ Top \in CallFrame /\ stack # <<>>
    BY <2>1, GivesUpExactly, StackIsOK, TopType DEF Test, Calling
  <2>3. Below \in Seq(Frame) /\ Len(Below) = 0
    BY <2>1, <2>2, StackIsOK, SubType DEF Below, StackOK
  <2>4. CASE GivesUp(d)
    BY <2>1, <2>2, <2>3, <2>4 DEF Test, Return
  <2>5. CASE ~GivesUp(d)
    <3> DEFINE g == [Top EXCEPT !.at = "poll", !.waited = @ + d]
    <3>1. stack' = Append(Below, g) /\ g = [Top EXCEPT !.at = "poll", !.waited = @ + d]
      BY <2>1, <2>5 DEF Test
    <3> HIDE DEF g
    <3>2. d \in Nat
      BY BmAssumption
    <3>3. g \in Frame
      BY <2>2, <3>1, <3>2, StaysType DEF Frame
    <3>4. Len(stack') = 1
      BY <2>3, <3>3, <3>1, AppendProperties
    <3>5. QED
      BY <2>2, <2>5, <3>4
  <2>6. QED
    BY <2>4, <2>5
<1>2. QED
  BY <1>1, ClockInvariant, TypeInvariant, PTL DEF Spec, TimeoutExact
-----------------------------------------------------------------------------
(* The receive buffers.  Without calls from callbacks icap_loop has given   *)
(* back the buffers it has left behind, and holds all between tail and head. *)

LEMMA LoopKept ==
  ASSUME StackOK, NEW D \in SUBSET Nat, Kept(D), NEW i \in 1..Len(stack'), ~IsCall(stack'[i])
  PROVE  i \in 1..Len(stack) /\ ~IsCall(stack[i]) /\ stack'[i] = stack[i]
<1>1. Len(stack) \in Nat /\ Len(stack') <= Len(stack) /\ Keeps(stack[i], stack'[i], D)
  BY LenProperties DEF StackOK, Kept
<1>2. i \in 1..Len(stack)
  BY <1>1
<1>3. stack[i] \in Frame
  BY <1>2, ElementOfSeq DEF StackOK
<1>4. ~IsCall(stack[i])
  BY <1>1, <1>3, KeepsType
<1>5. QED
  BY <1>1, <1>2, <1>4 DEF Keeps

LEMMA LoopPushed ==
  ASSUME StackOK, NEW f, Pushed(f), NEW i \in 1..Len(stack'), ~IsCall(stack'[i])
  PROVE  \/ i \in 1..Len(stack) /\ ~IsCall(stack[i]) /\ stack'[i] = stack[i]
         \/ stack'[i] = f /\ ~IsCall(f)
<1>1. Len(stack) \in Nat /\ Len(stack') = Len(stack) + 1
  BY LenProperties DEF StackOK, Pushed
<1>2. CASE i = Len(stack')
  BY <1>2 DEF Pushed
<1>3. CASE i # Len(stack')
  <2>1. i \in 1..Len(stack)
    BY <1>1, <1>3
  <2>2. QED
    BY <2>1 DEF Pushed
<1>4. QED
  BY <1>2, <1>3

\* Where the main context is, before and after a turn of icap_loop.
LEMMA NoCallback ==
  ASSUME StackOK, CanPoll, stack' = Polled(stack)
  PROVE  ~InCallback /\ ~InCallback'
<1>1. ~InCallback
  BY DEF CanPoll, Calling, InCallback
<1>2. StackOK' /\ Kept({0}) /\ Len(stack') = Len(stack)
  BY StackPolled
<1>3. ASSUME InCallback'
      PROVE  FALSE
  <2>1. /\ stack' # <<>> /\ Len(stack') \in 1..Len(stack')
        /\ ~IsCall(stack'[Len(stack')])
    BY <1>2, <1>3, SubType DEF InCallback, Top, StackOK
  <2>2. ~IsCall(stack[Len(stack)]) /\ Len(stack) \in 1..Len(stack)
    BY <1>2, <2>1, LoopKept
  <2>3. stack # <<>>
    BY <1>2, <2>1, EmptySeq DEF StackOK
  <2>4. QED
    BY <1>1, <2>2, <2>3 DEF InCallback, Top
<1>4. QED
  BY <1>1, <1>3

\* A callback returns to a call that polls, or to the main loop.
LEMMA CallbackOver ==
  ASSUME StackOK, InCallback, stack' = Polled(Below)
  PROVE  ~InCallback'
<1>1. /\ StackOK' /\ Kept({0}) /\ Len(stack') = Len(stack) - 1
      /\ Len(stack) \in Nat \ {0} /\ ~IsCall(stack[Len(stack)])
  BY StackReturn, TopType DEF InCallback
<1>2. SUFFICES ASSUME InCallback'
               PROVE  FALSE
  OBVIOUS
<1>3. /\ Len(stack') \in 1..Len(stack')
      /\ ~IsCall(stack'[Len(stack')])
  BY <1>1, <1>2, SubType DEF InCallback, Top, StackOK
<1>4. ~IsCall(stack[Len(stack')]) /\ Len(stack') \in 1..(Len(stack) - 1)
  BY <1>1, <1>3, LoopKept
<1>5. QED
  BY <1>1, <1>4 DEF StackOK, StackInv

\* A call is made outside callbacks ...
LEMMA CallOutside ==
  ASSUME ~Reentrant, TypeInv, NEW c \in Cmd, Call(c)
  PROVE  ~InCallback /\ ~InCallback'
<1>1. /\ stack = <<>> /\ Pushed([kind |-> "call", at |-> "poll", id |-> calls', cmd |-> c,
                                 seq |-> seqNum', start |-> clock, waited |-> 0])
  BY CallType DEF Call, CanCall
<1>2. QED
  BY <1>1 DEF InCallback, Top, Pushed, IsCall

\* ... and returns there.
LEMMA TestOutside ==
  ASSUME TypeInv, ClockInv, NEW d \in 0..MaxLapse, Test(d)
  PROVE  ~InCallback /\ ~InCallback'
<1>1. StackOK
  BY StackIsOK
<1>2. ~InCallback /\ Len(stack) = 1 /\ Top = stack[1] /\ IsCall(stack[1]) /\ StackOK' /\ Kept(0..MaxLapse)
  BY GivesUpExactly, TestType, StackIsOK DEF Test, Calling, InCallback, TypeInv, TypeOK, StackOK, Frame
<1>3. ASSUME InCallback'
      PROVE  FALSE
  <2>1. /\ Len(stack') \in 1..Len(stack')
        /\ ~IsCall(stack'[Len(stack')])
    BY <1>2, <1>3, SubType DEF InCallback, Top, StackOK
  <2>2. ~IsCall(stack[Len(stack')]) /\ Len(stack') \in 1..Len(stack)
    BY <1>1, <1>2, <2>1, LoopKept, BmAssumption
  <2>3. Len(stack') = 1
    BY <1>2, <2>2
  <2>4. QED
    BY <1>2, <2>2, <2>3
<1>4. QED
  BY <1>2, <1>3

\* Slot i holds a message between tail, excluded, and head.
Used(i, h, t) == IF t <= h THEN t < i /\ i <= h ELSE t < i \/ i <= h

LEMMA UsedPut ==
  ASSUME NEW h \in Index, NEW t \in Index, Following(h) # t
  PROVE  /\ ~Used(Following(h), h, t)
         /\ \A i \in Index : Used(i, Following(h), t) <=> (Used(i, h, t) \/ i = Following(h))
BY BmAssumption DEF Used, Following, Index

LEMMA UsedTail ==
  ASSUME NEW h \in Index, NEW t \in Index, h # t
  PROVE  /\ Used(Following(t), h, t)
         /\ \A i \in Index : Used(i, h, Following(t)) <=> (Used(i, h, t) /\ i # Following(t))
BY BmAssumption DEF Used, Following, Index

\* The callback on the stack is that of the oldest message in the ring.
PlaceInv == InCallback => head # tail /\ Top.next = Following(tail)

HeldInv == ~torn /\ \A i \in Index : Used(i, head, tail) => i \in held

BufferInv == PlaceInv /\ HeldInv

LEMMA OldestIntact ==
  ASSUME TypeInv, HeldInv, head # tail
  PROVE  Intact(Following(tail)) /\ Readings = {Oldest}
<1>1. Used(Following(tail), head, tail) /\ Following(tail) \in Index
  BY UsedTail, FollowingType DEF TypeInv, TypeOK
<1>2. QED
  BY <1>1 DEF HeldInv, Intact, Readings

\* Steps that leave the ring and the callback alone.
LEMMA BufferSame ==
  ASSUME BufferInv, UNCHANGED ring, InCallback' <=> InCallback, InCallback => Top' = Top
  PROVE  BufferInv'
<1>1. HeldInv'
  BY DEF BufferInv, HeldInv, ring
<1>2. PlaceInv'
  BY DEF BufferInv, PlaceInv, ring
<1>3. QED
  BY <1>1, <1>2 DEF BufferInv

\* icap_loop leaves a message behind and gives its buffer back.
LEMMA BufferTail ==
  ASSUME TypeInv, HeldInv, head # tail, UNCHANGED head, ~InCallback',
         Release(Following(tail)), tail' = Following(tail)
  PROVE  BufferInv'
<1>1. Following(tail) \in held /\ ~torn
  BY OldestIntact DEF Intact
<1>2. held' = held \ {Following(tail)} /\ ~torn'
  BY <1>1 DEF Release
<1>3. \A i \in Index : Used(i, head, Following(tail)) <=> (Used(i, head, tail) /\ i # Following(tail))
  BY UsedTail DEF TypeInv, TypeOK
<1>4. HeldInv'
  BY <1>2, <1>3 DEF HeldInv
<1>5. QED
  BY <1>4 DEF BufferInv, PlaceInv

LEMMA PutBuffer ==
  ASSUME TypeInv, BufferInv, NEW m \in toApp, Put(m)
  PROVE  BufferInv'
<1>1. /\ UNCHANGED <<tail, torn, stack>>
      /\ head \in Index /\ tail \in Index
  BY DEF Put, TypeInv, TypeOK
<1>2. (InCallback' <=> InCallback) /\ (InCallback => Top' = Top)
  BY <1>1 DEF InCallback, Top
<1>3. CASE UNCHANGED <<slot, head, held>>
  BY <1>1, <1>2, <1>3, BufferSame DEF ring
<1>4. CASE /\ Following(head) # tail
           /\ head' = Following(head) /\ held' = held \cup {Following(head)}
  <2>1. \A i \in Index : Used(i, Following(head), tail) <=> (Used(i, head, tail) \/ i = Following(head))
    BY <1>1, <1>4, UsedPut
  <2>2. HeldInv'
    BY <1>1, <1>4, <2>1 DEF BufferInv, HeldInv
  <2>3. PlaceInv'
    BY <1>1, <1>2, <1>4 DEF BufferInv, PlaceInv
  <2>4. QED
    BY <2>2, <2>3 DEF BufferInv
<1>5. QED
  BY <1>3, <1>4 DEF Put

LEMMA PollMessageBuffer ==
  ASSUME TypeInv, BufferInv, NEW m \in Readings, PollMessage(m)
  PROVE  BufferInv' /\ ~InCallback /\ InCallback' /\ (Top').next = Following(tail)
<1> DEFINE f == [kind |-> "loop", next |-> Following(tail), msg |-> m]
<1>1. Pushed(f) /\ StackOK' /\ Len(stack) \in Nat
  BY PollMessageType, StackIsOK, LenProperties DEF StackOK, TypeInv, TypeOK, Frame
<1>2. ~IsCall(f) /\ f.next = Following(tail)
  BY DEF IsCall
<1> HIDE DEF f
<1>3. stack' # <<>> /\ Top' = f
  BY <1>1, EmptySeq DEF Pushed, Top
<1>4. InCallback' /\ (Top').next = Following(tail) /\ ~InCallback
  BY <1>2, <1>3 DEF InCallback, PollMessage, CanPoll, Calling
<1>5. head # tail /\ UNCHANGED <<head, tail, slot, held, torn>>
  BY DEF PollMessage, ring
<1>6. PlaceInv'
  BY <1>4, <1>5 DEF PlaceInv
<1>7. HeldInv'
  BY <1>5 DEF BufferInv, HeldInv
<1>8. QED
  BY <1>4, <1>6, <1>7 DEF BufferInv

LEMMA NextBuffer ==
  ASSUME ~Reentrant, TypeInv, ClockInv, BufferInv, [Next]_vars
  PROVE  BufferInv'
<1>1. StackOK /\ HeldInv
  BY StackIsOK DEF BufferInv
<1>2. ASSUME NEW c \in Cmd, Call(c)
      PROVE  BufferInv'
  BY <1>2, CallOutside, BufferSame DEF Call
<1>3. ASSUME NEW d \in 0..MaxLapse, Test(d)
      PROVE  BufferInv'
  BY <1>3, TestOutside, BufferSame DEF Test
<1>4. CASE PollEmpty
  <2>1. ~InCallback /\ ~InCallback'
    BY <1>1, <1>4, NoCallback DEF PollEmpty, CanPoll
  <2>2. QED
    BY <1>4, <2>1, BufferSame DEF PollEmpty
<1>5. CASE PollRefuse
  <2>1. ~InCallback'
    BY <1>1, <1>5, NoCallback DEF PollRefuse
  <2>2. QED
    BY <1>1, <1>5, <2>1, BufferTail DEF PollRefuse
<1>6. ASSUME NEW m \in Readings, PollResponse(m)
      PROVE  BufferInv'
  <2>1. ~InCallback'
    BY <1>1, <1>6, NoCallback DEF PollResponse
  <2>2. QED
    BY <1>1, <1>6, <2>1, BufferTail DEF PollResponse
<1>7. ASSUME NEW m \in Readings, PollMessage(m)
      PROVE  BufferInv'
  BY <1>7, PollMessageBuffer
<1>8. ASSUME NEW ret \in Ret, CallbackReturn(ret)
      PROVE  BufferInv'
  <2>1. InCallback /\ ~InCallback' /\ Release(Top.next) /\ tail' = Top.next /\ UNCHANGED head
    BY <1>1, <1>8, CallbackOver DEF CallbackReturn
  <2>2. head # tail /\ Top.next = Following(tail)
    BY <2>1 DEF BufferInv, PlaceInv
  <2>3. QED
    BY <1>1, <2>1, <2>2, BufferTail
<1>9. ASSUME NEW m \in toApp, Put(m)
      PROVE  BufferInv'
  BY <1>9, PutBuffer
<1>10. ASSUME NEW m \in toDev, NEW ret \in Int, DeviceParse(m, ret)
       PROVE  BufferInv'
  BY <1>10, BufferSame DEF DeviceParse, InCallback, Top
<1>11. ASSUME NEW a \in Addr, NEW c \in Note, DeviceNote(a, c)
       PROVE  BufferInv'
  BY <1>11, BufferSame DEF DeviceNote, InCallback, Top
<1>12. CASE Quiet
  <2>1. (InCallback' <=> InCallback) /\ (InCallback => Top' = Top)
    BY <1>12 DEF Quiet, Gone, Deinit, AppInit, vars, InCallback, Top
  <2>2. CASE AppInit
    <3>1. head' = 0 /\ tail' = 0 /\ torn' = torn /\ ~InCallback
      BY <2>2 DEF AppInit, InCallback
    <3>2. \A i \in Index : ~Used(i, 0, 0)
      BY BmAssumption DEF Used, Index
    <3>3. HeldInv'
      BY <1>1, <3>1, <3>2 DEF HeldInv
    <3>4. QED
      BY <2>1, <3>1, <3>3 DEF BufferInv, PlaceInv
  <2>3. CASE ~AppInit
    <3>1. UNCHANGED ring
      BY <1>12, <2>3 DEF Quiet, Gone, Deinit, vars
    <3>2. QED
      BY <2>1, <3>1, BufferSame
  <2>4. QED
    BY <2>2, <2>3
<1>13. QED
  BY <1>2, <1>3, <1>4, <1>5, <1>6, <1>7, <1>8, <1>9, <1>10, <1>11, <1>12, NextSteps DEF Steps

LEMMA BufferInvariant ==
  ASSUME ~Reentrant
  PROVE  Spec => []BufferInv
<1>1. ASSUME Init
      PROVE  BufferInv
  <2>1. \A i \in Index : ~Used(i, 0, 0)
    BY BmAssumption DEF Used, Index
  <2>2. HeldInv /\ ~InCallback
    BY <1>1, <2>1 DEF Init, HeldInv, InCallback
  <2>3. QED
    BY <2>2 DEF BufferInv, PlaceInv
<1>2. TypeInv /\ ClockInv /\ BufferInv /\ [Next]_vars => BufferInv'
  BY NextBuffer
<1>3. QED
  BY <1>1, <1>2, ClockInvariant, TypeInvariant, PTL DEF Spec

\* What icap_loop reads is a buffer of its own: as long as callbacks make no calls, each
\* buffer is given back once and is not read after that, for every ring size, whatever is
\* refused, and across initialisations.
THEOREM BuffersReleasedOnce ==
  ASSUME ~Reentrant
  PROVE  Spec => []ReleasedOnce
<1>1. TypeInv /\ BufferInv => ReleasedOnce
  BY OldestIntact DEF BufferInv, HeldInv, ReleasedOnce
<1>2. QED
  BY <1>1, BufferInvariant, TypeInvariant, PTL

LEMMA ReadIntact ==
  ASSUME ReleasedOnce, CanPoll, head # tail
  PROVE  Readings = {Oldest}
BY DEF ReleasedOnce, Readings
-----------------------------------------------------------------------------
(* Sequence numbers.  Until the instance is initialised again, the number   *)
(* of a call is its place among all calls, modulo SeqMod.                   *)

\* Division with remainder.
LEMMA Divide ==
  ASSUME NEW m \in Nat \ {0}, NEW n \in Nat
  PROVE  \E q \in Nat : \E r \in 0..(m - 1) : n = m * q + r /\ n % m = r
<1> DEFINE q == n \div m
           r == n % m
<1>1. q \in Nat /\ n = m * q + r /\ r \in 0..(m - 1) /\ n % m = r
  OBVIOUS
<1> HIDE DEF q, r
<1>2. QED
  BY <1>1

LEMMA Multiples ==
  ASSUME NEW m \in Nat \ {0}, NEW p \in Nat, NEW q \in Nat, p < q
  PROVE  m * p + m <= m * q
OBVIOUS

LEMMA SameQuotient ==
  ASSUME NEW m \in Nat \ {0}, NEW p \in Nat, NEW q \in Nat,
         NEW a, a = m * p, NEW b, b = m * q, a < b + m, b < a + m
  PROVE  a = b
<1>1. a \in Nat /\ b \in Nat
  OBVIOUS
<1>2. p < q => a + m <= b
  BY Multiples
<1>3. q < p => b + m <= a
  BY Multiples
<1>4. QED
  BY <1>1, <1>2, <1>3

LEMMA ModRest ==
  ASSUME NEW m \in Nat \ {0}, NEW q \in Nat, NEW d, d = m * q,
         NEW r \in 0..(m - 1), NEW n \in Nat, n = d + r
  PROVE  n % m = r
<1>1. PICK p \in Nat : \E s \in 0..(m - 1) : n = m * p + s /\ n % m = s
  BY Divide
<1> DEFINE c == m * p
<1>2. PICK s \in 0..(m - 1) : n = c + s /\ n % m = s
  BY <1>1
<1>3. c \in Nat /\ d \in Nat /\ c = m * p
  OBVIOUS
<1> HIDE DEF c
<1>4. c = d
  BY <1>2, <1>3, SameQuotient
<1>5. QED
  BY <1>2, <1>3, <1>4

\* Counting modulo m.
LEMMA ModSmall ==
  ASSUME NEW m \in Nat \ {0}, NEW n \in Nat, n < m
  PROVE  n % m = n
OBVIOUS

LEMMA ModSucc ==
  ASSUME NEW m \in Nat \ {0}, NEW n \in Nat
  PROVE  ((n % m) + 1) % m = (n + 1) % m
<1>1. PICK q \in Nat : \E r \in 0..(m - 1) : n = m * q + r /\ n % m = r
  BY Divide
<1> DEFINE c == m * q
           k == n + 1
           p == q + 1
           d == m * p
<1>2. PICK r \in 0..(m - 1) : n = c + r /\ n % m = r
  BY <1>1
<1>3. c = m * q /\ k \in Nat
  OBVIOUS
<1>4. d = m * p /\ p \in Nat
  OBVIOUS
<1>5. c \in Nat /\ d = c + m /\ k = n + 1
  OBVIOUS
<1> HIDE DEF c, d, k, p
<1>6. CASE r + 1 < m
  <2> DEFINE s == r + 1
  <2>1. k = c + s /\ s \in 0..(m - 1) /\ s % m = s
    BY <1>2, <1>5, <1>6
  <2> HIDE DEF s
  <2>2. k % m = s
    BY <1>3, <2>1, ModRest
  <2>3. QED
    BY <1>2, <2>1, <2>2 DEF k, s
<1>7. CASE r + 1 = m
  <2>1. k = d + 0 /\ 0 \in 0..(m - 1) /\ m % m = 0
    BY <1>2, <1>5, <1>7
  <2>2. k % m = 0
    BY <1>3, <1>4, <2>1, ModRest
  <2>3. QED
    BY <1>2, <1>7, <2>1, <2>2 DEF k
<1>8. QED
  BY <1>6, <1>7

\* n, a frame or message, is one of the first k calls and has its number.
Own(n, k) == n.id \in 0..k /\ n.seq = n.id % SeqMod

FrameSeq(f, k) == IsCall(f) => Own(f, k)

SeqInv == /\ sessions = 0 /\ seqNum = calls % SeqMod
          /\ \A m \in toDev : m.body.type = "MSG" => Own(m.body, calls)
          /\ \A m \in toApp : m.body.type # "MSG" => Own(m.body, calls)
          /\ \A i \in Index : slot[i].body.type # "MSG" => Own(slot[i].body, calls)
          /\ Own(last.body, calls)
          /\ \A i \in 1..Len(stack) : FrameSeq(stack[i], calls)

\* A call that goes on is the same call.
LEMMA CallKept ==
  ASSUME NEW f \in Frame, NEW D, NEW g, Keeps(f, g, D)
  PROVE  /\ IsCall(g) <=> IsCall(f)
         /\ IsCall(f) => g.id = f.id /\ g.seq = f.seq /\ g.cmd = f.cmd
<1>1. CASE IsCall(f)
  <2>1. f \in CallFrame
    BY <1>1, FrameKinds
  <2>2. PICK at \in {"poll", "test"}, d \in D : g = [f EXCEPT !.at = at, !.waited = f.waited + d]
    BY <1>1 DEF Keeps
  <2>3. g.kind = f.kind /\ g.id = f.id /\ g.seq = f.seq /\ g.cmd = f.cmd
    BY <2>1, <2>2 DEF CallFrame
  <2>4. QED
    BY <2>3 DEF IsCall
<1>2. CASE ~IsCall(f)
  BY <1>2 DEF Keeps
<1>3. QED
  BY <1>1, <1>2

LEMMA FrameSeqKept ==
  ASSUME StackOK, NEW k, NEW D, Kept(D), \A i \in 1..Len(stack) : FrameSeq(stack[i], k)
  PROVE  \A i \in 1..Len(stack') : FrameSeq(stack'[i], k)
<1>1. SUFFICES ASSUME NEW i \in 1..Len(stack')
               PROVE  FrameSeq(stack'[i], k)
  OBVIOUS
<1>2. Len(stack) \in Nat /\ Len(stack') <= Len(stack) /\ Keeps(stack[i], stack'[i], D)
  BY <1>1, LenProperties DEF StackOK, Kept
<1>3. i \in 1..Len(stack)
  BY <1>1, <1>2
<1>4. stack[i] \in Frame /\ FrameSeq(stack[i], k)
  BY <1>3, ElementOfSeq DEF StackOK
<1>5. QED
  BY <1>2, <1>4, CallKept DEF FrameSeq, Own

LEMMA FrameSeqPushed ==
  ASSUME StackOK, NEW k, NEW f, Pushed(f), FrameSeq(f, k), \A i \in 1..Len(stack) : FrameSeq(stack[i], k)
  PROVE  \A i \in 1..Len(stack') : FrameSeq(stack'[i], k)
<1>1. SUFFICES ASSUME NEW i \in 1..Len(stack')
               PROVE  FrameSeq(stack'[i], k)
  OBVIOUS
<1>2. Len(stack) \in Nat /\ Len(stack') = Len(stack) + 1
  BY LenProperties DEF StackOK, Pushed
<1>3. CASE i = Len(stack')
  BY <1>3 DEF Pushed
<1>4. CASE i # Len(stack')
  <2>1. i \in 1..Len(stack)
    BY <1>1, <1>2, <1>4
  <2>2. QED
    BY <2>1 DEF Pushed
<1>5. QED
  BY <1>3, <1>4

LEMMA InitSeq == Init => SeqInv
<1> SUFFICES ASSUME Init PROVE SeqInv
  OBVIOUS
<1>1. 0 % SeqMod = 0
  BY BmAssumption
<1>2. Own(Zeroes.body, 0) /\ Zeroes.body.type = "MSG"
  BY <1>1 DEF Own, Zeroes, Received
<1>3. Len(stack) = 0
  BY EmptySeq DEF Init
<1>4. QED
  BY <1>1, <1>2, <1>3 DEF Init, SeqInv

LEMMA NextSeq ==
  ASSUME MaxSessions = 0, TypeInv, ReleasedOnce, SeqInv, [Next]_vars
  PROVE  SeqInv'
<1>1. StackOK
  BY StackIsOK
<1>2. ASSUME NEW c \in Cmd, Call(c)
      PROVE  SeqInv'
  <2>1. /\ calls \in Nat /\ calls' = calls + 1 /\ seqNum' = (seqNum + 1) % SeqMod
        /\ seqNum = calls % SeqMod
    BY <1>2, BmAssumption DEF Call, SeqInv, TypeInv, TypeOK
  <2>2. seqNum' = calls' % SeqMod
    BY <2>1, ModSucc, BmAssumption
  <2>3. \A n : Own(n, calls) => Own(n, calls')
    BY <2>1 DEF Own
  <2>4. calls' \in 0..calls'
    BY <2>1
  <2>5. \A i \in 1..Len(stack') : FrameSeq(stack'[i], calls')
    <3> DEFINE f == [kind |-> "call", at |-> "poll", id |-> calls', cmd |-> c,
                     seq |-> seqNum', start |-> clock, waited |-> 0]
    <3>1. FrameSeq(f, calls') /\ Pushed(f)
      BY <1>2, <2>2, <2>4, CallType DEF FrameSeq, Own
    <3>2. \A i \in 1..Len(stack) : FrameSeq(stack[i], calls')
      BY <2>3 DEF FrameSeq, SeqInv
    <3> HIDE DEF f
    <3>3. QED
      BY <1>1, <3>1, <3>2, FrameSeqPushed
  <2>6. \A m \in toDev' : m.body.type = "MSG" => Own(m.body, calls')
    BY <1>2, <2>2, <2>3, <2>4 DEF Call, Sent, Own, SeqInv
  <2>7. /\ \A m \in toApp : m.body.type # "MSG" => Own(m.body, calls')
        /\ \A i \in Index : slot[i].body.type # "MSG" => Own(slot[i].body, calls')
        /\ Own(last.body, calls')
    BY <2>3 DEF SeqInv
  <2>8. QED
    BY <1>2, <2>2, <2>5, <2>6, <2>7 DEF Call, SeqInv, instance, ring
<1>3. ASSUME NEW d \in 0..MaxLapse, Test(d)
      PROVE  SeqInv'
  BY <1>1, <1>3, TestType, FrameSeqKept DEF Test, SeqInv, instance, ring, channel
<1>4. CASE PollEmpty
  BY <1>1, <1>4, PollEmptyType, FrameSeqKept DEF PollEmpty, SeqInv, instance, ring, channel, history
<1>5. CASE PollRefuse
  BY <1>1, <1>5, PollRefuseType, FrameSeqKept DEF PollRefuse, SeqInv, instance, channel, history
<1>6. Oldest.body.type # "MSG" => Own(Oldest.body, calls)
  BY OldestType DEF Oldest, SeqInv
<1>7. ASSUME NEW m \in Readings, PollResponse(m)
      PROVE  SeqInv'
  <2>1. m = Oldest
    BY <1>7, ReadIntact DEF PollResponse
  <2>2. QED
    BY <1>1, <1>6, <1>7, <2>1, PollResponseType, FrameSeqKept
    DEF PollResponse, SeqInv, instance, channel, history
<1>8. ASSUME NEW m \in Readings, PollMessage(m)
      PROVE  SeqInv'
  <2>1. \A i \in 1..Len(stack') : FrameSeq(stack'[i], calls)
    BY <1>1, <1>8, PollMessageType, FrameSeqPushed DEF FrameSeq, IsCall, SeqInv
  <2>2. QED
    BY <1>8, <2>1 DEF PollMessage, SeqInv, instance, ring, channel
<1>9. ASSUME NEW ret \in Ret, CallbackReturn(ret)
      PROVE  SeqInv'
  <2>1. Top.msg.body \in Body /\ Top.msg.body.val \in Int /\ ret \in Int
    BY <1>1, <1>9, TopType, BmAssumption DEF CallbackReturn, InCallback, LoopFrame, Message, Body
  <2>2. \A h : Response(h, AppReply(Top.msg.body.cmd, Top.msg.body.val, ret)).type # "MSG"
    BY <2>1, AppReplyType DEF Response, ResponseForm
  <2>3. \A m \in toDev' : m.body.type = "MSG" => m \in toDev
    BY <1>9, <2>2 DEF CallbackReturn, Sent
  <2>4. QED
    BY <1>1, <1>9, <2>3, CallbackReturnType, FrameSeqKept
    DEF CallbackReturn, SeqInv, instance, history
<1>10. ASSUME NEW m \in toApp, Put(m)
       PROVE  SeqInv'
  <2>1. Following(head) \in Index /\ slot \in [Index -> Message]
    BY FollowingType DEF TypeInv, TypeOK
  <2>2. \A i \in Index : slot'[i] = slot[i] \/ slot'[i] = m
    BY <1>10, <2>1 DEF Put
  <2>3. \A i \in Index : slot'[i].body.type # "MSG" => Own(slot'[i].body, calls)
    BY <2>2 DEF SeqInv
  <2>4. QED
    BY <1>1, <1>10, <2>3, PutType, FrameSeqKept DEF Put, SeqInv, instance, history
<1>11. ASSUME NEW m \in toDev, NEW ret \in Int, DeviceParse(m, ret)
       PROVE  SeqInv'
  <2>1. Own(m.body, calls)
    BY <1>11 DEF DeviceParse, SeqInv
  <2>2. \A n \in toApp' : n.body.type # "MSG" => Own(n.body, calls)
    BY <1>11, <2>1 DEF DeviceParse, Received, Response, Own, SeqInv
  <2>3. QED
    BY <1>1, <1>11, <2>2, DeviceParseType, FrameSeqKept DEF DeviceParse, SeqInv, instance, ring
<1>12. ASSUME NEW a \in Addr, NEW c \in Note, DeviceNote(a, c)
       PROVE  SeqInv'
  <2>1. \A n \in toApp' : n.body.type # "MSG" => n \in toApp
    BY <1>12 DEF DeviceNote, Received
  <2>2. QED
    BY <1>1, <1>12, <2>1, DeviceNoteType, FrameSeqKept DEF DeviceNote, SeqInv, instance, ring
<1>13. CASE Quiet
  <2>1. \A i \in 1..Len(stack') : FrameSeq(stack'[i], calls)
    BY <1>1, <1>13, QuietType, FrameSeqKept DEF SeqInv
  <2>2. ~AppInit
    BY BmAssumption DEF AppInit, SeqInv
  <2>3. QED
    BY <1>13, <2>1, <2>2
    DEF Quiet, Gone, Deinit, vars, SeqInv, instance, ring, channel, history
<1>14. QED
  BY <1>2, <1>3, <1>4, <1>5, <1>7, <1>8, <1>9, <1>10, <1>11, <1>12, <1>13, NextSteps DEF Steps

LEMMA SeqInvariant ==
  ASSUME ~Reentrant, MaxSessions = 0
  PROVE  Spec => []SeqInv
BY InitSeq, NextSeq, BuffersReleasedOnce, TypeInvariant, PTL DEF Spec

\* With fewer than 2^32 calls in a single session every number is new, as long as
\* callbacks make no calls.
THEOREM NumbersAreFree ==
  ASSUME ~Reentrant, MaxSessions = 0, MaxCalls < SeqMod
  PROVE  Spec => []NumberFree
<1>1. TypeInv /\ SeqInv => NumberFree
  <2> SUFFICES ASSUME TypeInv, SeqInv, CanCall
               PROVE  (seqNum + 1) % SeqMod \notin UsedNumbers
    BY DEF NumberFree
  <2>1. calls \in Nat /\ calls < MaxCalls /\ MaxCalls \in Nat /\ SeqMod \in Nat \ {0}
    BY BmAssumption DEF CanCall, TypeInv, TypeOK
  <2>2. \A n \in 0..(calls + 1) : n % SeqMod = n
    BY <2>1, ModSmall
  <2>3. (seqNum + 1) % SeqMod = calls + 1
    BY <2>1, <2>2 DEF SeqInv
  <2>4. \A n : Own(n, calls) => n.seq \in 0..calls
    BY <2>1, <2>2 DEF Own
  <2>5. /\ \A b \in Bodies : Own(b, calls)
        /\ \A i \in DOMAIN stack : IsCall(stack[i]) => Own(stack[i], calls)
    BY StackIsOK DEF StackOK, SeqInv, FrameSeq, Bodies
  <2>6. \A n \in UsedNumbers : n \in 0..calls
    BY <2>4, <2>5 DEF UsedNumbers
  <2>7. QED
    BY <2>1, <2>3, <2>6
<1>2. QED
  BY <1>1, SeqInvariant, TypeInvariant, PTL

\* A call and a message with the same number belong together.
Agrees(f, bodies) == IsCall(f) => \A b \in bodies : b.seq = f.seq => b.id = f.id

AgreeInv == \A i \in 1..Len(stack) : Agrees(stack[i], Bodies)

\* Numbers are copied along with the calls they stand for.
Copied(after, before) == \A b \in after : \E a \in before : b.seq = a.seq /\ b.id = a.id

LEMMA AgreesOn ==
  ASSUME NEW f, NEW after, NEW before, Copied(after, before), Agrees(f, before)
  PROVE  Agrees(f, after)
BY DEF Copied, Agrees

LEMMA AgreeKept ==
  ASSUME StackOK, AgreeInv, NEW D, Kept(D), Copied(Bodies', Bodies)
  PROVE  AgreeInv'
<1>1. SUFFICES ASSUME NEW i \in 1..Len(stack')
               PROVE  Agrees(stack'[i], Bodies')
  BY DEF AgreeInv
<1>2. Len(stack) \in Nat /\ Len(stack') <= Len(stack) /\ Keeps(stack[i], stack'[i], D)
  BY <1>1, LenProperties DEF StackOK, Kept
<1>3. i \in 1..Len(stack)
  BY <1>1, <1>2
<1>4. stack[i] \in Frame /\ Agrees(stack[i], Bodies')
  BY <1>3, ElementOfSeq, AgreesOn DEF StackOK, AgreeInv
<1>5. QED
  BY <1>2, <1>4, CallKept DEF Agrees

LEMMA AgreePushed ==
  ASSUME StackOK, NEW f, Pushed(f), Agrees(f, Bodies'),
         \A i \in 1..Len(stack) : Agrees(stack[i], Bodies')
  PROVE  AgreeInv'
<1>1. SUFFICES ASSUME NEW i \in 1..Len(stack')
               PROVE  Agrees(stack'[i], Bodies')
  BY DEF AgreeInv
<1>2. Len(stack) \in Nat /\ Len(stack') = Len(stack) + 1
  BY LenProperties DEF StackOK, Pushed
<1>3. CASE i = Len(stack')
  BY <1>3 DEF Pushed
<1>4. CASE i # Len(stack')
  <2>1. i \in 1..Len(stack)
    BY <1>1, <1>2, <1>4
  <2>2. QED
    BY <2>1 DEF Pushed
<1>5. QED
  BY <1>3, <1>4

\* A new call has a number of its own, if one is free.
LEMMA AgreeCall ==
  ASSUME TypeInv, AgreeInv, NumberFree, NEW c \in Cmd, Call(c)
  PROVE  AgreeInv'
<1> DEFINE q == [type |-> "MSG", seq |-> seqNum', id |-> calls', cmd |-> c, len |-> 0, val |-> 0]
           f == [kind |-> "call", at |-> "poll", id |-> calls', cmd |-> c,
                 seq |-> seqNum', start |-> clock, waited |-> 0]
<1>1. StackOK /\ Pushed(f)
  BY StackIsOK, CallType
<1>2. seqNum' \notin UsedNumbers
  BY DEF Call, NumberFree
<1>3. Bodies' \subseteq Bodies \cup {q}
  BY DEF Call, Bodies, Sent, ring
<1>4. q.seq = seqNum' /\ q.id = calls' /\ f.seq = seqNum' /\ f.id = calls'
  OBVIOUS
<1> HIDE DEF q, f
<1>5. Agrees(f, Bodies')
  BY <1>2, <1>3, <1>4 DEF Agrees, UsedNumbers
<1>6. ASSUME NEW i \in 1..Len(stack)
      PROVE  Agrees(stack[i], Bodies')
  <2>1. IsCall(stack[i]) => stack[i].seq # seqNum'
    BY <1>1, <1>2 DEF UsedNumbers, StackOK
  <2>2. QED
    BY <1>3, <1>4, <2>1 DEF AgreeInv, Agrees
<1>7. QED
  BY <1>1, <1>5, <1>6, AgreePushed

\* Everything else copies numbers, if it copies anything.
LEMMA NumbersCopied ==
  ASSUME TypeInv, ReleasedOnce, Steps, \A c \in Cmd : ~Call(c)
  PROVE  Copied(Bodies', Bodies)
<1>1. Bodies' \subseteq Bodies => Copied(Bodies', Bodies)
  BY DEF Copied
<1>2. ASSUME NEW d \in 0..MaxLapse, Test(d) PROVE Bodies' \subseteq Bodies
  BY <1>2 DEF Test, Bodies, instance, ring, channel
<1>3. ASSUME PollEmpty \/ PollRefuse \/ \E m \in Readings : PollMessage(m)
      PROVE  Bodies' \subseteq Bodies
  BY <1>3 DEF PollEmpty, PollRefuse, PollMessage, Bodies, ring, channel
<1>4. ASSUME NEW m \in Readings, PollResponse(m) PROVE Bodies' \subseteq Bodies
  <2>1. Following(tail) \in Index /\ m = Oldest
    BY <1>4, FollowingType, ReadIntact DEF PollResponse, TypeInv, TypeOK
  <2>2. Oldest.body \in Bodies
    BY <1>4, <2>1 DEF PollResponse, Oldest, Bodies
  <2>3. QED
    BY <1>4, <2>1, <2>2 DEF PollResponse, Bodies, channel
<1>5. ASSUME NEW ret \in Ret, CallbackReturn(ret) PROVE Bodies' \subseteq Bodies
  <2>1. Top.msg.body \in Body /\ Top.msg.body.val \in Int /\ ret \in Int
    BY <1>5, StackIsOK, TopType, BmAssumption
    DEF CallbackReturn, InCallback, LoopFrame, Message, Body
  <2>2. \A h : Response(h, AppReply(Top.msg.body.cmd, Top.msg.body.val, ret)).type # "MSG"
    BY <2>1, AppReplyType DEF Response, ResponseForm
  <2>3. \A m \in toDev' : m.body.type = "MSG" => m \in toDev
    BY <1>5, <2>2 DEF CallbackReturn, Sent
  <2>4. QED
    BY <1>5, <2>3 DEF CallbackReturn, Bodies
<1>6. ASSUME NEW m \in toApp, Put(m) PROVE Bodies' \subseteq Bodies
  <2>1. Following(head) \in Index /\ slot \in [Index -> Message]
    BY FollowingType DEF TypeInv, TypeOK
  <2>2. \A i \in Index : slot'[i] = slot[i] \/ slot'[i] = m
    BY <1>6, <2>1 DEF Put
  <2>3. toApp' \subseteq toApp /\ UNCHANGED <<toDev, last>>
    BY <1>6 DEF Put
  <2>4. QED
    BY <2>2, <2>3 DEF Bodies
<1>7. ASSUME NEW m \in toDev, NEW ret \in Int, DeviceParse(m, ret) PROVE Copied(Bodies', Bodies)
  <2> DEFINE r == Response(m.body, DeviceReply(m.body.cmd, ret))
  <2>1. r.seq = m.body.seq /\ r.id = m.body.id
    BY DEF Response
  <2>2. m.body \in Bodies
    BY <1>7 DEF DeviceParse, Bodies
  <2>3. Received(m.to, r).body = r
    BY DEF Received
  <2>4. Bodies' \subseteq Bodies \cup {r}
    <3>1. /\ toDev' \subseteq toDev /\ UNCHANGED <<slot, last>>
          /\ toApp' \subseteq toApp \cup {Received(m.to, r)}
      BY <1>7 DEF DeviceParse, ring
    <3> HIDE DEF r
    <3>2. QED
      BY <2>3, <3>1 DEF Bodies
  <2> HIDE DEF r
  <2>5. QED
    BY <2>1, <2>2, <2>4 DEF Copied
<1>8. ASSUME NEW a \in Addr, NEW c \in Note, DeviceNote(a, c) PROVE Bodies' \subseteq Bodies
  <2>1. \A n \in toApp' : n.body.type # "MSG" => n \in toApp
    BY <1>8 DEF DeviceNote, Received
  <2>2. QED
    BY <1>8, <2>1 DEF DeviceNote, Bodies, ring
<1>9. ASSUME Quiet PROVE Bodies' \subseteq Bodies
  <2>1. ASSUME AppInit PROVE Bodies' \subseteq Bodies
    <3>1. \A i \in Index : slot'[i].body.type = "MSG"
      BY <2>1 DEF AppInit, Zeroes, Received
    <3>2. QED
      BY <2>1, <3>1 DEF AppInit, Bodies, channel
  <2>2. ASSUME ~AppInit PROVE Bodies' \subseteq Bodies
    BY <1>9, <2>2 DEF Quiet, Gone, Deinit, vars, Bodies, ring, channel
  <2>3. QED
    BY <2>1, <2>2
<1>10. QED
  BY <1>1, <1>2, <1>3, <1>4, <1>5, <1>6, <1>7, <1>8, <1>9 DEF Steps

LEMMA NextAgree ==
  ASSUME TypeInv, ReleasedOnce, AgreeInv, NumberFree, [Next]_vars
  PROVE  AgreeInv'
<1>1. StackOK /\ Steps
  BY StackIsOK, NextSteps
<1>2. CASE \E c \in Cmd : Call(c)
  BY <1>2, AgreeCall
<1>3. CASE \A c \in Cmd : ~Call(c)
  <2>1. Copied(Bodies', Bodies)
    BY <1>1, <1>3, NumbersCopied
  <2>2. CASE \E m \in Readings : PollMessage(m)
    <3>1. PICK m \in Readings : PollMessage(m)
      BY <2>2
    <3> DEFINE f == [kind |-> "loop", next |-> Following(tail), msg |-> m]
    <3>2. Pushed(f) /\ ~IsCall(f)
      BY <3>1, PollMessageType DEF IsCall
    <3> HIDE DEF f
    <3>3. \A i \in 1..Len(stack) : Agrees(stack[i], Bodies')
      BY <2>1, AgreesOn DEF AgreeInv
    <3>4. QED
      BY <1>1, <3>2, <3>3, AgreePushed DEF Agrees
  <2>3. CASE \E D : Kept(D)
    BY <1>1, <2>1, <2>3, AgreeKept
  <2>4. QED
    BY <1>1, <1>3, <2>2, <2>3, TestType, PollEmptyType, PollRefuseType, PollResponseType,
       CallbackReturnType, PutType, DeviceParseType, DeviceNoteType, QuietType DEF Steps
<1>4. QED
  BY <1>2, <1>3

LEMMA AgreeInvariant ==
  ASSUME ~Reentrant
  PROVE  Spec /\ []NumberFree => [](TypeInv /\ AgreeInv)
<1>1. Init => AgreeInv
  BY EmptySeq DEF Init, AgreeInv
<1>2. TypeInv /\ ReleasedOnce /\ AgreeInv /\ NumberFree /\ [Next]_vars => AgreeInv'
  BY NextAgree
<1>3. QED
  BY <1>1, <1>2, BuffersReleasedOnce, TypeInvariant, PTL DEF Spec

LEMMA AgreeOwn == TypeInv /\ AgreeInv => OwnReply
<1> SUFFICES ASSUME TypeInv, AgreeInv, Calling("test"), Matches
             PROVE  last.body.id = Top.id
  BY DEF OwnReply
<1>1. Top = stack[Len(stack)] /\ Len(stack) \in 1..Len(stack) /\ IsCall(Top)
  BY StackIsOK, TopType DEF Calling, Top
<1>2. last.body \in Bodies
  BY DEF Bodies
<1>3. QED
  BY <1>1, <1>2 DEF AgreeInv, Agrees, Matches

\* With a free number for every call, the response a call takes for its own answers this
\* call, whatever is lost, late or left in last_response, in any session, as long as
\* callbacks make no calls.
THEOREM OwnWhileFree ==
  ASSUME ~Reentrant
  PROVE  Spec => FreeNumbersSuffice
BY AgreeInvariant, AgreeOwn, PTL DEF FreeNumbersSuffice

\* So with one session of fewer than 2^32 calls a call takes its own response only.
THEOREM ResponsesAreOwn ==
  ASSUME ~Reentrant, MaxSessions = 0, MaxCalls < SeqMod
  PROVE  Spec => []OwnReply
BY NumbersAreFree, AgreeInvariant, AgreeOwn, PTL
-----------------------------------------------------------------------------
(* One remote.  An unused slot has no address, so what icap_loop reads must  *)
(* be a slot that icap_put_msg has filled: until head wraps those are the    *)
(* first ones, afterwards all.                                               *)

Filled(i) == slot[i].from \in Addr

RingInv == \/ \A i \in Index : Filled(i)
           \/ /\ tail <= head
              /\ \A i \in 1..head : Filled(i)
              /\ \A i \in 1..Len(stack) : ~IsCall(stack[i]) => stack[i].next \in 1..head

RemoteInv ==
  /\ \A m \in toApp : m.from \in Addr
  /\ sessions = 0 =>
       /\ RingInv
       /\ last.from \in {Unknown, remote}
       /\ \A i \in 1..Len(stack) :
            ~IsCall(stack[i]) => stack[i].msg.from = remote /\ remote \in Addr

\* The slot icap_loop reads has been filled.
LEMMA OldestFilled ==
  ASSUME TypeInv, RingInv, head # tail
  PROVE  /\ Oldest.from \in Addr
         /\ \/ \A i \in Index : Filled(i)
            \/ /\ Following(tail) \in 1..head
               /\ \A i \in 1..head : Filled(i)
               /\ \A i \in 1..Len(stack) : ~IsCall(stack[i]) => stack[i].next \in 1..head
<1>1. Following(tail) \in Index
  BY OldestType
<1>2. CASE \A i \in Index : Filled(i)
  BY <1>1, <1>2 DEF Oldest, Filled
<1>3. CASE /\ tail <= head
           /\ \A i \in 1..head : Filled(i)
           /\ \A i \in 1..Len(stack) : ~IsCall(stack[i]) => stack[i].next \in 1..head
  <2>1. Following(tail) \in 1..head
    BY <1>3, BmAssumption DEF Following, Index, TypeInv, TypeOK
  <2>2. QED
    BY <1>3, <2>1 DEF Oldest, Filled
<1>4. QED
  BY <1>2, <1>3 DEF RingInv

LEMMA InitRemote == Init => RemoteInv
<1> SUFFICES ASSUME Init PROVE RemoteInv
  OBVIOUS
<1>1. Len(stack) = 0
  BY EmptySeq DEF Init
<1>2. RingInv
  BY <1>1 DEF Init, RingInv
<1>3. last.from = Unknown
  BY DEF Init, Zeroes, Received
<1>4. QED
  BY <1>1, <1>2, <1>3 DEF Init, RemoteInv

\* Steps that leave the ring, remote_addr and last_response alone and push no
\* callback.
LEMMA RemoteSame ==
  ASSUME TypeInv, RemoteInv, UNCHANGED <<sessions, remote, ring, last>>,
         \A m \in toApp' : m.from \in Addr,
         \A i \in 1..Len(stack') : ~IsCall(stack'[i]) =>
           i \in 1..Len(stack) /\ ~IsCall(stack[i]) /\ stack'[i] = stack[i]
  PROVE  RemoteInv'
<1>1. RingInv => RingInv'
  BY DEF RingInv, Filled, ring, IsCall
<1>2. QED
  BY <1>1 DEF RemoteInv, IsCall

\* Steps that move tail.
LEMMA RingTail ==
  ASSUME UNCHANGED <<head, slot>>,
         \A i \in 1..Len(stack') : ~IsCall(stack'[i]) =>
           i \in 1..Len(stack) /\ ~IsCall(stack[i]) /\ stack'[i] = stack[i],
         \/ \A i \in Index : Filled(i)
         \/ /\ tail' <= head
            /\ \A i \in 1..head : Filled(i)
            /\ \A i \in 1..Len(stack) : ~IsCall(stack[i]) => stack[i].next \in 1..head
  PROVE  RingInv'
BY DEF RingInv, Filled, IsCall

LEMMA NextRemote ==
  ASSUME TypeInv, ReleasedOnce, RemoteInv, [Next]_vars
  PROVE  RemoteInv'
<1> DEFINE Old(i) == i \in 1..Len(stack) /\ ~IsCall(stack[i]) /\ stack'[i] = stack[i]
<1>1. /\ StackOK /\ {0} \in SUBSET Nat /\ 0..MaxLapse \in SUBSET Nat
      /\ \A D \in SUBSET Nat : Kept(D) =>
           \A i \in 1..Len(stack') : ~IsCall(stack'[i]) => Old(i)
  BY StackIsOK, LoopKept
<1>2. ASSUME NEW c \in Cmd, Call(c)
      PROVE  RemoteInv'
  <2> DEFINE f == [kind |-> "call", at |-> "poll", id |-> calls', cmd |-> c,
                   seq |-> seqNum', start |-> clock, waited |-> 0]
  <2>1. Pushed(f) /\ IsCall(f)
    BY <1>2, CallType DEF IsCall
  <2> HIDE DEF f
  <2>2. \A i \in 1..Len(stack') : ~IsCall(stack'[i]) => Old(i)
    BY <1>1, <2>1, LoopPushed
  <2>3. QED
    BY <1>2, <2>2, RemoteSame DEF Call, instance, RemoteInv
<1>3. ASSUME NEW d \in 0..MaxLapse, Test(d)
      PROVE  RemoteInv'
  <2>1. \A i \in 1..Len(stack') : ~IsCall(stack'[i]) => Old(i)
    BY <1>1, <1>3, TestType
  <2>2. QED
    BY <1>3, <2>1, RemoteSame DEF Test, instance, channel, RemoteInv
<1>4. CASE PollEmpty
  <2>1. \A i \in 1..Len(stack') : ~IsCall(stack'[i]) => Old(i)
    BY <1>1, <1>4, PollEmptyType
  <2>2. QED
    BY <1>4, <2>1, RemoteSame DEF PollEmpty, instance, channel, RemoteInv
<1>5. CASE PollRefuse
  <2>1. \A i \in 1..Len(stack') : ~IsCall(stack'[i]) => Old(i)
    BY <1>1, <1>5, PollRefuseType
  <2>2. ASSUME sessions = 0
        PROVE  RingInv'
    <3>1. head # tail /\ UNCHANGED <<head, slot>> /\ tail' = Following(tail)
      BY <1>5 DEF PollRefuse
    <3>2. \/ \A i \in Index : Filled(i)
          \/ /\ tail' <= head
             /\ \A i \in 1..head : Filled(i)
             /\ \A i \in 1..Len(stack) : ~IsCall(stack[i]) => stack[i].next \in 1..head
      BY <2>2, <3>1, OldestFilled DEF RemoteInv
    <3>3. QED
      BY <2>1, <3>1, <3>2, RingTail
  <2>3. QED
    BY <1>5, <2>1, <2>2 DEF PollRefuse, instance, channel, RemoteInv, IsCall
<1>6. ASSUME NEW m \in Readings, PollResponse(m)
      PROVE  RemoteInv'
  <2>1. \A i \in 1..Len(stack') : ~IsCall(stack'[i]) => Old(i)
    BY <1>1, <1>6, PollResponseType
  <2>2. ASSUME sessions = 0
        PROVE  /\ RingInv' /\ last'.from = remote'
               /\ remote' = remote \/ (remote = Unknown /\ remote' \in Addr)
    <3>1. /\ head # tail /\ UNCHANGED <<head, slot>> /\ tail' = Following(tail)
          /\ last' = Oldest /\ ~Refused(Oldest) /\ Verify(Oldest)
      BY <1>6, ReadIntact DEF PollResponse
    <3>2. /\ Oldest.from \in Addr
          /\ \/ \A i \in Index : Filled(i)
             \/ /\ tail' <= head
                /\ \A i \in 1..head : Filled(i)
                /\ \A i \in 1..Len(stack) : ~IsCall(stack[i]) => stack[i].next \in 1..head
      BY <2>2, <3>1, OldestFilled DEF RemoteInv
    <3>3. RingInv'
      BY <2>1, <3>1, <3>2, RingTail
    <3>4. QED
      BY <3>1, <3>2, <3>3 DEF Refused, Verify
  <2>3. QED
    BY <1>6, <2>1, <2>2, BmAssumption DEF PollResponse, instance, channel, RemoteInv, IsCall
<1>7. ASSUME NEW m \in Readings, PollMessage(m)
      PROVE  RemoteInv'
  <2> DEFINE f == [kind |-> "loop", next |-> Following(tail), msg |-> Oldest]
  <2>a. m = Oldest
    BY <1>7, ReadIntact DEF PollMessage
  <2>1. \A i \in 1..Len(stack') : ~IsCall(stack'[i]) => Old(i) \/ stack'[i] = f
    BY <1>1, <1>7, <2>a, PollMessageType, LoopPushed
  <2>2. f.next = Following(tail) /\ f.msg = Oldest
    OBVIOUS
  <2> HIDE DEF f
  <2>3. /\ head # tail /\ UNCHANGED <<sessions, ring, last, toApp>>
        /\ ~Refused(Oldest) /\ Verify(Oldest)
    BY <1>7, <2>a DEF PollMessage, instance, channel
  <2>4. ASSUME sessions = 0
        PROVE  /\ RingInv'
               /\ Oldest.from = remote' /\ remote' \in Addr
               /\ remote' = remote \/ remote = Unknown
    <3>1. /\ Oldest.from \in Addr
          /\ \/ \A i \in Index : Filled(i)
             \/ /\ Following(tail) \in 1..head
                /\ \A i \in 1..head : Filled(i)
                /\ \A i \in 1..Len(stack) : ~IsCall(stack[i]) => stack[i].next \in 1..head
      BY <2>3, <2>4, OldestFilled DEF RemoteInv
    <3>2. ASSUME \A i \in Index : Filled(i)
          PROVE  RingInv'
      BY <2>3, <3>2 DEF RingInv, Filled, ring
    <3>3. ASSUME tail <= head, ~(\A i \in Index : Filled(i))
          PROVE  RingInv'
      BY <2>1, <2>2, <2>3, <3>1, <3>3 DEF RingInv, Filled, ring, IsCall
    <3>4. RingInv'
      BY <2>4, <3>2, <3>3 DEF RemoteInv, RingInv
    <3>5. QED
      BY <2>3, <3>1, <3>4 DEF Refused, Verify
  <2>5. QED
    BY <2>1, <2>2, <2>3, <2>4, BmAssumption DEF RemoteInv, IsCall
<1>8. ASSUME NEW ret \in Ret, CallbackReturn(ret)
      PROVE  RemoteInv'
  <2>1. \A i \in 1..Len(stack') : ~IsCall(stack'[i]) => Old(i)
    BY <1>1, <1>8, CallbackReturnType
  <2>2. ASSUME sessions = 0
        PROVE  RingInv'
    <3>1. UNCHANGED <<head, slot>> /\ tail' = Top.next
      BY <1>8 DEF CallbackReturn
    <3>2. ~IsCall(Top) /\ Len(stack) \in 1..Len(stack) /\ Top = stack[Len(stack)]
      BY <1>1, <1>8, TopType DEF CallbackReturn, InCallback
    <3>3. head \in Nat
      BY BmAssumption DEF Index, TypeInv, TypeOK
    <3>4. \/ \A i \in Index : Filled(i)
          \/ /\ tail' <= head
             /\ \A i \in 1..head : Filled(i)
             /\ \A i \in 1..Len(stack) : ~IsCall(stack[i]) => stack[i].next \in 1..head
      BY <2>2, <3>1, <3>2, <3>3 DEF RemoteInv, RingInv
    <3>5. QED
      BY <2>1, <3>1, <3>4, RingTail
  <2>3. QED
    BY <1>8, <2>1, <2>2 DEF CallbackReturn, instance, history, RemoteInv, IsCall
<1>9. ASSUME NEW m \in toApp, Put(m)
      PROVE  RemoteInv'
  <2>1. \A i \in 1..Len(stack') : ~IsCall(stack'[i]) => Old(i)
    BY <1>1, <1>9, PutType
  <2>2. m.from \in Addr
    BY DEF RemoteInv
  <2>3. CASE UNCHANGED <<slot, head, held>>
    BY <1>9, <2>1, <2>3, RemoteSame DEF Put, instance, ring, RemoteInv
  <2>4. CASE /\ slot' = [slot EXCEPT ![Following(head)] = m]
             /\ head' = Following(head)
    <3>1. /\ Following(head) \in Index /\ head \in Nat
          /\ slot \in [Index -> Message] /\ tail' = tail
      BY <1>9, FollowingType DEF Put, Index, TypeInv, TypeOK
    <3>2. \A i \in Index : Filled(i) \/ i = Following(head) => slot'[i].from \in Addr
      BY <2>2, <2>4, <3>1 DEF Filled
    <3>3. CASE \A i \in Index : Filled(i)
      <4>1. RingInv'
        BY <3>2, <3>3 DEF RingInv, Filled
      <4>2. QED
        BY <1>9, <2>1, <4>1 DEF Put, instance, history, RemoteInv, IsCall
    <3>4. CASE /\ tail <= head
               /\ \A i \in 1..head : Filled(i)
               /\ \A i \in 1..Len(stack) : ~IsCall(stack[i]) => stack[i].next \in 1..head
      <4>1. CASE Following(head) = 0
        <5>1. \A i \in Index : i \in 1..head \/ i = Following(head)
          BY <3>1, <4>1, BmAssumption DEF Following, Index, TypeInv, TypeOK
        <5>2. RingInv'
          BY <3>2, <3>4, <5>1 DEF RingInv, Filled
        <5>3. QED
          BY <1>9, <2>1, <5>2 DEF Put, instance, history, RemoteInv, IsCall
      <4>2. CASE Following(head) # 0
        <5>1. head' = head + 1 /\ \A i \in 1..head' : i \in Index /\ (i \in 1..head \/ i = Following(head))
          BY <2>4, <3>1, <4>2, BmAssumption DEF Following, Index, TypeInv, TypeOK
        <5>2. \A i \in 1..head' : slot'[i].from \in Addr
          BY <3>2, <3>4, <5>1
        <5>3. tail' <= head' /\ 1..head \subseteq 1..head'
          BY <3>1, <3>4, <5>1, BmAssumption DEF Index, TypeInv, TypeOK
        <5>4. RingInv'
          BY <2>1, <3>4, <5>2, <5>3 DEF RingInv, Filled, IsCall
        <5>5. QED
          BY <1>9, <2>1, <5>4 DEF Put, instance, history, RemoteInv, IsCall
      <4>3. QED
        BY <4>1, <4>2
    <3>5. CASE sessions # 0
      BY <1>9, <3>5 DEF Put, instance, RemoteInv
    <3>6. QED
      BY <3>3, <3>4, <3>5 DEF RemoteInv, RingInv
  <2>5. QED
    BY <1>9, <2>3, <2>4 DEF Put
<1>10. ASSUME NEW m \in toDev, NEW ret \in Int, DeviceParse(m, ret)
       PROVE  RemoteInv'
  <2>1. \A i \in 1..Len(stack') : ~IsCall(stack'[i]) => Old(i)
    BY <1>1, <1>10, DeviceParseType
  <2>2. \A n \in toApp' : n.from \in Addr
    BY <1>10 DEF DeviceParse, Received, RemoteInv
  <2>3. QED
    BY <1>10, <2>1, <2>2, RemoteSame DEF DeviceParse, instance
<1>11. ASSUME NEW a \in Addr, NEW c \in Note, DeviceNote(a, c)
       PROVE  RemoteInv'
  <2>1. \A i \in 1..Len(stack') : ~IsCall(stack'[i]) => Old(i)
    BY <1>1, <1>11, DeviceNoteType
  <2>2. \A n \in toApp' : n.from \in Addr
    BY <1>11 DEF DeviceNote, Received, RemoteInv
  <2>3. QED
    BY <1>11, <2>1, <2>2, RemoteSame DEF DeviceNote, instance
<1>12. CASE Quiet
  <2>1. \A i \in 1..Len(stack') : ~IsCall(stack'[i]) => Old(i)
    BY <1>1, <1>12, QuietType
  <2>2. CASE AppInit
    <3>1. sessions' # 0 /\ toApp' = toApp
      BY <2>2 DEF AppInit, channel, TypeInv, TypeOK
    <3>2. QED
      BY <3>1 DEF RemoteInv
  <2>3. CASE ~AppInit
    <3>1. UNCHANGED <<sessions, remote, ring, last, toApp>>
      BY <1>12, <2>3 DEF Quiet, Gone, Deinit, vars, instance, ring, channel
    <3>2. QED
      BY <2>1, <3>1, RemoteSame DEF RemoteInv
  <2>4. QED
    BY <2>2, <2>3
<1>13. QED
  BY <1>2, <1>3, <1>4, <1>5, <1>6, <1>7, <1>8, <1>9, <1>10, <1>11, <1>12, NextSteps DEF Steps

\* "ICAP is one-to-one communication": until the instance is initialised again,
\* every response taken and every message whose callback runs came from the first
\* endpoint heard, for every ring size and number of endpoints, as long as callbacks
\* make no calls.
THEOREM OneRemote ==
  ASSUME ~Reentrant
  PROVE  Spec => []OneToOne
<1>1. TypeInv /\ ReleasedOnce /\ RemoteInv /\ [Next]_vars => RemoteInv'
  BY NextRemote
<1>2. TypeInv /\ RemoteInv => OneToOne
  <2>1. SUFFICES ASSUME TypeInv, RemoteInv
                 PROVE  OneToOne
    OBVIOUS
  <2>2. DOMAIN stack = 1..Len(stack)
    BY StackIsOK, LenProperties, <2>1 DEF StackOK
  <2>3. QED
    BY <2>1, <2>2 DEF RemoteInv, OneToOne
<1>3. QED
  BY <1>1, <1>2, InitRemote, BuffersReleasedOnce, TypeInvariant, PTL DEF Spec
-----------------------------------------------------------------------------
(* Messages of the device.  Without calls from callbacks one callback runs  *)
(* for each, in every session.                                              *)

IsNote(m) == m.body.type = "MSG"

\* The slots with messages of the device that icap_loop has not left behind.
Waiting(h, t, s) == {i \in Index : Used(i, h, t) /\ IsNote(s[i])}

\* The device numbers its messages, the ones in flight and in the ring are
\* different ones, and no callback has run for those in flight.
FlightInv(T, n, hd) ==
  /\ \A m \in T : IsNote(m) => m.body.id \in 1..n /\ hd[m.body.id] = 0
  /\ \A l, m \in T : IsNote(l) /\ IsNote(m) /\ l.body.id = m.body.id => l = m

WaitInv(W, T, s, n) ==
  /\ \A i \in W : s[i].body.id \in 1..n
  /\ \A i, j \in W : s[i].body.id = s[j].body.id => i = j
  /\ \A i \in W, m \in T : IsNote(m) => s[i].body.id # m.body.id

\* A callback has run only for a message that icap_loop has left behind, or for
\* the one at tail, from whose callback icap_loop has not returned.
TellInv(W, t, s, n, hd, busy) ==
  /\ \A k \in 1..MaxNotes : hd[k] <= 1 /\ (k > n => hd[k] = 0)
  /\ \A i \in W : hd[s[i].body.id] = 0 \/ (busy /\ i = Following(t))

NoteInv == /\ FlightInv(toApp, notes, handled)
           /\ WaitInv(Waiting(head, tail, slot), toApp, slot, notes)
           /\ TellInv(Waiting(head, tail, slot), tail, slot, notes, handled, InCallback)
-----------------------------------------------------------------------------
(* The ring. *)

\* A slot leaves at tail.
LEMMA WaitingTail ==
  ASSUME NEW h \in Index, NEW t \in Index, h # t, NEW s
  PROVE  Waiting(h, Following(t), s) = Waiting(h, t, s) \ {Following(t)}
BY UsedTail DEF Waiting

\* A slot is filled at head.
LEMMA WaitingPut ==
  ASSUME NEW h \in Index, NEW t \in Index, Following(h) # t,
         NEW s \in [Index -> Message], NEW m \in Message,
         NEW r, r = [s EXCEPT ![Following(h)] = m]
  PROVE  /\ \A i \in Waiting(Following(h), t, r) :
              \/ i \in Waiting(h, t, s) /\ r[i] = s[i]
              \/ i = Following(h) /\ r[i] = m /\ IsNote(m)
         /\ Following(h) \notin Waiting(h, t, s)
BY UsedPut, FollowingType DEF Waiting

LEMMA WaitingEmpty ==
  ASSUME NEW s
  PROVE  Waiting(0, 0, s) = {}
BY DEF Waiting, Used, Index
-----------------------------------------------------------------------------
(* What the steps do to the messages. *)

LEMMA InitNote == Init => NoteInv
<1> SUFFICES ASSUME Init PROVE NoteInv
  OBVIOUS
<1>1. Waiting(head, tail, slot) = {}
  BY WaitingEmpty DEF Init
<1>2. FlightInv(toApp, notes, handled)
  BY DEF Init, FlightInv
<1>3. TellInv({}, tail, slot, notes, handled, InCallback)
  BY DEF Init, TellInv
<1>4. QED
  BY <1>1, <1>2, <1>3 DEF NoteInv, WaitInv

\* Steps that leave the ring and the callback alone: at most a response comes.
LEMMA NoteSame ==
  ASSUME NoteInv, UNCHANGED <<head, tail, slot, notes, handled>>,
         InCallback' <=> InCallback,
         \A m \in toApp' : m \in toApp \/ ~IsNote(m)
  PROVE  NoteInv'
<1>1. FlightInv(toApp', notes, handled)
  BY DEF NoteInv, FlightInv
<1>2. WaitInv(Waiting(head, tail, slot), toApp', slot, notes)
  BY DEF NoteInv, WaitInv
<1>3. TellInv(Waiting(head, tail, slot), tail, slot, notes, handled, InCallback')
  BY DEF NoteInv, TellInv
<1>4. QED
  BY <1>1, <1>2, <1>3 DEF NoteInv

\* icap_loop leaves a message behind.
LEMMA NoteTail ==
  ASSUME TypeInv, NoteInv, head # tail, tail' = Following(tail), ~InCallback',
         UNCHANGED <<head, slot, notes, handled, toApp>>
  PROVE  NoteInv'
<1> DEFINE W == Waiting(head, tail, slot)
           V == Waiting(head, Following(tail), slot)
<1>1. V = W \ {Following(tail)}
  BY WaitingTail DEF TypeInv, TypeOK
<1>2. /\ FlightInv(toApp, notes, handled)
      /\ WaitInv(W, toApp, slot, notes)
      /\ TellInv(W, tail, slot, notes, handled, InCallback)
  BY DEF NoteInv
<1> HIDE DEF W, V
<1>3. WaitInv(V, toApp, slot, notes)
  BY <1>1, <1>2 DEF WaitInv
<1>4. TellInv(V, Following(tail), slot, notes, handled, InCallback')
  BY <1>1, <1>2 DEF TellInv
<1>5. QED
  BY <1>2, <1>3, <1>4 DEF NoteInv, V

LEMMA PutNote ==
  ASSUME TypeInv, NoteInv, NEW m \in toApp, Put(m)
  PROVE  NoteInv'
<1>1. /\ UNCHANGED <<tail, notes, handled, stack>> /\ toApp' = toApp \ {m}
      /\ m \in Message /\ slot \in [Index -> Message]
      /\ head \in Index /\ tail \in Index
      /\ Following(head) \in Index /\ Following(tail) \in Index
  BY FollowingType DEF Put, history, TypeInv, TypeOK
<1>2. InCallback' <=> InCallback
  BY <1>1 DEF InCallback, Top
<1>3. CASE UNCHANGED <<slot, head>>
  BY <1>1, <1>2, <1>3, NoteSame
<1>4. CASE /\ Following(head) # tail
           /\ slot' = [slot EXCEPT ![Following(head)] = m] /\ head' = Following(head)
  <2> DEFINE W == Waiting(head, tail, slot)
             V == Waiting(head', tail, slot')
  <2>1. /\ \A i \in V : \/ i \in W /\ slot'[i] = slot[i]
                        \/ i = Following(head) /\ slot'[i] = m /\ IsNote(m)
        /\ Following(head) \notin W
    <3> DEFINE r == [slot EXCEPT ![Following(head)] = m]
    <3>1. slot' = r /\ V = Waiting(Following(head), tail, r)
      BY <1>1, <1>4
    <3> HIDE DEF r, V, W
    <3>2. /\ \A i \in Waiting(Following(head), tail, r) :
              \/ i \in Waiting(head, tail, slot) /\ r[i] = slot[i]
              \/ i = Following(head) /\ r[i] = m /\ IsNote(m)
          /\ Following(head) \notin Waiting(head, tail, slot)
      BY <1>1, <1>4, WaitingPut DEF r
    <3>3. QED
      BY <3>1, <3>2 DEF W
  <2>2. /\ FlightInv(toApp, notes, handled)
        /\ WaitInv(W, toApp, slot, notes)
        /\ TellInv(W, tail, slot, notes, handled, InCallback)
    BY DEF NoteInv
  <2> HIDE DEF W, V
  <2>3. FlightInv(toApp', notes, handled)
    BY <1>1, <2>2 DEF FlightInv
  <2>4. \A i \in V, l \in toApp' : IsNote(l) => slot'[i].body.id # l.body.id
    <3>1. SUFFICES ASSUME NEW i \in V, NEW l \in toApp', IsNote(l)
                   PROVE  slot'[i].body.id # l.body.id
      OBVIOUS
    <3>2. l \in toApp /\ l # m
      BY <1>1
    <3>3. QED
      BY <2>1, <2>2, <3>1, <3>2 DEF WaitInv, FlightInv
  <2>5. \A i \in V : slot'[i].body.id \in 1..notes
    BY <2>1, <2>2 DEF WaitInv, FlightInv
  <2>6. \A i, j \in V : slot'[i].body.id = slot'[j].body.id => i = j
    BY <2>1, <2>2 DEF WaitInv
  <2>7. WaitInv(V, toApp', slot', notes)
    BY <2>4, <2>5, <2>6 DEF WaitInv
  <2>8. \A i \in V : handled[slot'[i].body.id] = 0 \/ (InCallback /\ i = Following(tail))
    BY <2>1, <2>2 DEF TellInv, FlightInv
  <2>9. TellInv(V, tail, slot', notes, handled, InCallback')
    BY <1>2, <2>2, <2>8 DEF TellInv
  <2>10. QED
    BY <1>1, <2>3, <2>7, <2>9 DEF NoteInv, V
<1>5. QED
  BY <1>3, <1>4 DEF Put

LEMMA PollMessageNote ==
  ASSUME TypeInv, BufferInv, NoteInv, PollMessage(Oldest), Oldest \in Readings
  PROVE  NoteInv'
<1> DEFINE W == Waiting(head, tail, slot)
           k == Oldest.body.id
<1>1. /\ head # tail /\ head \in Index /\ tail \in Index /\ Following(tail) \in Index
      /\ handled \in [1..MaxNotes -> Nat] /\ notes \in 0..MaxNotes
      /\ UNCHANGED <<head, tail, slot, notes, toApp>>
      /\ handled' = [handled EXCEPT ![k] = handled[k] + 1]
      /\ IsNote(slot[Following(tail)]) /\ k = slot[Following(tail)].body.id
  BY OldestType DEF PollMessage, ring, channel, IsNote, Oldest, TypeInv, TypeOK
<1>2. Following(tail) \in W
  BY <1>1, UsedTail DEF Waiting
<1>3. ~InCallback /\ InCallback'
  BY PollMessageBuffer
<1>5. /\ FlightInv(toApp, notes, handled)
      /\ WaitInv(W, toApp, slot, notes)
      /\ TellInv(W, tail, slot, notes, handled, FALSE)
  BY <1>3 DEF NoteInv, TellInv
<1> HIDE DEF W, k
<1>6. k \in 1..notes /\ handled[k] = 0 /\ k \in 1..MaxNotes
  BY <1>1, <1>2, <1>5, BmAssumption DEF WaitInv, TellInv
<1>7. /\ handled'[k] = 1
      /\ \A n \in 1..MaxNotes : n # k => handled'[n] = handled[n]
  BY <1>1, <1>6
<1>8. 1..notes \subseteq 1..MaxNotes
  BY <1>1, BmAssumption
<1>9. FlightInv(toApp, notes, handled')
  <2>1. \A m \in toApp : IsNote(m) => m.body.id # k
    BY <1>1, <1>2, <1>5 DEF WaitInv
  <2>2. QED
    BY <1>5, <1>7, <1>8, <2>1 DEF FlightInv
<1>10. TellInv(W, tail, slot, notes, handled', TRUE)
  <2>1. \A n \in 1..MaxNotes : handled'[n] <= 1 /\ (n > notes => handled'[n] = 0)
    BY <1>1, <1>5, <1>6, <1>7 DEF TellInv
  <2>2. \A i \in W : i # Following(tail) => slot[i].body.id # k
    BY <1>1, <1>2, <1>5 DEF WaitInv
  <2>3. \A i \in W : i # Following(tail) => handled'[slot[i].body.id] = 0
    BY <1>5, <1>7, <1>8, <2>2 DEF WaitInv, TellInv
  <2>4. QED
    BY <2>1, <2>3 DEF TellInv
<1>11. TellInv(W, tail, slot, notes, handled', InCallback')
  BY <1>3, <1>10 DEF TellInv
<1>12. QED
  BY <1>1, <1>5, <1>9, <1>11 DEF NoteInv, W

LEMMA DeviceNoteNote ==
  ASSUME TypeInv, NoteInv, NEW a \in Addr, NEW c \in Note, DeviceNote(a, c)
  PROVE  NoteInv'
<1> DEFINE m == Received(a, [type |-> "MSG", seq |-> notes', id |-> notes',
                             cmd |-> c, len |-> WordLen, val |-> 0])
           W == Waiting(head, tail, slot)
<1>1. /\ UNCHANGED <<head, tail, slot, handled, stack>> /\ notes' = notes + 1
      /\ toApp' = toApp \cup {m} /\ m.body.id = notes'
      /\ notes \in 0..MaxNotes /\ notes < MaxNotes
  BY DEF DeviceNote, Received, ring, TypeInv, TypeOK
<1>2. /\ FlightInv(toApp, notes, handled)
      /\ WaitInv(W, toApp, slot, notes)
      /\ TellInv(W, tail, slot, notes, handled, InCallback)
  BY DEF NoteInv
<1> HIDE DEF m, W
<1>3. notes' \in 1..MaxNotes /\ handled[notes'] = 0 /\ notes' \notin 1..notes
      /\ 1..notes \subseteq 1..notes' /\ notes' \in 1..notes'
  BY <1>1, <1>2, BmAssumption DEF TellInv
<1>4. FlightInv(toApp', notes', handled)
  BY <1>1, <1>2, <1>3 DEF FlightInv
<1>5. WaitInv(W, toApp', slot, notes')
  BY <1>1, <1>2, <1>3 DEF WaitInv
<1>6. \A n \in 1..MaxNotes : n > notes' => n > notes
  BY <1>1
<1>7. InCallback' <=> InCallback
  BY <1>1 DEF InCallback, Top
<1>8. TellInv(W, tail, slot, notes', handled, InCallback')
  BY <1>2, <1>6, <1>7 DEF TellInv
<1>9. QED
  BY <1>1, <1>4, <1>5, <1>8 DEF NoteInv, W
-----------------------------------------------------------------------------
LEMMA NextNote ==
  ASSUME ~Reentrant, TypeInv, ClockInv, BufferInv, NoteInv, [Next]_vars
  PROVE  NoteInv'
<1>1. StackOK /\ HeldInv
  BY StackIsOK DEF BufferInv
<1>2. ASSUME NEW c \in Cmd, Call(c)
      PROVE  NoteInv'
  BY <1>2, CallOutside, NoteSame DEF Call, ring
<1>3. ASSUME NEW d \in 0..MaxLapse, Test(d)
      PROVE  NoteInv'
  BY <1>3, TestOutside, NoteSame DEF Test, ring, channel
<1>4. CASE PollEmpty
  <2>1. ~InCallback /\ ~InCallback'
    BY <1>1, <1>4, NoCallback DEF PollEmpty, CanPoll
  <2>2. QED
    BY <1>4, <2>1, NoteSame DEF PollEmpty, ring, channel, history
<1>5. CASE PollRefuse
  <2>1. ~InCallback'
    BY <1>1, <1>5, NoCallback DEF PollRefuse
  <2>2. QED
    BY <1>5, <2>1, NoteTail DEF PollRefuse, channel, history
<1>6. ASSUME NEW m \in Readings, PollResponse(m)
      PROVE  NoteInv'
  <2>1. ~InCallback'
    BY <1>1, <1>6, NoCallback DEF PollResponse
  <2>2. QED
    BY <1>6, <2>1, NoteTail DEF PollResponse, channel, history
<1>7. ASSUME NEW m \in Readings, PollMessage(m)
      PROVE  NoteInv'
  <2>1. m = Oldest
    BY <1>1, <1>7, OldestIntact DEF PollMessage
  <2>2. QED
    BY <1>7, <2>1, PollMessageNote
<1>8. ASSUME NEW ret \in Ret, CallbackReturn(ret)
      PROVE  NoteInv'
  <2>1. /\ InCallback /\ ~InCallback' /\ tail' = Top.next
        /\ UNCHANGED <<head, slot, toApp, notes, handled>>
    BY <1>1, <1>8, CallbackOver DEF CallbackReturn, history
  <2>2. head # tail /\ tail' = Following(tail)
    BY <2>1 DEF BufferInv, PlaceInv
  <2>3. QED
    BY <2>1, <2>2, NoteTail
<1>9. ASSUME NEW m \in toApp, Put(m)
      PROVE  NoteInv'
  BY <1>9, PutNote
<1>10. ASSUME NEW m \in toDev, NEW ret \in Int, DeviceParse(m, ret)
       PROVE  NoteInv'
  <2>1. UNCHANGED <<head, tail, slot, stack, notes, handled>>
    BY <1>10 DEF DeviceParse, ring
  <2>2. InCallback' <=> InCallback
    BY <2>1 DEF InCallback, Top
  <2>3. \A l \in toApp' : l \in toApp \/ ~IsNote(l)
    <3>1. m.body \in Body
      BY DEF TypeInv, TypeOK
    <3>2. Response(m.body, DeviceReply(m.body.cmd, ret)).type # "MSG"
      BY <3>1, DeviceReplyType, ResponseType
    <3>3. QED
      BY <1>10, <3>2 DEF DeviceParse, Received, IsNote
  <2>4. QED
    BY <2>1, <2>2, <2>3, NoteSame
<1>11. ASSUME NEW a \in Addr, NEW c \in Note, DeviceNote(a, c)
       PROVE  NoteInv'
  BY <1>11, DeviceNoteNote
<1>12. CASE Quiet
  <2>1. UNCHANGED <<stack, notes, handled, toApp>>
    BY <1>12 DEF Quiet, Gone, Deinit, AppInit, vars, channel, history
  <2>2. InCallback' <=> InCallback
    BY <2>1 DEF InCallback, Top
  <2>3. CASE AppInit
    <3>1. ~InCallback /\ head' = 0 /\ tail' = 0
      BY <2>3 DEF AppInit, InCallback
    <3>2. Waiting(head', tail', slot') = {}
      BY <3>1, WaitingEmpty
    <3>3. WaitInv({}, toApp, slot', notes)
      BY DEF WaitInv
    <3>4. TellInv({}, tail', slot', notes, handled, InCallback')
      BY DEF NoteInv, TellInv
    <3>5. QED
      BY <2>1, <3>2, <3>3, <3>4 DEF NoteInv
  <2>4. CASE ~AppInit
    <3>1. UNCHANGED <<head, tail, slot>>
      BY <1>12, <2>4 DEF Quiet, Gone, Deinit, vars, ring
    <3>2. QED
      BY <2>1, <2>2, <3>1, NoteSame
  <2>5. QED
    BY <2>3, <2>4
<1>13. QED
  BY <1>2, <1>3, <1>4, <1>5, <1>6, <1>7, <1>8, <1>9, <1>10, <1>11, <1>12, NextSteps DEF Steps

\* A message of the device triggers its callback once: as long as callbacks make
\* no calls, icap_loop moves on from a message before it reads the ring again, for
\* every ring size, whatever is lost, refused, or wiped by an initialisation.
THEOREM HandledAtMostOnce ==
  ASSUME ~Reentrant
  PROVE  Spec => []HandledOnce
<1>1. TypeInv /\ ClockInv /\ BufferInv /\ NoteInv /\ [Next]_vars => NoteInv'
  BY NextNote
<1>2. NoteInv => HandledOnce
  BY DEF NoteInv, TellInv, HandledOnce
<1>3. QED
  BY <1>1, <1>2, InitNote, BufferInvariant, ClockInvariant, TypeInvariant, PTL DEF Spec
=============================================================================
