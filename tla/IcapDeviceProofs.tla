-------------------------- MODULE IcapDeviceProofs --------------------------
(***************************************************************************)
(* Proofs about IcapDevice, for any number of contexts, messages, sessions *)
(* and initialisations, on every pairing of transports.                    *)
(***************************************************************************)
EXTENDS IcapDevice, IcapMsgProofs, FiniteSetTheorems, SequenceTheorems, TLAPS

\* A context inside a device function has its note.
CtxInv == \A c \in Context : ctx[c].at # "idle" => ctx[c].id \in 1..Len(notes)

TypeInv == TypeOK /\ CtxInv

\* The types of the channels, and of what is parsed.
ChanOK == DOMAIN chan = Side /\ chan["app"] \in Seq(Message) /\ chan["dev"] \in Seq(Reply)
ParsingOK == /\ DOMAIN parsing = Side
             /\ parsing["app"] \in Message \cup {NoMsg}
             /\ parsing["dev"] \in Reply \cup {NoMsg}
Frames == [at : Place, id : Nat, num : Number]

Kind(s) == IF s = "app" THEN Message ELSE Reply

-----------------------------------------------------------------------------
(* Channels. *)

LEMMA Sides == Side = {"app", "dev"} /\ "app" # "dev" /\ "app" \in Side /\ "dev" \in Side
BY DEF Side

LEMMA PostType ==
  ASSUME ChanOK, NEW s \in Side, NEW m \in Kind(s), Post(s, m)
  PROVE  /\ ChanOK'
         /\ \A r \in Side \ {s} : chan'[r] = chan[r]
         /\ chan'[s] = chan[s] \/ chan'[s] = Append(chan[s], m)
<1>1. CASE UNCHANGED chan
  BY <1>1 DEF ChanOK
<1>2. CASE chan' = [chan EXCEPT ![s] = Append(chan[s], m)]
  <2>1. DOMAIN chan' = Side /\ \A r \in Side \ {s} : chan'[r] = chan[r]
    BY <1>2 DEF ChanOK
  <2>2. chan'[s] = Append(chan[s], m)
    BY <1>2 DEF ChanOK
  <2>3. chan'["app"] \in Seq(Message)
    BY <2>1, <2>2, Sides DEF ChanOK, Kind
  <2>4. chan'["dev"] \in Seq(Reply)
    BY <2>1, <2>2, Sides DEF ChanOK, Kind
  <2>5. QED
    BY <2>1, <2>2, <2>3, <2>4 DEF ChanOK
<1>3. QED
  BY <1>1, <1>2 DEF Post

LEMMA TakeType ==
  ASSUME ChanOK, NEW s \in Side, chan[s] # <<>>, chan' = [chan EXCEPT ![s] = Tail(@)]
  PROVE  /\ ChanOK'
         /\ Head(chan[s]) \in Kind(s)
         /\ \A r \in Side \ {s} : chan'[r] = chan[r]
         /\ chan'[s] = Tail(chan[s])
<1>1. DOMAIN chan' = Side /\ chan'[s] = Tail(chan[s]) /\ \A r \in Side \ {s} : chan'[r] = chan[r]
  BY DEF ChanOK
<1>2. chan[s] \in Seq(Kind(s))
  BY Sides DEF ChanOK, Kind
<1>3. Head(chan[s]) \in Kind(s) /\ Tail(chan[s]) \in Seq(Kind(s))
  BY <1>2, HeadTailProperties
<1>4. chan'["app"] \in Seq(Message) /\ chan'["dev"] \in Seq(Reply)
  BY <1>1, <1>3, Sides DEF ChanOK, Kind
<1>5. QED
  BY <1>1, <1>3, <1>4 DEF ChanOK

-----------------------------------------------------------------------------
(* The type invariant. *)

LEMMA InitType == Init => TypeInv
<1> SUFFICES ASSUME Init PROVE TypeInv
  OBVIOUS
<1> USE DeviceAssumption DEF Init
<1>1. chan["app"] = <<>> /\ chan["dev"] = <<>> /\ DOMAIN chan = Side
  BY Sides
<1>2. parsing["app"] = NoMsg /\ parsing["dev"] = NoMsg /\ DOMAIN parsing = Side
  BY Sides
<1>3. Len(notes) = 0 /\ 0 \in Number
  BY DEF Number
<1>4. ctx \in [Context -> [at : Place, id : 0..Len(notes), num : Number]]
  BY <1>3 DEF Idle, Place
<1>5. TypeOK
  <2>1. /\ transport \in Pairings /\ life \in [Side -> {"up", "closing", "down", "callbacks"}]
        /\ sessions \in [Side -> 0..MaxSessions]
    OBVIOUS
  <2>2. /\ seqNum \in Number /\ owner \in Context \cup {NoContext}
        /\ notes \in Seq(Records) /\ told \in Seq([id : Nat, ret : Int])
        /\ heard \in Seq([nth : Nat, val : Int])
    BY <1>3
  <2>3. chan["app"] \in Seq(Message) /\ chan["dev"] \in Seq(Reply)
    BY ONLY <1>1
  <2>4. QED
    BY ONLY <1>1, <1>2, <1>4, <2>1, <2>2, <2>3 DEF TypeOK
<1>6. CtxInv
  BY DEF CtxInv, Idle
<1>7. QED
  BY <1>5, <1>6 DEF TypeInv

\* A context moves to another place and keeps its note.
LEMMA MoveType ==
  ASSUME TypeInv, NEW c \in Context, NEW at \in Place, NEW n \in Number, ctx[c].at # "idle",
         ctx' = [ctx EXCEPT ![c].at = at, ![c].num = n], Len(notes') = Len(notes)
  PROVE  /\ ctx' \in [Context -> [at : Place, id : 0..Len(notes'), num : Number]]
         /\ CtxInv'
         /\ ctx'[c] = [at |-> at, id |-> ctx[c].id, num |-> n]
         /\ \A d \in Context \ {c} : ctx'[d] = ctx[d]
<1>1. ctx \in [Context -> [at : Place, id : 0..Len(notes), num : Number]]
  BY DEF TypeInv, TypeOK
<1>2. ctx'[c] = [at |-> at, id |-> ctx[c].id, num |-> n] /\ \A d \in Context \ {c} : ctx'[d] = ctx[d]
  BY <1>1
<1>3. ctx' \in [Context -> [at : Place, id : 0..Len(notes'), num : Number]]
  BY <1>1
<1>4. CtxInv'
  <2>1. ctx'[c].id = ctx[c].id /\ ctx[c].id \in 1..Len(notes)
    BY <1>2 DEF TypeInv, CtxInv
  <2>2. QED
    BY <1>2, <2>1 DEF TypeInv, CtxInv
<1>5. QED
  BY <1>2, <1>3, <1>4

\* A context returns.
LEMMA RestType ==
  ASSUME TypeInv, NEW c \in Context, ctx' = [ctx EXCEPT ![c] = Idle], UNCHANGED notes
  PROVE  /\ ctx' \in [Context -> [at : Place, id : 0..Len(notes'), num : Number]]
         /\ CtxInv'
         /\ ctx'[c] = Idle
         /\ \A d \in Context \ {c} : ctx'[d] = ctx[d]
<1>1. ctx \in [Context -> [at : Place, id : 0..Len(notes), num : Number]] /\ notes \in Seq(Records)
  BY DEF TypeInv, TypeOK
<1>2. ctx'[c] = Idle /\ \A d \in Context \ {c} : ctx'[d] = ctx[d]
  BY <1>1
<1>3. 0 \in Number /\ "idle" \in Place /\ 0 \in 0..Len(notes)
  BY <1>1, DeviceAssumption DEF Number, Place
<1>4. ctx' \in [Context -> [at : Place, id : 0..Len(notes'), num : Number]]
  BY <1>1, <1>3 DEF Idle
<1>5. CtxInv'
  BY <1>2 DEF TypeInv, CtxInv, Idle
<1>6. QED
  BY <1>2, <1>4, <1>5

\* notes does not get shorter, and a note keeps its command, argument and session.
NotesKept == /\ Len(notes') >= Len(notes)
             /\ \A i \in 1..Len(notes) : /\ notes'[i].cmd = notes[i].cmd
                                         /\ notes'[i].arg = notes[i].arg
                                         /\ notes'[i].session = notes[i].session

LEMMA BeginType ==
  ASSUME TypeInv, NEW c \in Context, NEW n \in Note, NEW a \in Arg, Begin(c, n, a)
  PROVE  TypeInv' /\ NotesKept
<1> DEFINE r == [cmd |-> n, arg |-> a, session |-> sessions["dev"], seq |-> Unnumbered]
<1>1. /\ notes' = Append(notes, r) /\ notes \in Seq(Records)
      /\ ctx \in [Context -> [at : Place, id : 0..Len(notes), num : Number]]
      /\ ctx' = [ctx EXCEPT ![c] = [at |-> "load", id |-> Len(notes) + 1, num |-> 0]]
      /\ UNCHANGED <<instance, seqNum, owner, chan, parsing, told, heard>>
  BY DEF Begin, TypeInv, TypeOK
<1>2. r \in Records
  BY Sides DEF Records, TypeInv, TypeOK
<1> HIDE DEF r
<1>3. /\ notes' \in Seq(Records) /\ Len(notes') = Len(notes) + 1 /\ Len(notes) \in Nat
      /\ \A i \in 1..Len(notes) : notes'[i] = notes[i]
  BY <1>1, <1>2, AppendProperties
<1>4. 0 \in Number /\ "load" \in Place /\ Len(notes) + 1 \in 0..Len(notes')
  BY <1>3, DeviceAssumption DEF Number, Place
<1>5. ctx' \in [Context -> [at : Place, id : 0..Len(notes'), num : Number]]
  <2>1. ctx \in [Context -> [at : Place, id : 0..Len(notes'), num : Number]]
    BY <1>1, <1>3
  <2>2. QED
    BY <1>1, <1>4, <2>1
<1>6. CtxInv'
  BY <1>1, <1>3 DEF TypeInv, CtxInv
<1>7. TypeOK'
  BY <1>1, <1>3, <1>5 DEF TypeInv, TypeOK, instance
<1>8. QED
  BY <1>3, <1>6, <1>7 DEF TypeInv, NotesKept

LEMMA LoadType ==
  ASSUME TypeInv, NEW c \in Context, Load(c)
  PROVE  TypeInv'
<1>1. /\ ctx[c].at = "load" /\ ctx' = [ctx EXCEPT ![c].at = "store", ![c].num = seqNum]
      /\ owner' \in Context \cup {NoContext} /\ seqNum \in Number
      /\ UNCHANGED <<instance, seqNum, chan, parsing, history>>
  BY DEF Load, TypeInv, TypeOK
<1>2. /\ ctx' \in [Context -> [at : Place, id : 0..Len(notes'), num : Number]]
      /\ CtxInv'
  BY <1>1, MoveType DEF Place, history
<1>3. QED
  BY <1>1, <1>2 DEF TypeInv, TypeOK, instance, history

LEMMA StoreType ==
  ASSUME TypeInv, NEW c \in Context, Store(c)
  PROVE  TypeInv'
<1>1. /\ ctx[c].at = "store" /\ seqNum' = (ctx[c].num + 1) % SeqMod /\ ctx[c].num \in Number
      /\ ctx' = [ctx EXCEPT ![c].at = "copy", ![c].num = seqNum']
      /\ UNCHANGED <<instance, owner, chan, parsing, history>>
  BY DEF Store, TypeInv, TypeOK
<1>2. seqNum' \in Number
  BY <1>1, DeviceAssumption DEF Number
<1>3. /\ ctx' \in [Context -> [at : Place, id : 0..Len(notes'), num : Number]]
      /\ CtxInv'
  BY <1>1, <1>2, MoveType DEF Place, history
<1>4. QED
  BY <1>1, <1>2, <1>3 DEF TypeInv, TypeOK, instance, history

\* A note gets its number.
LEMMA NumberType ==
  ASSUME TypeInv, NEW i \in 1..Len(notes), NEW k \in Number,
         notes' = [notes EXCEPT ![i].seq = k]
  PROVE  /\ notes' \in Seq(Records) /\ Len(notes') = Len(notes) /\ NotesKept
         /\ \A j \in 1..Len(notes) : notes'[j].seq = IF j = i THEN k ELSE notes[j].seq
<1>1. notes \in Seq(Records)
  BY DEF TypeInv, TypeOK
<1>2. notes[i] \in Records
  BY <1>1, ElementOfSeq
<1> DEFINE r == [notes[i] EXCEPT !.seq = k]
<1>3. r \in Records /\ r.cmd = notes[i].cmd /\ r.arg = notes[i].arg /\ r.seq = k
      /\ r.session = notes[i].session
  BY <1>2 DEF Records
<1>4. notes' = [notes EXCEPT ![i] = r]
  OBVIOUS
<1> HIDE DEF r
<1>5. notes' \in Seq(Records) /\ Len(notes') = Len(notes)
      /\ \A j \in 1..Len(notes) : notes'[j] = IF j = i THEN r ELSE notes[j]
  BY <1>1, <1>3, <1>4, ExceptSeq
<1>6. Len(notes) \in Nat
  BY <1>1
<1>7. QED
  BY <1>3, <1>5, <1>6 DEF NotesKept

LEMMA CopyType ==
  ASSUME TypeInv, NEW c \in Context, Copy(c)
  PROVE  TypeInv' /\ NotesKept
<1>1. PICK k \in {ctx[c].num, seqNum} :
        /\ ctx' = [ctx EXCEPT ![c].at = "send", ![c].num = k]
        /\ notes' = [notes EXCEPT ![ctx[c].id].seq = k]
  BY DEF Copy
<1>2. /\ ctx[c].at = "copy" /\ owner' \in Context \cup {NoContext}
      /\ k \in Number /\ ctx[c].id \in 1..Len(notes)
      /\ UNCHANGED <<instance, seqNum, chan, parsing, told, heard>>
  BY DEF Copy, TypeInv, TypeOK, CtxInv
<1>3. /\ notes' \in Seq(Records) /\ Len(notes') = Len(notes) /\ NotesKept
  BY <1>1, <1>2, NumberType
<1>4. /\ ctx' \in [Context -> [at : Place, id : 0..Len(notes'), num : Number]]
      /\ CtxInv'
  BY <1>1, <1>2, <1>3, MoveType DEF Place
<1>5. QED
  BY <1>2, <1>3, <1>4 DEF TypeInv, TypeOK, instance

\* The message a device function sends.
Sending(c) == [id |-> ctx[c].id, seq |-> ctx[c].num,
               cmd |-> notes[ctx[c].id].cmd, arg |-> notes[ctx[c].id].arg]

LEMMA SendingType ==
  ASSUME TypeInv, NEW c \in Context, ctx[c].at # "idle"
  PROVE  Sending(c) \in Kind("app")
<1>1. ctx[c].id \in 1..Len(notes) /\ ctx[c].num \in Number /\ notes \in Seq(Records)
  BY DEF TypeInv, TypeOK, CtxInv
<1>2. notes[ctx[c].id] \in Records
  BY <1>1, ElementOfSeq
<1>3. QED
  BY <1>1, <1>2 DEF Sending, Kind, Message, Records

LEMMA SendType ==
  ASSUME TypeInv, NEW c \in Context, Send(c)
  PROVE  TypeInv'
<1>1. /\ ctx[c].at = "send" /\ ctx' = [ctx EXCEPT ![c] = Idle]
      /\ Post("app", Sending(c)) \/ UNCHANGED chan
      /\ UNCHANGED <<instance, seqNum, owner, parsing, history>>
  BY DEF Send, Sending
<1>2. ChanOK
  BY DEF TypeInv, TypeOK, ChanOK
<1>3. ChanOK'
  <2>1. CASE UNCHANGED chan
    BY <2>1, <1>2 DEF ChanOK
  <2>2. CASE Post("app", Sending(c))
    BY <2>2, <1>1, <1>2, SendingType, PostType, Sides
  <2>3. QED
    BY <1>1, <2>1, <2>2
<1>4. /\ ctx' \in [Context -> [at : Place, id : 0..Len(notes'), num : Number]]
      /\ CtxInv'
  BY <1>1, RestType DEF history
<1>5. QED
  BY <1>1, <1>3, <1>4 DEF TypeInv, TypeOK, ChanOK, instance, history

\* A side takes the oldest message of its channel, and may keep it.
LEMMA ReceiveType ==
  ASSUME TypeInv, NEW s \in Side, chan[s] # <<>>, chan' = [chan EXCEPT ![s] = Tail(@)],
         parsing' \in {parsing, [parsing EXCEPT ![s] = Head(chan[s])]},
         UNCHANGED <<instance, sender, history>>
  PROVE  TypeInv'
<1>1. ChanOK /\ ParsingOK
  BY DEF TypeInv, TypeOK, ChanOK, ParsingOK
<1>2. ChanOK' /\ Head(chan[s]) \in Kind(s)
  BY <1>1, TakeType
<1>3. ParsingOK'
  BY <1>1, <1>2, Sides DEF ParsingOK, Kind
<1>4. QED
  BY <1>2, <1>3 DEF TypeInv, TypeOK, CtxInv, ChanOK, ParsingOK, instance, sender, history

\* The response of the application to the message it parses.
Responding(ret) ==
  LET m == parsing["app"]
      reply == AppReply(m.cmd, m.arg, ret)
  IN  [id |-> m.id, nth |-> Len(told) + 1, seq |-> m.seq, cmd |-> m.cmd,
       type |-> reply.type, len |-> reply.len, val |-> reply.val]

LEMMA RespondingType ==
  ASSUME TypeInv, parsing["app"] # NoMsg, NEW ret \in Ret
  PROVE  Responding(ret) \in Kind("dev")
<1>1. parsing["app"] \in Message /\ Len(told) \in Nat
  BY DEF TypeInv, TypeOK
<1> DEFINE m == parsing["app"]
<1>2. m.id \in Nat /\ m.seq \in Number /\ m.cmd \in Note /\ m.arg \in Arg
  BY <1>1 DEF Message
<1>3. AppReply(m.cmd, m.arg, ret) \in ResponseForm
  <2>1. m.arg \in Nat
    BY <1>1, DeviceAssumption DEF Message
  <2>2. m.arg \in Int /\ ret \in Int
    BY <2>1, DeviceAssumption
  <2>3. QED
    BY <2>2, AppReplyType
<1>4. Responding(ret) \in Reply
  BY <1>1, <1>2, <1>3 DEF Responding, Reply, ResponseForm
<1>5. QED
  BY <1>4, Sides DEF Kind

\* A parser is done.
LEMMA ParsedType ==
  ASSUME TypeInv, NEW s \in Side, parsing' = [parsing EXCEPT ![s] = NoMsg]
  PROVE  ParsingOK' /\ parsing'[s] = NoMsg /\ \A r \in Side \ {s} : parsing'[r] = parsing[r]
BY Sides DEF TypeInv, TypeOK, ParsingOK

LEMMA AppParseType ==
  ASSUME TypeInv, NEW ret \in Ret, AppParse(ret)
  PROVE  TypeInv'
<1>1. /\ parsing["app"] # NoMsg
      /\ told' = Append(told, [id |-> parsing["app"].id, ret |-> ret])
      /\ Post("dev", Responding(ret)) \/ UNCHANGED chan
      /\ parsing' = [parsing EXCEPT !["app"] = NoMsg]
      /\ UNCHANGED <<instance, sender, notes, heard>>
  BY DEF AppParse, Responding
<1>2. ChanOK /\ ParsingOK
  BY DEF TypeInv, TypeOK, ChanOK, ParsingOK
<1>3. ChanOK'
  <2>1. CASE UNCHANGED chan
    BY <2>1, <1>2 DEF ChanOK
  <2>2. CASE Post("dev", Responding(ret))
    BY <2>2, <1>1, <1>2, RespondingType, PostType, Sides
  <2>3. QED
    BY <1>1, <2>1, <2>2
<1>4. ParsingOK'
  BY <1>1, ParsedType, Sides
<1>5. told' \in Seq([id : Nat, ret : Int])
  <2>1. parsing["app"].id \in Nat /\ told \in Seq([id : Nat, ret : Int])
    BY <1>1 DEF TypeInv, TypeOK, Message
  <2>2. [id |-> parsing["app"].id, ret |-> ret] \in [id : Nat, ret : Int]
    BY <2>1, DeviceAssumption
  <2>3. QED
    BY <1>1, <2>1, <2>2, AppendProperties
<1>6. QED
  BY <1>1, <1>3, <1>4, <1>5 DEF TypeInv, TypeOK, CtxInv, ChanOK, ParsingOK, instance, sender

\* What the response callback is told.
Hearing == [nth |-> parsing["dev"].nth, val |-> Heard(parsing["dev"].cmd, parsing["dev"])]

LEMMA DevParseType ==
  ASSUME TypeInv, DevParse
  PROVE  TypeInv'
<1>1. /\ parsing["dev"] # NoMsg
      /\ heard' = Append(heard, Hearing) \/ UNCHANGED heard
      /\ parsing' = [parsing EXCEPT !["dev"] = NoMsg]
      /\ UNCHANGED <<instance, sender, chan, notes, told>>
  BY DEF DevParse, Hearing
<1>2. parsing["dev"] \in Reply /\ heard \in Seq([nth : Nat, val : Int])
  <2>1. ParsingOK /\ heard \in Seq([nth : Nat, val : Int])
    BY DEF TypeInv, TypeOK, ParsingOK
  <2>2. parsing["dev"] \in Reply \cup {NoMsg} /\ parsing["dev"] # NoMsg
    BY ONLY <1>1, <2>1 DEF ParsingOK
  <2>3. QED
    BY ONLY <2>1, <2>2
<1>3. Hearing \in [nth : Nat, val : Int]
  BY <1>2 DEF Hearing, Heard, Reply
<1>4. heard' \in Seq([nth : Nat, val : Int])
  <2>1. Append(heard, Hearing) \in Seq([nth : Nat, val : Int])
    BY ONLY <1>2, <1>3, AppendProperties
  <2>2. QED
    BY ONLY <1>1, <1>2, <2>1
<1>5. ParsingOK'
  BY <1>1, ParsedType, Sides
<1>6. QED
  BY <1>1, <1>4, <1>5 DEF TypeInv, TypeOK, CtxInv, ParsingOK, instance, sender

\* The life of an instance.
Lives == {"up", "closing", "down", "callbacks"}

LEMMA LifeType ==
  ASSUME TypeInv, NEW s \in Side, NEW l \in Lives, life' = [life EXCEPT ![s] = l],
         UNCHANGED <<transport, ctx, chan, parsing, history>>,
         sessions' \in [Side -> 0..MaxSessions], seqNum' \in Number,
         owner' \in Context \cup {NoContext}
  PROVE  TypeInv'
<1>1. life' \in [Side -> Lives]
  BY DEF TypeInv, TypeOK, Lives
<1>2. QED
  BY <1>1 DEF TypeInv, TypeOK, CtxInv, Lives, history

LEMMA LivesType ==
  ASSUME TypeInv, NEW s \in Side,
         Deinit(s) \/ DeinitTransport(s) \/ InitCallbacks(s) \/ InitTransport(s)
  PROVE  TypeInv'
<1>1. sessions \in [Side -> 0..MaxSessions] /\ seqNum \in Number /\ owner \in Context \cup {NoContext}
  BY DEF TypeInv, TypeOK
<1>2. 0 \in Number
  BY DeviceAssumption DEF Number
<1>3. CASE Deinit(s)
  BY <1>1, <1>3, LifeType DEF Deinit, Lives, sender
<1>4. CASE DeinitTransport(s)
  BY <1>1, <1>4, LifeType DEF DeinitTransport, Lives, sender
<1>5. CASE InitCallbacks(s)
  <2>1. sessions' \in [Side -> 0..MaxSessions]
    <3>1. sessions[s] \in 0..MaxSessions /\ sessions[s] < MaxSessions
      BY <1>1, <1>5 DEF InitCallbacks
    <3>2. sessions[s] + 1 \in 0..MaxSessions
      BY <3>1, DeviceAssumption
    <3>3. QED
      BY <1>1, <1>5, <3>2 DEF InitCallbacks
  <2>2. seqNum' \in Number
    BY <1>1, <1>2, <1>5 DEF InitCallbacks
  <2>3. QED
    BY <1>1, <1>5, <2>1, <2>2, LifeType DEF InitCallbacks, Lives
<1>6. CASE InitTransport(s)
  <2>1. owner' \in Context \cup {NoContext}
    BY <1>1, <1>6 DEF InitTransport
  <2>2. QED
    BY <1>1, <1>6, <2>1, LifeType DEF InitTransport, Lives
<1>7. QED
  BY <1>3, <1>4, <1>5, <1>6

\* The actions of Next, with the types of their parameters.
Steps == \/ \E c \in Context, n \in Note, a \in Arg : Begin(c, n, a)
         \/ \E c \in Context : Advance(c)
         \/ \E s \in Side : Receive(s) \/ Drop(s)
         \/ \E s \in Side : Deinit(s) \/ DeinitTransport(s) \/ InitCallbacks(s) \/ InitTransport(s)
         \/ \E ret \in Ret : AppParse(ret)
         \/ DevParse
         \/ UNCHANGED vars

LEMMA NextSteps == [Next]_vars => Steps
BY DEF Next, Steps, Exhausted

LEMMA QuietType ==
  ASSUME TypeInv, UNCHANGED vars
  PROVE  TypeInv'
BY DEF TypeInv, TypeOK, CtxInv, vars, instance, sender, history

LEMMA NextType ==
  ASSUME TypeInv, Steps
  PROVE  TypeInv'
<1>1. ASSUME NEW c \in Context, Advance(c) PROVE TypeInv'
  BY <1>1, LoadType, StoreType, CopyType, SendType DEF Advance
<1>2. ASSUME NEW s \in Side, Receive(s) \/ Drop(s) PROVE TypeInv'
  BY <1>2, ReceiveType DEF Receive, Drop
<1>3. QED
  BY <1>1, <1>2, BeginType, LivesType, AppParseType, DevParseType, QuietType DEF Steps

LEMMA TypeInvariant == Spec => []TypeInv
BY InitType, NextType, NextSteps, PTL DEF Spec

\* Every variable keeps its type on every pairing of transports, quiesced or not.
THEOREM TypeCorrect == Spec => []TypeOK
<1>1. TypeInv => TypeOK
  BY DEF TypeInv
<1>2. QED
  BY TypeInvariant, <1>1, PTL

LEMMA LifeOf ==
  ASSUME TypeInv, NEW s \in Side, NEW l, life' = [life EXCEPT ![s] = l]
  PROVE  life'[s] = l /\ \A r \in Side \ {s} : life'[r] = life[r]
BY DEF TypeInv, TypeOK

-----------------------------------------------------------------------------
(* The numbers of a session, with the mutex of the kernel. *)

\* Contexts that have not yet incremented seq_num.
Starting == {c \in Context : ctx[c].at \in {"load", "store"}}

\* The mutex is held from the first access to seq_num to the last.
LockInv == \A c \in Context : /\ owner = c <=> ctx[c].at \in {"store", "copy"}
                              /\ owner = c => ctx[c].num = seqNum

\* Device functions are over before the device is initialised again.
SessionInv ==
  /\ \A c \in Context : ctx[c].at # "idle" => notes[ctx[c].id].session = sessions["dev"]
  /\ life["dev"] = "callbacks" => \A c \in Context : ctx[c].at = "idle"
  /\ \A i \in 1..Len(notes) : notes[i].session <= sessions["dev"]

\* Notes of the present session.
Present == {i \in 1..Len(notes) : notes[i].session = sessions["dev"]}

\* seq_num is being copied, by the context that holds the mutex: nothing has it yet.
Copying == owner \in Context /\ ctx[owner].at = "copy"
FreshInv == Copying => \A i \in Present : notes[i].seq # seqNum

\* Numbers given out are 1..seqNum, and belong to a device function each ...
Counting == /\ seqNum + Cardinality(Starting) <= Len(notes)
            /\ Copying => seqNum # 0
            /\ \A i \in Present : notes[i].seq \in {Unnumbered} \cup 1..seqNum

\* ... until the last of 2^32 messages gets 0.
Wrapped == seqNum = 0 /\ Starting = {} /\ Len(notes) = MaxNotes

CountInv == Len(notes) <= MaxNotes /\ (Counting \/ Wrapped)

UniqueInv ==
  \A i, j \in 1..Len(notes) :
    i # j /\ notes[i].session = notes[j].session /\ notes[i].seq # Unnumbered
      => notes[i].seq # notes[j].seq

NumberInv == LockInv /\ SessionInv /\ FreshInv /\ CountInv /\ UniqueInv

\* The actions that leave the numbers alone.
LEMMA NumberFrame ==
  ASSUME NumberInv, UNCHANGED <<seqNum, owner, ctx, notes>>, sessions'["dev"] = sessions["dev"],
         life'["dev"] = "callbacks" => life["dev"] = "callbacks"
  PROVE  NumberInv'
<1>1. LockInv' /\ SessionInv'
  BY DEF NumberInv, LockInv, SessionInv
<1>2. Starting' = Starting /\ Present' = Present /\ Copying' = Copying
  BY DEF Starting, Present, Copying
<1>3. FreshInv' /\ UniqueInv'
  BY <1>2 DEF NumberInv, FreshInv, UniqueInv
<1>4. CountInv'
  BY <1>2 DEF NumberInv, CountInv, Counting, Wrapped
<1>5. QED
  BY <1>1, <1>3, <1>4 DEF NumberInv

LEMMA StartingFinite ==
  ASSUME IsFiniteSet(Context)
  PROVE  IsFiniteSet(Starting) /\ Cardinality(Starting) \in Nat
<1>1. Starting \in SUBSET Context
  BY DEF Starting
<1>2. QED
  BY <1>1, FS_Subset, FS_CardinalityType

LEMMA NoteType ==
  ASSUME TypeInv, NEW i \in 1..Len(notes)
  PROVE  /\ notes[i].session \in 0..MaxSessions
         /\ notes[i].seq \in Number \cup {Unnumbered}
<1>1. notes \in Seq(Records)
  BY DEF TypeInv, TypeOK
<1>2. notes[i] \in Records
  BY <1>1, ElementOfSeq
<1>3. QED
  BY <1>2 DEF Records

LEMMA BeginNumber ==
  ASSUME IsFiniteSet(Context), Quiesced, TypeInv, TypeInv', NumberInv,
         NEW c \in Context, NEW n \in Note, NEW a \in Arg, Begin(c, n, a)
  PROVE  NumberInv'
<1> DEFINE r == [cmd |-> n, arg |-> a, session |-> sessions["dev"], seq |-> Unnumbered]
           k == Len(notes) + 1
<1>1. /\ notes' = Append(notes, r) /\ notes \in Seq(Records) /\ Len(notes) < MaxNotes
      /\ ctx[c].at = "idle" /\ life["dev"] # "callbacks"
      /\ ctx' = [ctx EXCEPT ![c] = [at |-> "load", id |-> k, num |-> 0]]
      /\ UNCHANGED <<instance, seqNum, owner>>
  BY DEF Begin, TypeInv, TypeOK
<1>2. r \in Records /\ r.session = sessions["dev"] /\ r.seq = Unnumbered
  BY Sides DEF Records, TypeInv, TypeOK
<1> HIDE DEF r
<1>3. /\ Len(notes') = k /\ Len(notes) \in Nat /\ notes'[k] = r
      /\ \A i \in 1..Len(notes) : notes'[i] = notes[i]
  BY <1>1, <1>2, AppendProperties
<1>4. /\ ctx'[c].at = "load" /\ ctx'[c].id = k
      /\ \A d \in Context \ {c} : ctx'[d] = ctx[d]
  BY <1>1 DEF TypeInv, TypeOK
<1>5. LockInv'
  BY <1>1, <1>4 DEF NumberInv, LockInv
<1>6. SessionInv'
  <2>1. \A d \in Context : ctx'[d].at # "idle" => notes'[ctx'[d].id].session = sessions["dev"]
    <3>1. notes'[ctx'[c].id].session = sessions["dev"]
      BY <1>2, <1>3, <1>4
    <3>2. ASSUME NEW d \in Context \ {c}, ctx[d].at # "idle"
          PROVE  notes'[ctx[d].id].session = sessions["dev"]
      BY <3>2, <1>3 DEF NumberInv, SessionInv, TypeInv, CtxInv
    <3>3. QED
      BY <3>1, <3>2, <1>4
  <2>2. \A i \in 1..Len(notes') : notes'[i].session <= sessions["dev"]
    <3>1. sessions["dev"] \in Nat
      BY Sides, DeviceAssumption DEF TypeInv, TypeOK
    <3>2. ASSUME NEW i \in 1..k PROVE notes'[i].session <= sessions["dev"]
      <4>1. CASE i = k
        BY <4>1, <3>1, <1>2, <1>3
      <4>2. CASE i \in 1..Len(notes)
        BY <4>2, <1>3 DEF NumberInv, SessionInv
      <4>3. QED
        BY <4>1, <4>2, <1>3
    <3>3. QED
      BY <3>2, <1>3
  <2>3. QED
    BY <2>1, <2>2, <1>1 DEF SessionInv, instance
<1>7. /\ \A i \in Present' : \/ notes'[i].seq = Unnumbered
                            \/ (i \in Present /\ notes'[i].seq = notes[i].seq)
      /\ seqNum # Unnumbered /\ seqNum \in Nat /\ Copying' = Copying
  <2>1. UNCHANGED sessions
    BY <1>1 DEF instance
  <2>2. ASSUME NEW i \in Present'
        PROVE  \/ notes'[i].seq = Unnumbered
               \/ (i \in Present /\ notes'[i].seq = notes[i].seq)
    <3>1. i \in 1..k /\ notes'[i].session = sessions["dev"]
      BY <2>1, <1>3 DEF Present
    <3>2. CASE i = k
      BY <3>2, <1>2, <1>3
    <3>3. CASE i \in 1..Len(notes)
      BY <3>1, <3>3, <1>3 DEF Present
    <3>4. QED
      BY <3>1, <3>2, <3>3, <1>3
  <2>3. seqNum # Unnumbered /\ seqNum \in Nat
    BY DeviceAssumption DEF TypeInv, TypeOK, Number, Unnumbered
  <2>4. Copying' = Copying
    BY <1>1, <1>4 DEF Copying
  <2>5. QED
    BY <2>2, <2>3, <2>4
<1>8. FreshInv' /\ CountInv'
  <2>1. Starting' = Starting \cup {c} /\ c \notin Starting
    BY <1>1, <1>4 DEF Starting
  <2>2. Cardinality(Starting') = Cardinality(Starting) + 1 /\ Cardinality(Starting) \in Nat
    BY <2>1, StartingFinite, FS_AddElement
  <2>3. seqNum' = seqNum /\ MaxNotes \in Nat
    BY <1>1, DeviceAssumption
  <2>4. FreshInv'
    BY <1>7, <2>3 DEF NumberInv, FreshInv
  <2>5. Counting
    BY <1>1, <1>3, <2>3 DEF NumberInv, CountInv, Wrapped
  <2>6. \A i \in Present' : notes'[i].seq \in {Unnumbered} \cup 1..seqNum'
    BY <1>7, <2>3, <2>5 DEF Counting
  <2>7. seqNum' + Cardinality(Starting') <= Len(notes') /\ Len(notes') <= MaxNotes
    BY <1>1, <1>3, <1>7, <2>2, <2>3, <2>5 DEF Counting
  <2>8. Copying' => seqNum' # 0
    BY <1>7, <2>3, <2>5 DEF Counting
  <2>9. QED
    BY <2>4, <2>6, <2>7, <2>8 DEF CountInv, Counting
<1>9. UniqueInv'
  <2>1. ASSUME NEW i \in 1..k, NEW j \in 1..k, i # j,
               notes'[i].session = notes'[j].session, notes'[i].seq # Unnumbered
        PROVE  notes'[i].seq # notes'[j].seq
    <3>1. i \in 1..Len(notes) /\ notes'[i] = notes[i]
      BY <2>1, <1>2, <1>3
    <3>2. CASE j = k
      BY <3>2, <2>1, <1>2, <1>3
    <3>3. CASE j \in 1..Len(notes)
      BY <3>1, <3>3, <2>1, <1>3 DEF NumberInv, UniqueInv
    <3>4. QED
      BY <3>2, <3>3, <1>3
  <2>2. QED
    BY <2>1, <1>3 DEF UniqueInv
<1>10. QED
  BY <1>5, <1>6, <1>8, <1>9 DEF NumberInv

\* A context inside a device function moves on; only Copy changes a note.
LEMMA MoveNumber ==
  ASSUME TypeInv, NumberInv, NEW c \in Context, NEW at \in Place, NEW n \in Number,
         ctx[c].at # "idle", ctx' = [ctx EXCEPT ![c].at = at, ![c].num = n],
         UNCHANGED instance, Len(notes') = Len(notes), NotesKept
  PROVE  /\ SessionInv'
         /\ UNCHANGED sessions
         /\ \A i \in 1..Len(notes) : notes'[i].session = notes[i].session
         /\ ctx'[c].at = at /\ ctx'[c].num = n
         /\ \A d \in Context \ {c} : ctx'[d] = ctx[d]
<1>1. /\ ctx'[c].at = at /\ ctx'[c].num = n /\ ctx'[c].id = ctx[c].id
      /\ \A d \in Context \ {c} : ctx'[d] = ctx[d]
  <2>1. ctx \in [Context -> [at : Place, id : 0..Len(notes), num : Number]]
    BY DEF TypeInv, TypeOK
  <2>2. QED
    BY <2>1
<1>2. UNCHANGED <<life, sessions>>
  BY DEF instance
<1>3. \A i \in 1..Len(notes) : notes'[i].session = notes[i].session
  BY DEF NotesKept
<1>4. SessionInv'
  <2>1. ASSUME NEW d \in Context, ctx'[d].at # "idle"
        PROVE  notes'[ctx'[d].id].session = sessions["dev"]
    <3>1. ctx[d].at # "idle" /\ ctx'[d].id = ctx[d].id
      <4>1. CASE d = c
        BY <4>1, <1>1
      <4>2. CASE d # c
        BY <4>2, <2>1, <1>1
      <4>3. QED
        BY <4>1, <4>2
    <3>2. QED
      BY <3>1, <1>3 DEF NumberInv, SessionInv, TypeInv, CtxInv
  <2>2. life["dev"] # "callbacks"
    BY DEF NumberInv, SessionInv
  <2>3. \A i \in 1..Len(notes) : notes'[i].session <= sessions["dev"]
    BY <1>3 DEF NumberInv, SessionInv
  <2>4. QED
    BY <2>1, <2>2, <2>3, <1>2 DEF SessionInv
<1>5. QED
  BY <1>1, <1>2, <1>3, <1>4

LEMMA NotesSame ==
  ASSUME TypeInv, UNCHANGED notes
  PROVE  Len(notes') = Len(notes) /\ NotesKept
BY DEF NotesKept, TypeInv, TypeOK

Kernel == transport["dev"] = "kernel"

LEMMA LoadNumber ==
  ASSUME TypeInv, NumberInv, Kernel, NEW c \in Context, Load(c)
  PROVE  NumberInv'
<1>1. /\ ctx[c].at = "load" /\ owner = NoContext /\ owner' = c /\ seqNum \in Number
      /\ ctx' = [ctx EXCEPT ![c].at = "store", ![c].num = seqNum]
      /\ UNCHANGED <<instance, seqNum, notes>>
  BY DEF Load, Kernel, history, TypeInv, TypeOK
<1>2. /\ SessionInv' /\ UNCHANGED sessions
      /\ \A i \in 1..Len(notes) : notes'[i].session = notes[i].session
      /\ ctx'[c].at = "store" /\ ctx'[c].num = seqNum
      /\ \A d \in Context \ {c} : ctx'[d] = ctx[d]
  BY <1>1, MoveNumber, NotesSame DEF Place
<1>3. LockInv'
  BY <1>1, <1>2, DeviceAssumption DEF NumberInv, LockInv
<1>4. Starting' = Starting /\ Present' = Present /\ ~Copying'
  BY <1>1, <1>2 DEF Starting, Present, Copying
<1>5. FreshInv' /\ UniqueInv'
  BY <1>1, <1>4 DEF NumberInv, FreshInv, UniqueInv
<1>6. CountInv'
  BY <1>1, <1>4 DEF NumberInv, CountInv, Counting, Wrapped
<1>7. QED
  BY <1>2, <1>3, <1>5, <1>6 DEF NumberInv

LEMMA SmallMod ==
  ASSUME NEW m \in Nat \ {0}, NEW n \in Nat
  PROVE  /\ n < m => n % m = n
         /\ n = m => n % m = 0
OBVIOUS

LEMMA StoreNumber ==
  ASSUME IsFiniteSet(Context), MaxNotes <= SeqMod,
         TypeInv, NumberInv, NEW c \in Context, Store(c)
  PROVE  NumberInv'
<1>1. /\ ctx[c].at = "store" /\ seqNum' = (ctx[c].num + 1) % SeqMod
      /\ ctx' = [ctx EXCEPT ![c].at = "copy", ![c].num = seqNum']
      /\ UNCHANGED <<instance, owner, notes>>
  BY DEF Store, history
<1>2. owner = c /\ ctx[c].num = seqNum
  BY <1>1 DEF NumberInv, LockInv
<1>3. c \in Starting
  BY <1>1 DEF Starting
<1>4. Counting
  BY <1>3 DEF NumberInv, CountInv, Wrapped
<1>5. /\ seqNum \in Nat /\ SeqMod \in Nat \ {0} /\ MaxNotes \in Nat /\ Len(notes) \in Nat
      /\ Len(notes) <= MaxNotes
  BY DeviceAssumption DEF TypeInv, TypeOK, Number, NumberInv, CountInv
<1> DEFINE n == seqNum + 1
<1>6. IsFiniteSet(Starting) /\ Cardinality(Starting) \in Nat /\ Cardinality(Starting \ {c}) \in Nat
      /\ Cardinality(Starting \ {c}) = Cardinality(Starting) - 1 /\ IsFiniteSet(Starting \ {c})
  BY <1>3, StartingFinite, FS_RemoveElement, FS_CardinalityType
<1>7. n \in Nat /\ n <= SeqMod /\ n + Cardinality(Starting \ {c}) <= Len(notes)
  BY <1>4, <1>5, <1>6 DEF Counting
<1>8. seqNum' = n % SeqMod
  BY <1>1, <1>2
<1>9. seqNum' = IF n < SeqMod THEN n ELSE 0
  <2> HIDE DEF n
  <2>1. CASE n < SeqMod
    <3>1. n % SeqMod = n
      BY <1>5, <1>7, <2>1, SmallMod
    <3>2. QED
      BY <1>8, <2>1, <3>1
  <2>2. CASE n = SeqMod
    <3>1. n % SeqMod = 0
      BY <1>5, <1>7, <2>2, SmallMod
    <3>2. ~(n < SeqMod)
      BY <1>5, <2>2
    <3>3. QED
      BY <1>8, <3>1, <3>2
  <2>3. QED
    BY <1>5, <1>7, <2>1, <2>2
<1>10. seqNum' \in Number
  BY <1>5, <1>7, <1>9 DEF Number
<1>11. /\ SessionInv' /\ UNCHANGED sessions
       /\ \A i \in 1..Len(notes) : notes'[i].session = notes[i].session
       /\ ctx'[c].at = "copy" /\ ctx'[c].num = seqNum'
       /\ \A d \in Context \ {c} : ctx'[d] = ctx[d]
  BY <1>1, <1>10, MoveNumber, NotesSame DEF Place
<1>12. LockInv'
  BY <1>1, <1>2, <1>11 DEF NumberInv, LockInv
<1>13. Starting' = Starting \ {c} /\ Present' = Present
  BY <1>1, <1>3, <1>11 DEF Starting, Present
<1>14. \A i \in Present : notes[i].seq \in {Unnumbered} \cup 1..seqNum /\ notes[i].seq # seqNum'
  BY <1>4, <1>5, <1>9 DEF Counting, Unnumbered
<1>15. FreshInv' /\ UniqueInv'
  BY <1>1, <1>13, <1>14 DEF NumberInv, FreshInv, UniqueInv
<1>16. CountInv'
  <2>1. CASE n < SeqMod
    <3>1. \A i \in Present' : notes'[i].seq \in {Unnumbered} \cup 1..seqNum'
      BY <2>1, <1>1, <1>5, <1>9, <1>13, <1>14
    <3>2. seqNum' + Cardinality(Starting') <= Len(notes') /\ seqNum' # 0
      BY <2>1, <1>1, <1>5, <1>7, <1>9, <1>13
    <3>3. QED
      BY <3>1, <3>2, <1>1, <1>5 DEF CountInv, Counting
  <2>2. CASE n = SeqMod
    <3>1. seqNum' = 0 /\ Len(notes) = MaxNotes /\ Cardinality(Starting \ {c}) = 0
      BY <2>2, <1>5, <1>6, <1>7, <1>9
    <3>2. Starting' = {}
      BY <3>1, <1>6, <1>13, FS_EmptySet
    <3>3. QED
      BY <3>1, <3>2, <1>1, <1>5 DEF CountInv, Wrapped
  <2>3. QED
    BY <2>1, <2>2, <1>5, <1>7
<1>17. QED
  BY <1>11, <1>12, <1>15, <1>16 DEF NumberInv

LEMMA CopyNumber ==
  ASSUME TypeInv, NumberInv, Kernel, NEW c \in Context, Copy(c)
  PROVE  NumberInv'
<1> DEFINE m == ctx[c].id
<1>1. ctx[c].at = "copy" /\ m \in 1..Len(notes) /\ owner' = NoContext
      /\ UNCHANGED <<instance, seqNum>>
  BY DEF Copy, Kernel, TypeInv, CtxInv
<1>2. owner = c /\ ctx[c].num = seqNum
  BY <1>1 DEF NumberInv, LockInv
<1>3. /\ ctx' = [ctx EXCEPT ![c].at = "send", ![c].num = seqNum]
      /\ notes' = [notes EXCEPT ![m].seq = seqNum]
  BY <1>2 DEF Copy
<1>4. seqNum \in Number /\ seqNum \in Nat /\ Unnumbered = -1 /\ notes[m].session = sessions["dev"]
  BY <1>1, DeviceAssumption DEF TypeInv, TypeOK, Number, Unnumbered, NumberInv, SessionInv
<1>5. /\ Len(notes') = Len(notes) /\ NotesKept
      /\ \A j \in 1..Len(notes) : notes'[j].seq = IF j = m THEN seqNum ELSE notes[j].seq
  BY <1>1, <1>3, <1>4, NumberType
<1>6. /\ SessionInv' /\ UNCHANGED sessions
      /\ \A i \in 1..Len(notes) : notes'[i].session = notes[i].session
      /\ ctx'[c].at = "send" /\ \A d \in Context \ {c} : ctx'[d] = ctx[d]
  BY <1>1, <1>3, <1>4, <1>5, MoveNumber DEF Place
<1>7. \A i \in 1..Len(notes) : notes'[i].session = notes[i].session
  BY <1>5 DEF NotesKept
<1>8. LockInv'
  BY <1>1, <1>2, <1>6, DeviceAssumption DEF NumberInv, LockInv
<1>9. Copying /\ \A i \in Present : notes[i].seq # seqNum
  BY <1>1, <1>2 DEF NumberInv, FreshInv, Copying
<1>10. ~Copying' /\ FreshInv'
  BY <1>1, DeviceAssumption DEF Copying, FreshInv
<1>11. CountInv'
  <2>1. Starting' = Starting /\ Present' = Present
    BY <1>1, <1>5, <1>6 DEF Starting, Present
  <2>2. ASSUME Counting PROVE Counting'
    <3>1. seqNum \in 1..seqNum
      BY <2>2, <1>4, <1>9 DEF Counting
    <3>2. \A i \in Present : notes'[i].seq \in {Unnumbered} \cup 1..seqNum
      BY <2>2, <3>1, <1>5 DEF Counting, Present
    <3>3. QED
      BY <2>1, <2>2, <3>2, <1>1, <1>5, <1>10 DEF Counting
  <2>3. QED
    BY <2>1, <2>2, <1>1, <1>5 DEF NumberInv, CountInv, Wrapped
<1>12. UniqueInv'
  <2>1. ASSUME NEW i \in 1..Len(notes), NEW j \in 1..Len(notes), i # j,
               notes[i].session = notes[j].session, notes'[i].seq # Unnumbered
        PROVE  notes'[i].seq # notes'[j].seq
    <3>1. CASE i = m
      <4>1. notes[j].session = sessions["dev"] /\ notes'[i].seq = seqNum /\ notes'[j].seq = notes[j].seq
        BY <3>1, <2>1, <1>4, <1>5
      <4>2. notes[j].seq # seqNum
        BY <4>1, <1>9 DEF Present
      <4>3. QED
        BY <4>1, <4>2, <1>4
    <3>2. CASE j = m
      <4>1. notes[i].session = sessions["dev"] /\ notes'[j].seq = seqNum /\ notes'[i].seq = notes[i].seq
        BY <3>2, <2>1, <1>4, <1>5
      <4>2. notes[i].seq # seqNum
        BY <4>1, <1>9 DEF Present
      <4>3. QED
        BY <4>1, <4>2, <1>4
    <3>3. CASE i # m /\ j # m
      BY <3>3, <2>1, <1>5 DEF NumberInv, UniqueInv
    <3>4. QED
      BY <3>1, <3>2, <3>3
  <2>2. QED
    BY <2>1, <1>5, <1>7 DEF UniqueInv
<1>13. QED
  BY <1>6, <1>8, <1>10, <1>11, <1>12 DEF NumberInv

LEMMA SendNumber ==
  ASSUME TypeInv, NumberInv, NEW c \in Context, Send(c)
  PROVE  NumberInv'
<1>1. /\ ctx[c].at = "send" /\ ctx' = [ctx EXCEPT ![c] = Idle]
      /\ UNCHANGED <<life, sessions, seqNum, owner, notes>>
  BY DEF Send, instance, history
<1>2. ctx'[c].at = "idle" /\ \A d \in Context \ {c} : ctx'[d] = ctx[d]
  BY <1>1, RestType DEF Idle
<1>3. LockInv'
  BY <1>1, <1>2 DEF NumberInv, LockInv
<1>4. SessionInv'
  BY <1>1, <1>2 DEF NumberInv, SessionInv
<1>5. Starting' = Starting /\ Present' = Present /\ Copying' = Copying
  BY <1>1, <1>2 DEF Starting, Present, Copying
<1>6. FreshInv' /\ UniqueInv'
  BY <1>1, <1>5 DEF NumberInv, FreshInv, UniqueInv
<1>7. CountInv'
  BY <1>1, <1>5 DEF NumberInv, CountInv, Counting, Wrapped
<1>8. QED
  BY <1>3, <1>4, <1>6, <1>7 DEF NumberInv

\* The device is initialised again.
LEMMA InitCallbacksNumber ==
  ASSUME Quiesced, TypeInv, NumberInv, InitCallbacks("dev")
  PROVE  NumberInv'
<1>1. /\ \A c \in Context : ctx[c].at = "idle"
      /\ sessions' = [sessions EXCEPT !["dev"] = @ + 1] /\ seqNum' = 0
      /\ UNCHANGED <<owner, ctx, notes>>
  BY DEF InitCallbacks, history
<1>2. sessions'["dev"] = sessions["dev"] + 1 /\ sessions["dev"] \in Nat
  BY <1>1, Sides, DeviceAssumption DEF TypeInv, TypeOK
<1>3. \A i \in 1..Len(notes) : notes[i].session < sessions'["dev"]
  <2>1. ASSUME NEW i \in 1..Len(notes) PROVE notes[i].session < sessions'["dev"]
    <3>1. notes[i].session <= sessions["dev"]
      BY DEF NumberInv, SessionInv
    <3>2. notes[i].session \in Nat
      BY NoteType, DeviceAssumption
    <3>3. QED
      BY <3>1, <3>2, <1>2
  <2>2. QED
    BY <2>1
<1>4. \A i \in 1..Len(notes) : notes[i].session # sessions'["dev"]
                               /\ notes[i].session <= sessions'["dev"]
  <2>1. ASSUME NEW i \in 1..Len(notes)
        PROVE  notes[i].session # sessions'["dev"] /\ notes[i].session <= sessions'["dev"]
    <3>1. notes[i].session \in Nat
      BY NoteType, DeviceAssumption
    <3>2. QED
      BY <3>1, <1>2, <1>3
  <2>2. QED
    BY <2>1
<1>5. SessionInv'
  BY <1>1, <1>4 DEF SessionInv
<1>6. Present' = {} /\ ~Copying' /\ FreshInv'
  BY <1>1, <1>4 DEF Present, Copying, FreshInv
<1>7. LockInv'
  BY <1>1 DEF NumberInv, LockInv
<1>8. CountInv'
  <2>1. Starting' = {}
    BY <1>1 DEF Starting
  <2>2. Cardinality(Starting') = 0
    BY <2>1, FS_EmptySet
  <2>3. Len(notes) \in Nat
    BY DEF TypeInv, TypeOK
  <2>4. QED
    BY <2>2, <2>3, <1>1, <1>6 DEF NumberInv, CountInv, Counting
<1>9. UniqueInv'
  BY <1>1 DEF NumberInv, UniqueInv
<1>10. QED
  BY <1>5, <1>6, <1>7, <1>8, <1>9 DEF NumberInv

LEMMA InitTransportNumber ==
  ASSUME TypeInv, NumberInv, InitTransport("dev")
  PROVE  NumberInv'
<1>1. /\ \A c \in Context : ctx[c].at = "idle"
      /\ owner' = NoContext /\ UNCHANGED <<sessions, seqNum, ctx, notes>>
  BY DEF InitTransport, NumberInv, SessionInv, history
<1>2. LockInv' /\ owner' \notin Context
  BY <1>1, DeviceAssumption DEF LockInv
<1>3. SessionInv' /\ UniqueInv'
  BY <1>1 DEF NumberInv, SessionInv, UniqueInv
<1>4. ~Copying' /\ FreshInv'
  BY <1>1, <1>2 DEF Copying, FreshInv
<1>5. Starting' = Starting /\ Present' = Present
  BY <1>1 DEF Starting, Present
<1>6. CountInv'
  BY <1>1, <1>4, <1>5 DEF NumberInv, CountInv, Counting, Wrapped
<1>7. QED
  BY <1>2, <1>3, <1>4, <1>6 DEF NumberInv

LEMMA NumberStep ==
  ASSUME Quiesced, IsFiniteSet(Context), MaxNotes <= SeqMod, Kernel,
         TypeInv, TypeInv', NumberInv, Steps
  PROVE  NumberInv'
<1>1. ASSUME UNCHANGED <<instance, sender, notes>> PROVE NumberInv'
  BY <1>1, NumberFrame DEF instance, sender
<1>2. ASSUME NEW c \in Context, Advance(c) PROVE NumberInv'
  BY <1>2, LoadNumber, StoreNumber, CopyNumber, SendNumber DEF Advance
<1>3. ASSUME NEW s \in Side, Receive(s) \/ Drop(s) PROVE NumberInv'
  BY <1>3, <1>1 DEF Receive, Drop, history
<1>4. ASSUME NEW ret \in Ret, AppParse(ret) PROVE NumberInv'
  BY <1>4, <1>1 DEF AppParse
<1>5. ASSUME DevParse PROVE NumberInv'
  BY <1>5, <1>1 DEF DevParse
<1>6. ASSUME UNCHANGED vars PROVE NumberInv'
  BY <1>6, <1>1 DEF vars, history
<1>7. ASSUME NEW s \in Side,
             Deinit(s) \/ DeinitTransport(s) \/ InitCallbacks(s) \/ InitTransport(s)
      PROVE  NumberInv'
  <2>1. CASE s = "dev" /\ InitCallbacks(s)
    BY <2>1, InitCallbacksNumber
  <2>2. CASE s = "dev" /\ InitTransport(s)
    BY <2>2, InitTransportNumber
  <2>3. CASE Deinit(s) \/ DeinitTransport(s)
    <3>1. \E l \in {"closing", "down"} : life' = [life EXCEPT ![s] = l]
      BY <2>3 DEF Deinit, DeinitTransport
    <3>2. life'["dev"] = "callbacks" => life["dev"] = "callbacks"
      BY <3>1, Sides, LifeOf
    <3>3. UNCHANGED <<sessions, seqNum, owner, ctx, notes>>
      BY <2>3 DEF Deinit, DeinitTransport, sender, history
    <3>4. QED
      BY <3>2, <3>3, NumberFrame
  <2>4. CASE s = "app" /\ (InitCallbacks(s) \/ InitTransport(s))
    <3>1. \E l \in {"callbacks", "up"} : life' = [life EXCEPT ![s] = l]
      BY <2>4 DEF InitCallbacks, InitTransport
    <3>2. life'["dev"] = life["dev"]
      BY <3>1, <2>4, Sides, LifeOf
    <3>3. UNCHANGED <<seqNum, owner, ctx, notes>>
      BY <2>4, Sides DEF InitCallbacks, InitTransport, history
    <3>4. sessions'["dev"] = sessions["dev"]
      BY <2>4, Sides DEF InitCallbacks, InitTransport, TypeInv, TypeOK
    <3>5. QED
      BY <3>2, <3>3, <3>4, NumberFrame
  <2>5. QED
    BY <1>7, <2>1, <2>2, <2>3, <2>4, Sides
<1>8. QED
  BY <1>2, <1>3, <1>4, <1>5, <1>6, <1>7, BeginNumber DEF Steps

LEMMA InitNumber ==
  ASSUME Init
  PROVE  NumberInv
<1>1. /\ seqNum = 0 /\ owner = NoContext /\ notes = <<>> /\ Len(notes) = 0
      /\ \A c \in Context : ctx[c].at = "idle"
  BY DEF Init, Idle
<1>2. Starting = {}
  BY <1>1 DEF Starting
<1>3. Cardinality(Starting) = 0
  BY <1>2, FS_EmptySet
<1>4. LockInv /\ SessionInv
  BY <1>1, DeviceAssumption DEF LockInv, SessionInv
<1>5. FreshInv /\ UniqueInv
  BY <1>1, DeviceAssumption DEF FreshInv, UniqueInv, Present
<1>6. CountInv
  BY <1>1, <1>3, DeviceAssumption DEF CountInv, Counting, Copying, Present
<1>7. QED
  BY <1>4, <1>5, <1>6 DEF NumberInv

\* The transport stays what it is.
LEMMA TransportKept == ASSUME Steps PROVE UNCHANGED transport
BY DEF Steps, Begin, Advance, Load, Store, Copy, Send, Receive, Drop, Deinit, DeinitTransport,
       InitCallbacks, InitTransport, AppParse, DevParse, vars, instance

\* In the kernel the numbers of a session differ, as long as there are no more messages
\* than numbers and the user lets nothing overlap init and deinit.
THEOREM KernelNumbers ==
  ASSUME Quiesced, IsFiniteSet(Context), MaxNotes <= SeqMod
  PROVE  Spec => []NumbersUnique
<1> DEFINE Inv == TypeInv /\ (Kernel => NumberInv)
<1>1. Init => Inv
  BY InitType, InitNumber
<1>2. Inv /\ [Next]_vars => Inv'
  BY NextSteps, NextType, NumberStep, TransportKept DEF Kernel
<1>3. Inv => NumbersUnique
  <2>1. TypeInv => DOMAIN notes = 1..Len(notes)
    BY DEF TypeInv, TypeOK
  <2>2. QED
    BY <2>1 DEF Kernel, NumberInv, UniqueInv, NumbersUnique
<1> HIDE DEF Inv
<1>4. QED
  BY <1>1, <1>2, <1>3, PTL DEF Spec

=============================================================================
