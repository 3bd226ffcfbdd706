-------------------------- MODULE IcapDeviceRefines --------------------------
(***************************************************************************)
(* Proof that IcapDevice implements IcapNote, for any number of contexts,  *)
(* messages, sessions and initialisations, on every pairing of transports  *)
(* and whether or not the user keeps init and deinit apart.                *)
(***************************************************************************)
EXTENDS IcapDeviceProofs

\* A message says what its device function was called with.
Tells(ns, m) == m.id \in 1..Len(ns) /\ m.cmd = ns[m.id].cmd /\ m.arg = ns[m.id].arg

DescInv ==
  /\ \A i \in 1..Len(chan["app"]) : Tells(notes, chan["app"][i])
  /\ parsing["app"] # NoMsg => Tells(notes, parsing["app"])
  /\ \A i \in 1..Len(told) : told[i].id \in 1..Len(notes)

\* A device function is in one place: inside icap_send_msg, on its way in q, at the
\* parser of the application in p, or told in t.
Busy == {c \in Context : ctx[c].at # "idle"}
Untold(t, id) == \A i \in 1..Len(t) : t[i].id # id
Unsent(q, p, id) == /\ \A i \in 1..Len(q) : q[i].id # id
                    /\ p # NoMsg => p.id # id

OnceInv ==
  /\ \A c \in Busy : /\ Untold(told, ctx[c].id)
                      /\ Unsent(chan["app"], parsing["app"], ctx[c].id)
  /\ \A c, d \in Busy : c # d => ctx[c].id # ctx[d].id
  /\ \A i \in 1..Len(chan["app"]) : Untold(told, chan["app"][i].id)
  /\ \A i, j \in 1..Len(chan["app"]) : i # j => chan["app"][i].id # chan["app"][j].id
  /\ parsing["app"] # NoMsg =>
       /\ Untold(told, parsing["app"].id)
       /\ \A i \in 1..Len(chan["app"]) : chan["app"][i].id # parsing["app"].id

\* A response carries the answer to its message.
Answers(ns, t, r) ==
  /\ r.nth \in 1..Len(t)
  /\ Heard(r.cmd, r) = Abs!Answer(ns[t[r.nth].id], t[r.nth].ret)

AnswerInv ==
  /\ \A i \in 1..Len(chan["dev"]) : Answers(notes, told, chan["dev"][i])
  /\ parsing["dev"] # NoMsg => Answers(notes, told, parsing["dev"])

\* Responses are heard, parsed and on their way in the order of the messages told.
HearInv ==
  /\ \A j \in 1..Len(heard) : heard[j].nth <= Len(told)
  /\ \A i \in 1..Len(chan["dev"]), j \in 1..Len(heard) : heard[j].nth < chan["dev"][i].nth
  /\ \A i, j \in 1..Len(chan["dev"]) : i < j => chan["dev"][i].nth < chan["dev"][j].nth
  /\ parsing["dev"] # NoMsg =>
       /\ \A j \in 1..Len(heard) : heard[j].nth < parsing["dev"].nth
       /\ \A i \in 1..Len(chan["dev"]) : parsing["dev"].nth < chan["dev"][i].nth

RefInv == DescInv /\ OnceInv /\ AnswerInv /\ HearInv

-----------------------------------------------------------------------------
\* What the response callback makes of icap_application_parse_msg's response.
LEMMA AnswerIsHeard ==
  ASSUME NEW cmd \in Note, NEW arg \in Nat, NEW ret \in Int, NEW r, NEW n,
         n.cmd = cmd, n.arg = arg,
         r.type = AppReply(cmd, arg, ret).type, r.val = AppReply(cmd, arg, ret).val
  PROVE  Heard(cmd, r) = Abs!Answer(n, ret)
<1>1. cmd \in NoteCmd
  BY DeviceAssumption
<1>2. Heard(cmd, r) = IF ret # 0 THEN ret ELSE IF cmd = "ERROR" THEN 0 ELSE arg
  BY <1>1, NoteRoundTrip
<1>3. QED
  BY <1>2 DEF Abs!Answer

\* A step that adds notes and leaves the rest alone.
LEMMA MessagesKept ==
  ASSUME TypeInv, RefInv, NotesKept, UNCHANGED <<chan, parsing, told, heard>>
  PROVE  DescInv' /\ AnswerInv' /\ HearInv'
<1>1. Len(notes) \in Nat /\ Len(notes') \in Int
  BY DEF TypeInv, TypeOK, NotesKept
<1>2. \A m : Tells(notes, m) => Tells(notes', m)
  BY DEF Tells, NotesKept, TypeInv, TypeOK
<1>3. \A i \in 1..Len(told) : told[i].id \in 1..Len(notes')
  BY DEF RefInv, DescInv, NotesKept, TypeInv, TypeOK
<1>4. DescInv'
  BY <1>2, <1>3 DEF RefInv, DescInv
<1>5. \A r : Answers(notes, told, r) => Answers(notes', told', r)
  BY DEF RefInv, DescInv, Answers, NotesKept, Abs!Answer
<1>6. AnswerInv'
  BY <1>5 DEF RefInv, AnswerInv
<1>7. HearInv'
  BY DEF RefInv, HearInv
<1>8. QED
  BY <1>4, <1>6, <1>7

LEMMA BeginRef ==
  ASSUME TypeInv, RefInv, NEW c \in Context, NEW n \in Note, NEW a \in Arg, Begin(c, n, a)
  PROVE  RefInv'
<1>1. NotesKept /\ UNCHANGED <<chan, parsing, told, heard>>
  BY BeginType DEF Begin
<1>2. /\ ctx'[c].id = Len(notes) + 1 /\ \A d \in Context \ {c} : ctx'[d] = ctx[d]
      /\ c \notin Busy /\ Len(notes) \in Nat
  BY DEF Begin, Busy, TypeInv, TypeOK
<1>3. Busy' \subseteq Busy \cup {c}
  BY <1>2 DEF Busy
<1>4. \A d \in Busy : ctx[d].id \in 1..Len(notes) /\ ctx'[d] = ctx[d]
  BY <1>2 DEF TypeInv, CtxInv, Busy
<1>5. \A id : /\ (Untold(told', id) <=> Untold(told, id))
              /\ (Unsent(chan'["app"], parsing'["app"], id)
                   <=> Unsent(chan["app"], parsing["app"], id))
  BY <1>1 DEF Untold, Unsent
<1>6. Untold(told, Len(notes) + 1) /\ Unsent(chan["app"], parsing["app"], Len(notes) + 1)
  BY <1>2 DEF RefInv, DescInv, Tells, Untold, Unsent
<1>7. \A d \in Busy' : Untold(told', ctx'[d].id) /\ Unsent(chan'["app"], parsing'["app"], ctx'[d].id)
  BY <1>2, <1>3, <1>4, <1>5, <1>6 DEF RefInv, OnceInv
<1>8. \A d, e \in Busy' : d # e => ctx'[d].id # ctx'[e].id
  BY <1>2, <1>3, <1>4 DEF RefInv, OnceInv
<1>9. OnceInv'
  BY <1>1, <1>5, <1>7, <1>8 DEF RefInv, OnceInv
<1>10. QED
  BY <1>1, <1>9, MessagesKept DEF RefInv

\* A context inside a device function stays there.
LEMMA MoveRef ==
  ASSUME TypeInv, RefInv, NEW c \in Context, Load(c) \/ Store(c) \/ Copy(c)
  PROVE  RefInv'
<1>1. UNCHANGED <<chan, parsing, told, heard>>
  BY DEF Load, Store, Copy, history
<1>2. NotesKept
  <2>1. CASE Copy(c)
    BY <2>1, CopyType
  <2>2. CASE Load(c) \/ Store(c)
    <3>1. UNCHANGED notes
      BY <2>2 DEF Load, Store, history
    <3>2. QED
      BY <3>1, NotesSame
  <2>3. QED
    BY <2>1, <2>2
<1>3. \A d \in Context : ctx'[d].id = ctx[d].id /\ (d \in Busy' => d \in Busy)
  <2>1. \E at \in Place, x \in {ctx[c].num, seqNum, seqNum'} :
          ctx' = [ctx EXCEPT ![c].at = at, ![c].num = x]
    BY DEF Load, Store, Copy, Place
  <2>2. ctx[c].at # "idle"
    BY DEF Load, Store, Copy
  <2>3. ctx \in [Context -> [at : Place, id : 0..Len(notes), num : Number]]
    BY DEF TypeInv, TypeOK
  <2>4. ctx'[c].id = ctx[c].id /\ \A d \in Context \ {c} : ctx'[d] = ctx[d]
    BY <2>1, <2>3
  <2>5. QED
    BY <2>2, <2>4 DEF Busy
<1>4. Busy' \subseteq Busy /\ \A d \in Busy' : ctx'[d].id = ctx[d].id
  BY <1>3 DEF Busy
<1>5. \A id : /\ (Untold(told', id) <=> Untold(told, id))
              /\ (Unsent(chan'["app"], parsing'["app"], id)
                   <=> Unsent(chan["app"], parsing["app"], id))
  BY <1>1 DEF Untold, Unsent
<1>6. OnceInv'
  BY <1>1, <1>4, <1>5 DEF RefInv, OnceInv
<1>7. QED
  BY <1>1, <1>2, <1>6, MessagesKept DEF RefInv

\* What is on its way to the application after a send.
LEMMA SendRef ==
  ASSUME TypeInv, RefInv, NEW c \in Context, Send(c)
  PROVE  RefInv'
<1> DEFINE m == Sending(c)
           q == chan["app"]
<1>1. /\ c \in Busy /\ ctx' = [ctx EXCEPT ![c] = Idle]
      /\ Post("app", m) \/ UNCHANGED chan
      /\ UNCHANGED <<parsing, notes, told, heard>>
  BY DEF Send, Sending, Busy, history
<1>2. \A d \in Context \ {c} : ctx'[d] = ctx[d]
  BY <1>1, RestType
<1>3. ctx'[c].at = "idle"
  BY <1>1, RestType DEF Idle
<1>4. Busy' = Busy \ {c} /\ \A d \in Busy' : ctx'[d] = ctx[d]
  BY <1>2, <1>3 DEF Busy
<1>5. ChanOK /\ m \in Message /\ q \in Seq(Message) /\ Len(q) \in Nat
  BY <1>1, SendingType DEF Kind, Busy, TypeInv, TypeOK, ChanOK
<1>6. chan'["dev"] = chan["dev"] /\ (chan'["app"] = q \/ chan'["app"] = Append(q, m))
  <2>1. CASE UNCHANGED chan
    BY <2>1
  <2>2. CASE Post("app", m)
    BY <2>2, <1>1, <1>5, SendingType, PostType, Sides DEF Busy
  <2>3. QED
    BY <1>1, <2>1, <2>2
<1>7. m.id = ctx[c].id /\ Tells(notes, m)
  BY <1>1 DEF Sending, Tells, Busy, TypeInv, CtxInv
<1>8. AnswerInv' /\ HearInv'
  BY <1>1, <1>6 DEF RefInv, AnswerInv, HearInv, Answers
<1>9. Untold(told, m.id) /\ Unsent(chan["app"], parsing["app"], m.id)
  BY <1>1, <1>7 DEF RefInv, OnceInv
<1>10. CASE chan'["app"] = q
  <2>1. \A id : /\ (Untold(told', id) <=> Untold(told, id))
                /\ (Unsent(chan'["app"], parsing'["app"], id)
                     <=> Unsent(chan["app"], parsing["app"], id))
    BY <1>1, <1>10 DEF Untold, Unsent
  <2>2. OnceInv'
    BY <2>1, <1>1, <1>4, <1>10 DEF RefInv, OnceInv
  <2>3. DescInv'
    BY <1>1, <1>10 DEF RefInv, DescInv, Tells
  <2>4. QED
    BY <2>2, <2>3, <1>8 DEF RefInv
<1>11. CASE chan'["app"] = Append(q, m)
  <2>1. /\ Len(chan'["app"]) = Len(q) + 1 /\ chan'["app"][Len(q) + 1] = m
        /\ \A i \in 1..Len(q) : chan'["app"][i] = q[i]
    BY <1>5, <1>11, AppendProperties
  <2>2. \A i \in 1..Len(chan'["app"]) :
          (i \in 1..Len(q) /\ chan'["app"][i] = q[i]) \/ (i = Len(q) + 1 /\ chan'["app"][i] = m)
    BY <2>1, <1>5
  <2> HIDE DEF m, q
  <2>3. \A id : Untold(told', id) <=> Untold(told, id)
    BY <1>1 DEF Untold
  <2>4. \A d \in Busy' : Unsent(chan'["app"], parsing'["app"], ctx'[d].id)
    <3>1. \A d \in Busy' : d \in Busy /\ ctx'[d] = ctx[d] /\ ctx[d].id # m.id
      BY <1>1, <1>4, <1>7 DEF RefInv, OnceInv
    <3>2. QED
      BY <3>1, <2>2, <1>1 DEF RefInv, OnceInv, Unsent, q
  <2>5. OnceInv'
    <3>1. /\ \A d \in Busy' : Untold(told', ctx'[d].id) /\ Unsent(chan'["app"], parsing'["app"], ctx'[d].id)
          /\ \A d, e \in Busy' : d # e => ctx'[d].id # ctx'[e].id
      BY <2>3, <2>4, <1>4 DEF RefInv, OnceInv
    <3>2. \A i \in 1..Len(chan'["app"]) : Untold(told', chan'["app"][i].id)
      BY <2>2, <2>3, <1>9 DEF RefInv, OnceInv, q
    <3>3. \A i, j \in 1..Len(chan'["app"]) : i # j => chan'["app"][i].id # chan'["app"][j].id
      <4>1. \A i \in 1..Len(q) : q[i].id # m.id
        BY <1>9 DEF Unsent, q
      <4>2. \A i, j \in 1..Len(q) : i # j => q[i].id # q[j].id
        BY DEF RefInv, OnceInv, q
      <4>3. QED
        BY <4>1, <4>2, <2>2
    <3>4. parsing["app"] # NoMsg =>
            /\ Untold(told, parsing["app"].id)
            /\ \A i \in 1..Len(chan'["app"]) : chan'["app"][i].id # parsing["app"].id
      BY <2>2, <1>9 DEF RefInv, OnceInv, Unsent, q
    <3>5. QED
      BY <3>1, <3>2, <3>3, <3>4, <2>3, <1>1 DEF OnceInv
  <2>6. DescInv'
    <3>1. \A i \in 1..Len(chan'["app"]) : Tells(notes, chan'["app"][i])
      BY <2>2, <1>7 DEF RefInv, DescInv, q
    <3>2. QED
      BY <3>1, <1>1 DEF RefInv, DescInv, Tells
  <2>7. QED
    BY <2>5, <2>6, <1>8 DEF RefInv
<1>12. QED
  BY <1>6, <1>10, <1>11

\* The oldest message is taken from a channel, to be parsed or to be lost.
LEMMA TakeRef ==
  ASSUME TypeInv, RefInv, NEW s \in Side, parsing[s] = NoMsg \/ UNCHANGED parsing,
         chan[s] # <<>>, chan' = [chan EXCEPT ![s] = Tail(@)],
         parsing' \in {parsing, [parsing EXCEPT ![s] = Head(chan[s])]},
         UNCHANGED <<sender, history>>
  PROVE  RefInv'
<1> DEFINE q == chan[s]
<1>1. UNCHANGED <<ctx, notes, told, heard>> /\ Busy' = Busy
  BY DEF sender, history, Busy
<1>2. ChanOK /\ DOMAIN parsing = Side
  BY DEF TypeInv, TypeOK, ChanOK
<1>3. chan'[s] = Tail(q) /\ \A r \in Side \ {s} : chan'[r] = chan[r] /\ parsing'[r] = parsing[r]
  BY <1>2, TakeType
<1>4. parsing'[s] = parsing[s] \/ (parsing[s] = NoMsg /\ parsing'[s] = Head(q))
  BY <1>2
<1>5. q \in Seq(Kind(s))
  BY <1>2, Sides DEF ChanOK, Kind
<1>6. /\ Len(q) \in Nat /\ Len(q) # 0 /\ Len(chan'[s]) = Len(q) - 1 /\ Head(q) = q[1]
      /\ \A i \in 1..Len(chan'[s]) : chan'[s][i] = q[i + 1]
  <2>1. Len(Tail(q)) = Len(q) - 1 /\ \A i \in 1..Len(Tail(q)) : Tail(q)[i] = q[i + 1]
    BY <1>5, HeadTailProperties
  <2>2. Len(q) \in Nat /\ Len(q) # 0 /\ Head(q) = q[1]
    BY <1>5
  <2>3. QED
    BY <2>1, <2>2, <1>3
<1>7. \A i \in 1..Len(chan'[s]) : i + 1 \in 1..Len(q) /\ i + 1 # 1 /\ 1 < i + 1
  BY <1>6
<1>8. 1 \in 1..Len(q)
  BY <1>6
<1> HIDE DEF q
<1>9. CASE s = "app"
  <2>1. /\ Len(chan'["app"]) \in Int /\ chan'["dev"] = chan["dev"] /\ parsing'["dev"] = parsing["dev"]
    BY <1>3, <1>6, <1>9, Sides
  <2>2. AnswerInv' /\ HearInv'
    BY <2>1, <1>1 DEF RefInv, AnswerInv, HearInv, Answers
  <2>3. \A m : Tells(notes', m) <=> Tells(notes, m)
    BY <1>1 DEF Tells
  <2>4. \A id : Untold(told', id) <=> Untold(told, id)
    BY <1>1 DEF Untold
  <2>5. DescInv'
    BY <2>3, <1>1, <1>3, <1>4, <1>6, <1>7, <1>8, <1>9 DEF RefInv, DescInv, q
  <2>6. \A id : Unsent(chan["app"], parsing["app"], id) => Unsent(chan'["app"], parsing'["app"], id)
    BY <1>3, <1>4, <1>6, <1>7, <1>8, <1>9 DEF Unsent, q
  <2>7. /\ \A i \in 1..Len(chan'["app"]) : Untold(told, chan'["app"][i].id)
        /\ \A i, j \in 1..Len(chan'["app"]) : i # j => chan'["app"][i].id # chan'["app"][j].id
    <3>1. /\ \A i \in 1..Len(q) : Untold(told, q[i].id)
          /\ \A i, j \in 1..Len(q) : i # j => q[i].id # q[j].id
      BY <1>9 DEF RefInv, OnceInv, q
    <3>2. \A i, j \in 1..Len(chan'[s]) : i # j => i + 1 # j + 1
      BY <1>6
    <3>3. \A i \in 1..Len(chan'[s]) : Untold(told, chan'[s][i].id)
      BY <3>1, <1>6, <1>7
    <3>4. ASSUME NEW i \in 1..Len(chan'[s]), NEW j \in 1..Len(chan'[s]), i # j
          PROVE  chan'[s][i].id # chan'[s][j].id
      <4>1. i + 1 \in 1..Len(q) /\ j + 1 \in 1..Len(q) /\ i + 1 # j + 1
        BY <3>2, <3>4, <1>7
      <4>2. q[i + 1].id # q[j + 1].id
        BY <4>1, <3>1
      <4>3. chan'[s][i] = q[i + 1] /\ chan'[s][j] = q[j + 1]
        BY <1>6
      <4>4. QED
        BY <4>2, <4>3
    <3>5. QED
      BY ONLY <3>3, <3>4, <1>9
  <2>8. parsing'["app"] # NoMsg =>
          /\ Untold(told, parsing'["app"].id)
          /\ \A i \in 1..Len(chan'["app"]) : chan'["app"][i].id # parsing'["app"].id
    BY <1>4, <1>6, <1>7, <1>8, <1>9 DEF RefInv, OnceInv, q
  <2>9. OnceInv'
    BY <2>4, <2>6, <2>7, <2>8, <1>1 DEF RefInv, OnceInv
  <2>10. QED
    BY <2>2, <2>5, <2>9 DEF RefInv
<1>10. CASE s = "dev"
  <2>1. chan'["app"] = chan["app"] /\ parsing'["app"] = parsing["app"]
    BY <1>3, <1>10, Sides
  <2>2. DescInv'
    BY <2>1, <1>1 DEF RefInv, DescInv, Tells
  <2>3. \A id : /\ (Untold(told', id) <=> Untold(told, id))
                /\ (Unsent(chan'["app"], parsing'["app"], id)
                     <=> Unsent(chan["app"], parsing["app"], id))
    BY <2>1, <1>1 DEF Untold, Unsent
  <2>4. OnceInv'
    BY <2>1, <2>3, <1>1 DEF RefInv, OnceInv
  <2>5. \A r : Answers(notes', told', r) <=> Answers(notes, told, r)
    BY <1>1 DEF Answers, Abs!Answer
  <2>6. AnswerInv'
    BY <2>5, <1>4, <1>6, <1>7, <1>8, <1>10 DEF RefInv, AnswerInv, q
  <2>7. HearInv'
    <3>1. /\ \A i \in 1..Len(q), j \in 1..Len(heard) : heard[j].nth < q[i].nth
          /\ \A i, j \in 1..Len(q) : i < j => q[i].nth < q[j].nth
          /\ parsing["dev"] # NoMsg => \A i \in 1..Len(q) : parsing["dev"].nth < q[i].nth
      BY <1>10 DEF RefInv, HearInv, q
    <3>2. \A i, j \in 1..Len(chan'[s]) : i < j => i + 1 < j + 1
      BY <1>6
    <3>3. /\ \A i \in 1..Len(chan'[s]), j \in 1..Len(heard) : heard[j].nth < chan'[s][i].nth
          /\ \A i, j \in 1..Len(chan'[s]) : i < j => chan'[s][i].nth < chan'[s][j].nth
      BY <3>1, <3>2, <1>6, <1>7
    <3>4. parsing'[s] # NoMsg =>
            /\ \A j \in 1..Len(heard) : heard[j].nth < parsing'[s].nth
            /\ \A i \in 1..Len(chan'[s]) : parsing'[s].nth < chan'[s][i].nth
      <4>1. CASE parsing'[s] = parsing[s]
        BY <4>1, <3>1, <1>6, <1>7, <1>10 DEF RefInv, HearInv
      <4>2. CASE parsing'[s] = Head(q)
        BY <4>2, <3>1, <1>6, <1>7, <1>8
      <4>3. QED
        BY <4>1, <4>2, <1>4
    <3>5. QED
      BY <3>3, <3>4, <1>1, <1>10 DEF RefInv, HearInv
  <2>8. QED
    BY <2>2, <2>4, <2>6, <2>7 DEF RefInv
<1>11. QED
  BY <1>9, <1>10, Sides

\* The application is told a message and responds.
LEMMA AppParseRef ==
  ASSUME TypeInv, RefInv, NEW ret \in Ret, AppParse(ret)
  PROVE  RefInv'
<1> DEFINE m == parsing["app"]
           t == [id |-> m.id, ret |-> ret]
           r == Responding(ret)
           q == chan["dev"]
           n == Len(told)
<1>1. /\ m # NoMsg /\ told' = Append(told, t)
      /\ Post("dev", r) \/ UNCHANGED chan
      /\ parsing' = [parsing EXCEPT !["app"] = NoMsg]
      /\ UNCHANGED <<sender, notes, heard>>
  BY DEF AppParse, Responding
<1>2. ChanOK /\ ParsingOK /\ n \in Nat /\ told \in Seq([id : Nat, ret : Int]) /\ notes \in Seq(Records)
  BY DEF TypeInv, TypeOK, ChanOK, ParsingOK
<1>3. m \in Message /\ Tells(notes, m) /\ Untold(told, m.id)
  BY <1>1, <1>2 DEF RefInv, DescInv, OnceInv, ParsingOK
<1>4. t \in [id : Nat, ret : Int]
  BY <1>3, DeviceAssumption DEF Message
<1>5. /\ Len(told') = n + 1 /\ told'[n + 1] = t
      /\ \A i \in 1..n : told'[i] = told[i]
  BY <1>1, <1>2, <1>4, AppendProperties
<1>6. parsing'["app"] = NoMsg /\ parsing'["dev"] = parsing["dev"]
  BY <1>1, ParsedType, Sides
<1>7. r \in Reply /\ q \in Seq(Reply) /\ Len(q) \in Nat
  BY <1>1, <1>2, RespondingType, Sides DEF Kind, ChanOK
<1>8. chan'["app"] = chan["app"] /\ (chan'["dev"] = q \/ chan'["dev"] = Append(q, r))
  <2>1. CASE UNCHANGED chan
    BY <2>1
  <2>2. CASE Post("dev", r)
    BY <2>2, <1>1, <1>2, RespondingType, PostType, Sides
  <2>3. QED
    BY <1>1, <2>1, <2>2
<1>9. r.nth = n + 1 /\ Heard(r.cmd, r) = Abs!Answer(notes[m.id], ret)
  <2>1. m.cmd \in Note /\ m.arg \in Nat /\ ret \in Int
    BY <1>3, DeviceAssumption DEF Message
  <2>2. /\ r.cmd = m.cmd /\ r.nth = n + 1
        /\ r.type = AppReply(m.cmd, m.arg, ret).type /\ r.val = AppReply(m.cmd, m.arg, ret).val
    BY DEF Responding
  <2>3. notes[m.id].cmd = m.cmd /\ notes[m.id].arg = m.arg
    BY <1>3 DEF Tells
  <2> HIDE DEF r, m
  <2>4. Heard(m.cmd, r) = Abs!Answer(notes[m.id], ret)
    BY <2>1, <2>2, <2>3, AnswerIsHeard
  <2>5. QED
    BY <2>2, <2>4
<1>10. t.id = m.id /\ t.ret = ret
  OBVIOUS
<1>11. UNCHANGED <<ctx, notes, heard>> /\ Busy' = Busy
  BY <1>1 DEF sender, Busy
<1>12. \A i \in 1..Len(told') : i \in 1..n \/ i = n + 1
  BY <1>2, <1>5
<1>13. \A i \in 1..n : i \in 1..Len(told')
  BY <1>2, <1>5
<1>14. n + 1 \in 1..Len(told')
  BY <1>2, <1>5
<1> HIDE DEF t, r, q
<1>15. DescInv'
  <2>1. m.id \in 1..Len(notes)
    BY <1>3 DEF Tells
  <2>2. \A i \in 1..Len(told') : told'[i].id \in 1..Len(notes)
    BY <2>1, <1>5, <1>10, <1>12 DEF RefInv, DescInv
  <2>3. QED
    BY <2>2, <1>6, <1>8, <1>11 DEF RefInv, DescInv, Tells
<1>16. OnceInv'
  <2>1. \A id : Untold(told, id) /\ id # m.id => Untold(told', id)
    BY <1>5, <1>10, <1>12 DEF Untold
  <2>2. \A id : Unsent(chan["app"], parsing["app"], id) => Unsent(chan'["app"], parsing'["app"], id) /\ id # m.id
    BY <1>1, <1>6, <1>8 DEF Unsent
  <2>3. \A i \in 1..Len(chan["app"]) : Untold(told', chan["app"][i].id)
    BY <2>1, <1>1 DEF RefInv, OnceInv
  <2>4. \A c \in Busy : Untold(told', ctx[c].id) /\ Unsent(chan'["app"], parsing'["app"], ctx[c].id)
    BY <2>1, <2>2 DEF RefInv, OnceInv
  <2>5. QED
    BY <2>3, <2>4, <1>6, <1>8, <1>11 DEF RefInv, OnceInv
<1>17. \A x : Answers(notes, told, x) => Answers(notes', told', x)
  BY <1>5, <1>11, <1>13 DEF Answers, Abs!Answer
<1>18. Answers(notes', told', r)
  BY <1>5, <1>9, <1>10, <1>11, <1>14 DEF Answers, Abs!Answer
<1>19. \A j \in 1..Len(heard) : heard[j].nth \in Nat /\ heard[j].nth <= n
  <2>1. heard \in Seq([nth : Nat, val : Int])
    BY DEF TypeInv, TypeOK
  <2>2. \A j \in 1..Len(heard) : heard[j] \in [nth : Nat, val : Int]
    BY <2>1, ElementOfSeq
  <2>3. QED
    BY <2>2 DEF RefInv, HearInv
<1>20. CASE chan'["dev"] = q
  <2>1. AnswerInv'
    BY <1>17, <1>20, <1>6 DEF RefInv, AnswerInv, q
  <2>2. \A j \in 1..Len(heard) : heard[j].nth <= Len(told')
    BY <1>2, <1>5, <1>19
  <2>3. HearInv'
    BY <2>2, <1>6, <1>11, <1>20 DEF RefInv, HearInv, q
  <2>4. QED
    BY <2>1, <2>3, <1>15, <1>16 DEF RefInv
<1>21. CASE chan'["dev"] = Append(q, r)
  <2>1. /\ Len(chan'["dev"]) = Len(q) + 1 /\ chan'["dev"][Len(q) + 1] = r
        /\ \A i \in 1..Len(q) : chan'["dev"][i] = q[i]
    BY <1>7, <1>21, AppendProperties
  <2>2. \A i \in 1..Len(chan'["dev"]) :
          (i \in 1..Len(q) /\ chan'["dev"][i] = q[i]) \/ (i = Len(q) + 1 /\ chan'["dev"][i] = r)
    BY <2>1, <1>7
  <2>3. AnswerInv'
    BY <2>2, <1>6, <1>17, <1>18 DEF RefInv, AnswerInv, q
  <2>4. \A j \in 1..Len(heard) : heard[j].nth \in Nat /\ heard[j].nth <= n
    BY <1>19
  <2>5. \A i \in 1..Len(q) : q[i].nth \in 1..n
    BY DEF RefInv, AnswerInv, Answers, q
  <2>6. parsing["dev"] # NoMsg => parsing["dev"].nth \in 1..n
    BY DEF RefInv, AnswerInv, Answers
  <2>7. \A j \in 1..Len(heard) : heard[j].nth <= Len(told')
    BY <2>4, <1>2, <1>5
  <2>8. \A i \in 1..Len(chan'["dev"]), j \in 1..Len(heard) : heard[j].nth < chan'["dev"][i].nth
    <3>1. \A j \in 1..Len(heard) : heard[j].nth < r.nth
      BY <2>4, <1>2, <1>9
    <3>2. QED
      BY <3>1, <2>2 DEF RefInv, HearInv, q
  <2>9. \A i, j \in 1..Len(chan'["dev"]) : i < j => chan'["dev"][i].nth < chan'["dev"][j].nth
    <3>1. \A i \in 1..Len(q) : q[i].nth < r.nth
      BY <2>5, <1>2, <1>9
    <3>2. \A i, j \in 1..Len(q) : i < j => q[i].nth < q[j].nth
      BY DEF RefInv, HearInv, q
    <3>3. QED
      BY <3>1, <3>2, <2>2, <1>7
  <2>10. parsing["dev"] # NoMsg =>
           /\ \A j \in 1..Len(heard) : heard[j].nth < parsing["dev"].nth
           /\ \A i \in 1..Len(chan'["dev"]) : parsing["dev"].nth < chan'["dev"][i].nth
    <3>1. parsing["dev"] # NoMsg => parsing["dev"].nth < r.nth
      BY <2>6, <1>2, <1>9
    <3>2. QED
      BY <3>1, <2>2 DEF RefInv, HearInv, q
  <2>11. HearInv'
    BY <2>7, <2>8, <2>9, <2>10, <1>6, <1>11 DEF HearInv
  <2>12. QED
    BY <2>3, <2>11, <1>15, <1>16 DEF RefInv
<1>22. QED
  BY <1>8, <1>20, <1>21

\* The device is told a response.
LEMMA DevParseRef ==
  ASSUME TypeInv, RefInv, DevParse
  PROVE  RefInv'
<1> DEFINE m == parsing["dev"]
<1>1. /\ m # NoMsg
      /\ heard' = Append(heard, Hearing) \/ UNCHANGED heard
      /\ parsing' = [parsing EXCEPT !["dev"] = NoMsg]
      /\ UNCHANGED <<sender, chan, notes, told>>
  BY DEF DevParse, Hearing
<1>2. parsing'["dev"] = NoMsg /\ parsing'["app"] = parsing["app"]
  BY <1>1, ParsedType, Sides
<1>3. UNCHANGED <<ctx, notes, told, chan>> /\ Busy' = Busy
  BY <1>1 DEF sender, Busy
<1>4. DescInv'
  BY <1>2, <1>3 DEF RefInv, DescInv, Tells
<1>5. \A id : /\ (Untold(told', id) <=> Untold(told, id))
              /\ (Unsent(chan'["app"], parsing'["app"], id)
                   <=> Unsent(chan["app"], parsing["app"], id))
  BY <1>2, <1>3 DEF Untold, Unsent
<1>6. OnceInv'
  BY <1>2, <1>3, <1>5 DEF RefInv, OnceInv
<1>7. \A r : Answers(notes', told', r) <=> Answers(notes, told, r)
  BY <1>3 DEF Answers, Abs!Answer
<1>8. AnswerInv'
  BY <1>2, <1>3, <1>7 DEF RefInv, AnswerInv
<1>9. CASE UNCHANGED heard
  <2>1. HearInv'
    BY <1>2, <1>3, <1>9 DEF RefInv, HearInv
  <2>2. QED
    BY <2>1, <1>4, <1>6, <1>8 DEF RefInv
<1>10. CASE heard' = Append(heard, Hearing)
  <2>1. heard \in Seq([nth : Nat, val : Int]) /\ m \in Reply
    <3>1. m \in Reply \cup {NoMsg}
      BY DEF TypeInv, TypeOK
    <3>2. heard \in Seq([nth : Nat, val : Int])
      BY DEF TypeInv, TypeOK
    <3>3. QED
      BY ONLY <3>1, <3>2, <1>1
  <2>2. Hearing \in [nth : Nat, val : Int] /\ Hearing.nth = m.nth
    BY <2>1 DEF Hearing, Heard, Reply
  <2>3. /\ Len(heard') = Len(heard) + 1 /\ heard'[Len(heard) + 1] = Hearing
        /\ \A i \in 1..Len(heard) : heard'[i] = heard[i]
    BY ONLY <2>1, <2>2, <1>10, AppendProperties
  <2>4. \A j \in 1..Len(heard') : (j \in 1..Len(heard) /\ heard'[j] = heard[j])
                                  \/ heard'[j] = Hearing
    BY <2>1, <2>3
  <2>5. m.nth \in 1..Len(told) /\ \A i \in 1..Len(chan["dev"]) : m.nth < chan["dev"][i].nth
    BY <1>1 DEF RefInv, AnswerInv, Answers, HearInv
  <2>6. \A j \in 1..Len(heard') : heard'[j].nth <= Len(told)
    BY <2>2, <2>4, <2>5 DEF RefInv, HearInv
  <2>7. \A i \in 1..Len(chan["dev"]), j \in 1..Len(heard') : heard'[j].nth < chan["dev"][i].nth
    BY <2>2, <2>4, <2>5 DEF RefInv, HearInv
  <2>8. HearInv'
    BY <2>6, <2>7, <1>2, <1>3 DEF RefInv, HearInv
  <2>9. QED
    BY <2>8, <1>4, <1>6, <1>8 DEF RefInv
<1>11. QED
  BY <1>1, <1>9, <1>10

LEMMA QuietRef ==
  ASSUME RefInv, UNCHANGED <<ctx, chan, parsing, notes, told, heard>>
  PROVE  RefInv'
<1>1. \A m : (Tells(notes', m) <=> Tells(notes, m)) /\ (Answers(notes', told', m) <=> Answers(notes, told, m))
  BY DEF Tells, Answers, Abs!Answer
<1>2. \A id : /\ (Untold(told', id) <=> Untold(told, id))
              /\ (Unsent(chan'["app"], parsing'["app"], id)
                   <=> Unsent(chan["app"], parsing["app"], id))
  BY DEF Untold, Unsent
<1>3. Busy' = Busy
  BY DEF Busy
<1>4. OnceInv'
  BY <1>2, <1>3 DEF RefInv, OnceInv
<1>5. DescInv' /\ AnswerInv' /\ HearInv'
  BY <1>1 DEF RefInv, DescInv, AnswerInv, HearInv
<1>6. QED
  BY <1>4, <1>5 DEF RefInv

LEMMA NextRef ==
  ASSUME TypeInv, RefInv, Steps
  PROVE  RefInv'
<1>1. ASSUME NEW c \in Context, Advance(c) PROVE RefInv'
  BY <1>1, MoveRef, SendRef DEF Advance
<1>2. ASSUME NEW s \in Side, Receive(s) \/ Drop(s) PROVE RefInv'
  BY <1>2, TakeRef DEF Receive, Drop
<1>3. ASSUME NEW s \in Side,
             Deinit(s) \/ DeinitTransport(s) \/ InitCallbacks(s) \/ InitTransport(s)
      PROVE  RefInv'
  <2>1. UNCHANGED <<ctx, chan, parsing, notes, told, heard>>
    BY <1>3 DEF Deinit, DeinitTransport, InitCallbacks, InitTransport, sender, history
  <2>2. QED
    BY <2>1, QuietRef
<1>4. ASSUME UNCHANGED vars PROVE RefInv'
  BY <1>4, QuietRef DEF vars, sender, history
<1>5. QED
  BY <1>1, <1>2, <1>3, <1>4, BeginRef, AppParseRef, DevParseRef DEF Steps

LEMMA InitRef ==
  ASSUME Init
  PROVE  RefInv
<1>1. /\ \A s \in Side : chan[s] = <<>> /\ parsing[s] = NoMsg /\ Len(chan[s]) = 0
      /\ notes = <<>> /\ told = <<>> /\ heard = <<>> /\ Len(told) = 0 /\ Len(heard) = 0
      /\ \A c \in Context : ctx[c].at = "idle"
  BY DEF Init, Idle
<1>2. Busy = {}
  BY <1>1 DEF Busy
<1>3. DescInv /\ OnceInv
  BY <1>1, <1>2, Sides DEF DescInv, OnceInv
<1>4. AnswerInv /\ HearInv
  BY <1>1, Sides DEF AnswerInv, HearInv
<1>5. QED
  BY <1>3, <1>4 DEF RefInv

LEMMA RefInvariant == Spec => [](TypeInv /\ RefInv)
<1>1. TypeInv /\ RefInv /\ [Next]_vars => RefInv'
  BY NextSteps, NextRef
<1>2. QED
  BY <1>1, InitRef, TypeInvariant, PTL DEF Spec

-----------------------------------------------------------------------------
(* The steps of IcapNote. *)

Noted == [i \in DOMAIN notes |-> [cmd |-> notes[i].cmd, arg |-> notes[i].arg]]

LEMMA NotedKept ==
  ASSUME TypeInv, Len(notes') = Len(notes), NotesKept, TypeInv'
  PROVE  Noted' = Noted
<1>1. DOMAIN notes = 1..Len(notes) /\ DOMAIN notes' = 1..Len(notes)
  BY DEF TypeInv, TypeOK
<1>2. QED
  BY <1>1 DEF NotesKept, Noted

LEMMA BeginIssues ==
  ASSUME TypeInv, NEW c \in Context, NEW n \in Note, NEW a \in Arg, Begin(c, n, a)
  PROVE  Noted' = Append(Noted, [cmd |-> n, arg |-> a])
<1> DEFINE r == [cmd |-> n, arg |-> a, session |-> sessions["dev"], seq |-> Unnumbered]
           e == [cmd |-> n, arg |-> a]
           S == [cmd : Note, arg : Arg]
           k == Len(notes)
<1>1. notes' = Append(notes, r) /\ notes \in Seq(Records) /\ r \in Records /\ k \in Nat
  BY Sides DEF Begin, TypeInv, TypeOK, Records
<1>2. /\ Len(notes') = k + 1 /\ notes'[k + 1] = r /\ \A i \in 1..k : notes'[i] = notes[i]
      /\ notes' \in Seq(Records)
  BY <1>1, AppendProperties
<1>3. r.cmd = n /\ r.arg = a /\ e \in S
  OBVIOUS
<1> HIDE DEF r
<1>4. DOMAIN notes = 1..k /\ DOMAIN notes' = 1..(k + 1)
  BY <1>1, <1>2
<1>5. \A i \in 1..k : notes[i] \in Records
  BY <1>1
<1>6. \A i \in 1..(k + 1) : notes'[i] \in Records
  BY <1>2
<1>7. Noted \in Seq(S) /\ Len(Noted) = k /\ \A i \in 1..k : Noted[i] = [cmd |-> notes[i].cmd, arg |-> notes[i].arg]
  BY <1>1, <1>4, <1>5 DEF Noted, Records
<1>8. Noted' \in Seq(S) /\ Len(Noted') = k + 1
      /\ \A i \in 1..(k + 1) : Noted'[i] = [cmd |-> notes'[i].cmd, arg |-> notes'[i].arg]
  BY <1>1, <1>4, <1>6 DEF Noted, Records
<1>9. /\ Append(Noted, e) \in Seq(S) /\ Len(Append(Noted, e)) = k + 1
      /\ \A i \in 1..k : Append(Noted, e)[i] = Noted[i]
      /\ Append(Noted, e)[k + 1] = e
  BY <1>3, <1>7, AppendProperties
<1>10. \A i \in 1..(k + 1) : Noted'[i] = Append(Noted, e)[i]
  <2>1. ASSUME NEW i \in 1..k PROVE Noted'[i] = Append(Noted, e)[i]
    <3>1. i \in 1..(k + 1)
      BY <1>1
    <3>2. Noted'[i] = [cmd |-> notes'[i].cmd, arg |-> notes'[i].arg]
      BY <3>1, <1>8
    <3>3. Append(Noted, e)[i] = [cmd |-> notes[i].cmd, arg |-> notes[i].arg]
      BY <1>7, <1>9
    <3>4. QED
      BY <3>2, <3>3, <1>2
  <2>2. Noted'[k + 1] = Append(Noted, e)[k + 1]
    BY <1>1, <1>2, <1>3, <1>8, <1>9
  <2>3. \A i \in 1..(k + 1) : i \in 1..k \/ i = k + 1
    BY <1>1
  <2>4. QED
    BY <2>1, <2>2, <2>3
<1>11. QED
  BY <1>8, <1>9, <1>10, SeqEqual

LEMMA AbsNext ==
  ASSUME TypeInv, TypeInv', RefInv, Steps
  PROVE  [Abs!Next]_(Abs!vars)
<1> SUFFICES Abs!Next \/ UNCHANGED <<Noted, told, heard>>
  BY DEF Abs!vars, Noted
<1>1. ASSUME NEW c \in Context, NEW n \in Note, NEW a \in Arg, Begin(c, n, a)
      PROVE  Abs!Issue(n, a)
  BY <1>1, BeginIssues DEF Begin, Abs!Issue, Noted
<1>2. ASSUME Len(notes') = Len(notes), NotesKept, UNCHANGED <<told, heard>>
      PROVE  UNCHANGED <<Noted, told, heard>>
  BY <1>2, NotedKept
<1>3. ASSUME UNCHANGED history PROVE UNCHANGED <<Noted, told, heard>>
  BY <1>3 DEF history, Noted
<1>4. ASSUME NEW c \in Context, Copy(c) PROVE UNCHANGED <<Noted, told, heard>>
  <2>1. NotesKept /\ UNCHANGED <<told, heard>>
    BY <1>4, CopyType DEF Copy
  <2>2. Len(notes') = Len(notes)
    BY <1>4 DEF Copy, TypeInv, TypeOK
  <2>3. QED
    BY <2>1, <2>2, <1>2
<1>5. ASSUME NEW c \in Context, Load(c) \/ Store(c) \/ Send(c)
      PROVE  UNCHANGED <<Noted, told, heard>>
  BY <1>5, <1>3 DEF Load, Store, Send
<1>6. ASSUME NEW s \in Side, \/ Receive(s) \/ Drop(s) \/ Deinit(s) \/ DeinitTransport(s)
                             \/ InitCallbacks(s) \/ InitTransport(s)
      PROVE  UNCHANGED <<Noted, told, heard>>
  BY <1>6, <1>3 DEF Receive, Drop, Deinit, DeinitTransport, InitCallbacks, InitTransport
<1>7. DOMAIN notes = 1..Len(notes) /\ DOMAIN told = 1..Len(told) /\ DOMAIN heard = 1..Len(heard)
  BY DEF TypeInv, TypeOK
<1>8. ASSUME NEW ret \in Ret, AppParse(ret) PROVE Abs!Next
  <2> DEFINE id == parsing["app"].id
  <2>1. parsing["app"] # NoMsg /\ told' = Append(told, [id |-> id, ret |-> ret])
        /\ UNCHANGED <<notes, heard>>
    BY <1>8 DEF AppParse
  <2>2. id \in DOMAIN Noted /\ \A i \in DOMAIN told : told[i].id # id
    BY <2>1, <1>7 DEF RefInv, DescInv, OnceInv, Tells, Untold, Noted
  <2>3. UNCHANGED Noted
    BY <2>1 DEF Noted
  <2> HIDE DEF id
  <2>4. Abs!Tell(id, ret)
    BY <2>1, <2>2, <2>3 DEF Abs!Tell, Noted
  <2>5. QED
    BY <2>2, <2>4 DEF Abs!Next, Noted
<1>9. ASSUME DevParse PROVE Abs!Next \/ UNCHANGED <<Noted, told, heard>>
  <2> DEFINE m == parsing["dev"]
  <2>1. /\ m # NoMsg
        /\ heard' = Append(heard, Hearing) \/ UNCHANGED heard
        /\ UNCHANGED <<notes, told>>
    BY <1>9 DEF DevParse, Hearing
  <2>2. UNCHANGED Noted
    BY <2>1 DEF Noted
  <2>3. CASE UNCHANGED heard
    BY <2>1, <2>2, <2>3
  <2>4. CASE heard' = Append(heard, Hearing)
    <3> DEFINE k == m.nth
               t == told[k]
    <3>1. k \in 1..Len(told) /\ Heard(m.cmd, m) = Abs!Answer(notes[t.id], t.ret)
          /\ \A j \in 1..Len(heard) : heard[j].nth < k
      BY <2>1 DEF RefInv, AnswerInv, Answers, HearInv
    <3>2. t.id \in DOMAIN notes
      BY <3>1, <1>7 DEF RefInv, DescInv
    <3>3. Noted[t.id] = [cmd |-> notes[t.id].cmd, arg |-> notes[t.id].arg]
      BY <3>2 DEF Noted
    <3>4. Abs!Answer(Noted[t.id], t.ret) = Abs!Answer(notes[t.id], t.ret)
      BY <3>3 DEF Abs!Answer
    <3>5. Hearing = [nth |-> k, val |-> Abs!Answer(Noted[t.id], t.ret)]
      BY <3>1, <3>4 DEF Hearing
    <3> HIDE DEF k
    <3>6. Abs!Hear(k)
      BY <3>1, <3>5, <2>1, <2>2, <2>4, <1>7 DEF Abs!Hear, Noted
    <3>7. QED
      BY <3>1, <3>6, <1>7 DEF Abs!Next
  <2>5. QED
    BY <2>1, <2>3, <2>4
<1>10. ASSUME UNCHANGED vars PROVE UNCHANGED <<Noted, told, heard>>
  BY <1>10, <1>3 DEF vars
<1>11. QED
  <2>1. ASSUME NEW c \in Context, Advance(c) PROVE UNCHANGED <<Noted, told, heard>>
    BY <2>1, <1>4, <1>5 DEF Advance
  <2>2. ASSUME NEW c \in Context, NEW n \in Note, NEW a \in Arg, Begin(c, n, a) PROVE Abs!Next
    BY <2>2, <1>1 DEF Abs!Next
  <2>3. QED
    BY <2>1, <2>2, <1>6, <1>8, <1>9, <1>10 DEF Steps

\* The device functions keep the promise of IcapNote on any transport, however often the
\* instances are initialised and whatever is lost: the application runs a callback at
\* most once for each, and the device hears, in order and at most once, the answer to it.
THEOREM DeviceKeepsPromise == Spec => Implements
<1>1. Init => Abs!Init
  BY DEF Init, Abs!Init
<1>2. TypeInv /\ RefInv /\ TypeInv' /\ [Next]_vars => [Abs!Next]_(Abs!vars)
  BY NextSteps, AbsNext
<1>3. QED
  BY <1>1, <1>2, TypeInvariant, RefInvariant, PTL DEF Spec, Implements, Abs!Spec
=============================================================================
