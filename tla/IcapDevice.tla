------------------------------ MODULE IcapDevice ------------------------------
(***************************************************************************)
(* The asynchronous half of icap.c: a device instance whose functions      *)
(* icap_frag_ready, icap_xrun and icap_error are called in several         *)
(* contexts at once, the application instance that runs a callback for     *)
(* each message and responds, and the device's response callbacks.  Both   *)
(* instances may be deinitialised and initialised again.                   *)
(*                                                                         *)
(* Both transports are modelled.  They differ in icap_platform_lock, a     *)
(* mutex in the kernel and nothing on bare metal; in who parses, a thread  *)
(* of its own in the kernel and the main context on bare metal; and in     *)
(* what a send does after a deinitialisation.                              *)
(***************************************************************************)
EXTENDS IcapMsg, Sequences

CONSTANTS Pairings,     \* the transports of the two sides: "kernel" or "bm"
          Context,      \* contexts that call device functions
          Isr,          \* the one that is an interrupt ...
          Nested,       \* ... of the core that runs the others, on these transports
          Note,         \* device functions called, by the command they send
          Arg,          \* their argument: a buffer id or an error code
          Ret,          \* return values of application callbacks
          Heeded,       \* commands for which the application has a callback
          Listening,    \* commands for which the device has a response callback
          SeqMod,       \* 2^32: seq_num is a uint32_t
          Quiesced,     \* the user lets nothing overlap init and deinit
          MaxNotes,     \* bound: calls of device functions
          MaxSessions,  \* bound: initialisations of each side after the first
          NoMsg, NoContext

Side == {"app", "dev"}
Number == 0..(SeqMod - 1)
Unnumbered == -1

ASSUME DeviceAssumption ==
  /\ Pairings \subseteq [Side -> {"kernel", "bm"}] /\ Nested \subseteq {"kernel", "bm"}
  /\ Note \subseteq NoteCmd /\ Heeded \subseteq Note /\ Listening \subseteq Note
  /\ Arg \subseteq Nat /\ Ret \subseteq Int /\ 0 \in Ret
  /\ SeqMod \in Nat \ {0}
  /\ NoContext \notin Context /\ Isr \in Context
  /\ Quiesced \in BOOLEAN
  /\ MaxNotes \in Nat /\ MaxSessions \in Nat

\* A message to the application, and its response.  id and nth are history
\* fields: which note it is, and how many messages the application was told
\* before it responded.
Message == [id : Nat, seq : Number, cmd : Note, arg : Arg]
Reply == [id : Nat, nth : Nat, seq : Number, cmd : Note, type : {"ACK", "NAK"},
          len : Nat, val : Int]
ASSUME NoMsgAssumption == NoMsg \notin Message \cup Reply

VARIABLES
  transport,  \* of each side
  life,       \* of each instance: "up", "closing", "down" or "callbacks"
  sessions,   \* initialisations of each side after the first one
  seqNum,     \* icap->seq_num of the device
  owner,      \* platform_lock of the device
  ctx,        \* place of each context in icap_send_msg, its note, its number
  chan,       \* messages on their way to each side, oldest first
  parsing,    \* the message icap_parse_msg of each side has accepted
  notes,      \* history: device functions called
  told,       \* history: messages for which the application ran a callback
  heard       \* history: response callbacks of the device

instance == <<transport, life, sessions>>
sender == <<seqNum, owner, ctx>>
history == <<notes, told, heard>>
vars == <<instance, sender, chan, parsing, history>>

Idle == [at |-> "idle", id |-> 0, num |-> 0]

Init == /\ transport \in Pairings
        /\ life = [s \in Side |-> "up"] /\ sessions = [s \in Side |-> 0]
        /\ seqNum = 0 /\ owner = NoContext
        /\ ctx = [c \in Context |-> Idle]
        /\ chan = [s \in Side |-> <<>>]
        /\ parsing = [s \in Side |-> NoMsg]
        /\ notes = <<>> /\ told = <<>> /\ heard = <<>>

\* icap->callbacks # NULL, and the transport still has somewhere to send to.
Registered(s) == life[s] \in {"callbacks", "up"}
Connected(s) == transport[s] = "bm" \/ life[s] # "down"

\* An interrupt keeps the core it interrupts until it returns.
Interrupted == transport["dev"] \in Nested /\ ctx[Isr].at # "idle"

\* On bare metal one context parses, initialises and deinitialises; elsewhere it
\* is up to the user that these do not overlap.
Orderly(s) == Quiesced \/ transport[s] = "bm"

\* c may go on: it is not interrupted, and on bare metal not busy otherwise.
Runs(c) == \/ c = Isr
           \/ /\ ~Interrupted
              /\ transport["dev"] = "bm" => /\ parsing["dev"] = NoMsg
                                           /\ life["dev"] \in {"up", "down"}

\* So may what side s does outside device functions.
Turn(s) == s = "dev" => /\ ~Interrupted
                        /\ transport["dev"] = "bm" =>
                             \A c \in Context \ {Isr} : ctx[c].at = "idle"
-----------------------------------------------------------------------------
(* icap_send_msg with sync = 0. *)

\* A device function is called with argument a.
Begin(c, n, a) ==
  /\ ctx[c].at = "idle" /\ Runs(c)
  /\ Len(notes) < MaxNotes
  /\ Quiesced => life["dev"] # "callbacks"
  /\ notes' = Append(notes, [cmd |-> n, arg |-> a, session |-> sessions["dev"],
                             seq |-> Unnumbered])
  /\ ctx' = [ctx EXCEPT ![c] = [at |-> "load", id |-> Len(notes) + 1, num |-> 0]]
  /\ UNCHANGED <<instance, seqNum, owner, chan, parsing, told, heard>>

\* Mutant: no transport locks.
LoadUnlocked(c) ==
  /\ ctx[c].at = "load" /\ Runs(c)
  /\ ctx' = [ctx EXCEPT ![c].at = "store", ![c].num = seqNum]
  /\ UNCHANGED <<instance, seqNum, owner, chan, parsing, history>>

\* icap_platform_lock, and seq_num is read to be incremented.
Load(c) ==
  /\ ctx[c].at = "load" /\ Runs(c)
  /\ IF transport["dev"] = "kernel" THEN owner = NoContext /\ owner' = c
                                    ELSE UNCHANGED owner
  /\ ctx' = [ctx EXCEPT ![c].at = "store", ![c].num = seqNum]
  /\ UNCHANGED <<instance, seqNum, chan, parsing, history>>

\* Mutant: the number does not wrap.
StoreWide(c) ==
  /\ ctx[c].at = "store" /\ Runs(c)
  /\ seqNum' = ctx[c].num + 1
  /\ ctx' = [ctx EXCEPT ![c].at = "copy", ![c].num = seqNum']
  /\ UNCHANGED <<instance, owner, chan, parsing, history>>

\* The incremented number is written back.
Store(c) ==
  /\ ctx[c].at = "store" /\ Runs(c)
  /\ seqNum' = (ctx[c].num + 1) % SeqMod
  /\ ctx' = [ctx EXCEPT ![c].at = "copy", ![c].num = seqNum']
  /\ UNCHANGED <<instance, owner, chan, parsing, history>>

\* seq_num is copied and the lock released; a build may keep the number in a
\* register or read the variable again.
Copy(c) ==
  /\ ctx[c].at = "copy" /\ Runs(c)
  /\ \E k \in {ctx[c].num, seqNum} :
       /\ ctx' = [ctx EXCEPT ![c].at = "send", ![c].num = k]
       /\ notes' = [notes EXCEPT ![ctx[c].id].seq = k]
  /\ owner' = IF transport["dev"] = "kernel" THEN NoContext ELSE owner
  /\ UNCHANGED <<instance, seqNum, chan, parsing, told, heard>>
-----------------------------------------------------------------------------
(* icap_send_platform, icap_parse_msg and the parsers. *)

\* m is put on the channel to side s, or gets lost.
Post(s, m) == chan' \in {chan, [chan EXCEPT ![s] = Append(@, m)]}

\* Mutant: sends again until there is room.
SendInsists(c) ==
  /\ ctx[c].at = "send" /\ Runs(c)
  /\ \/ /\ Connected("dev") /\ ctx' = [ctx EXCEPT ![c] = Idle]
        /\ Post("app", [id |-> ctx[c].id, seq |-> ctx[c].num,
                        cmd |-> notes[ctx[c].id].cmd, arg |-> notes[ctx[c].id].arg])
     \/ ~Connected("dev") /\ UNCHANGED <<ctx, chan>>
  /\ UNCHANGED <<instance, seqNum, owner, parsing, history>>

\* The device function sends its message, if it still can, and returns.
Send(c) ==
  /\ ctx[c].at = "send" /\ Runs(c)
  /\ IF Connected("dev")
     THEN Post("app", [id |-> ctx[c].id, seq |-> ctx[c].num,
                       cmd |-> notes[ctx[c].id].cmd, arg |-> notes[ctx[c].id].arg])
     ELSE UNCHANGED chan
  /\ ctx' = [ctx EXCEPT ![c] = Idle]
  /\ UNCHANGED <<instance, seqNum, owner, parsing, history>>

\* icap_parse_msg up to its dispatch: without callbacks the message is dropped.
Receive(s) ==
  /\ Turn(s) /\ parsing[s] = NoMsg /\ chan[s] # <<>>
  /\ Orderly(s) => life[s] \in {"up", "down"}
  /\ chan' = [chan EXCEPT ![s] = Tail(@)]
  /\ parsing' = IF Registered(s) THEN [parsing EXCEPT ![s] = Head(chan[s])] ELSE parsing
  /\ UNCHANGED <<instance, sender, history>>

\* icap_application_parse_msg reads icap->callbacks again, runs the callback,
\* which returns ret, and responds.
AppParse(ret) ==
  LET m == parsing["app"]
      reply == AppReply(m.cmd, m.arg, ret)
      response == [id |-> m.id, nth |-> Len(told) + 1, seq |-> m.seq, cmd |-> m.cmd,
                   type |-> reply.type, len |-> reply.len, val |-> reply.val]
  IN  /\ m # NoMsg /\ Registered("app")
      /\ m.cmd \in Heeded \/ ret = 0
      /\ told' = Append(told, [id |-> m.id, ret |-> ret])
      /\ IF Connected("app") THEN Post("dev", response) ELSE UNCHANGED chan
      /\ parsing' = [parsing EXCEPT !["app"] = NoMsg]
      /\ UNCHANGED <<instance, sender, notes, heard>>

\* icap_device_parse_response: the response callback gets the answer.
DevParse ==
  LET m == parsing["dev"]
  IN  /\ m # NoMsg /\ Turn("dev") /\ Registered("dev")
      /\ heard' = IF m.cmd \in Listening
                  THEN Append(heard, [nth |-> m.nth, val |-> Heard(m.cmd, m)]) ELSE heard
      /\ parsing' = [parsing EXCEPT !["dev"] = NoMsg]
      /\ UNCHANGED <<instance, sender, chan, notes, told>>

\* The oldest message to s is lost: no room, or wiped by icap_init_transport.
Drop(s) ==
  /\ chan[s] # <<>>
  /\ chan' = [chan EXCEPT ![s] = Tail(@)]
  /\ UNCHANGED <<instance, sender, parsing, history>>
-----------------------------------------------------------------------------
(* icap_application_deinit, icap_device_deinit and the init functions. *)

Deinit(s) ==
  /\ Turn(s) /\ life[s] = "up"
  /\ Orderly(s) => parsing[s] = NoMsg
  /\ life' = [life EXCEPT ![s] = "closing"]
  /\ UNCHANGED <<transport, sessions, sender, chan, parsing, history>>

\* icap_deinit_transport: the kernel gives the rpmsg device up.
DeinitTransport(s) ==
  /\ life[s] = "closing"
  /\ life' = [life EXCEPT ![s] = "down"]
  /\ UNCHANGED <<transport, sessions, sender, chan, parsing, history>>

\* icap_application_init, which refuses an instance in use, or icap_device_init,
\* which does not: callbacks and seq_num are set ...
InitCallbacks(s) ==
  /\ Turn(s) /\ sessions[s] < MaxSessions
  /\ life[s] = "down" \/ (s = "dev" /\ life[s] = "up" /\ ~Quiesced)
  /\ Orderly(s) => parsing[s] = NoMsg
  /\ Quiesced /\ s = "dev" => \A c \in Context : ctx[c].at = "idle"
  /\ sessions' = [sessions EXCEPT ![s] = @ + 1]
  /\ life' = [life EXCEPT ![s] = "callbacks"]
  /\ seqNum' = IF s = "dev" THEN 0 ELSE seqNum
  /\ UNCHANGED <<transport, owner, ctx, chan, parsing, history>>

\* ... and icap_init_transport makes the locks anew.
InitTransport(s) ==
  /\ life[s] = "callbacks"
  /\ life' = [life EXCEPT ![s] = "up"]
  /\ owner' = IF s = "dev" THEN NoContext ELSE owner
  /\ UNCHANGED <<transport, sessions, seqNum, ctx, chan, parsing, history>>
-----------------------------------------------------------------------------
Advance(c) == Load(c) \/ Store(c) \/ Copy(c) \/ Send(c)

\* The bounds are used up and nothing is left to do.
Exhausted ==
  /\ Len(notes) = MaxNotes
  /\ \A c \in Context : ctx[c].at = "idle"
  /\ \A s \in Side : /\ life[s] = "down" /\ sessions[s] = MaxSessions
                     /\ chan[s] = <<>> /\ parsing[s] = NoMsg
  /\ UNCHANGED vars

Next == \/ \E c \in Context : \/ \E n \in Note, a \in Arg : Begin(c, n, a)
                              \/ Advance(c)
        \/ \E s \in Side : \/ Receive(s) \/ Drop(s)
                           \/ Deinit(s) \/ DeinitTransport(s)
                           \/ InitCallbacks(s) \/ InitTransport(s)
        \/ \E ret \in Ret : AppParse(ret)
        \/ DevParse
        \/ Exhausted

Spec == Init /\ [][Next]_vars

\* A context that is inside a device function runs again and again, interrupts
\* leave it time, and the mutex is handed over.  Nothing else is assumed.
FairSpec == Spec /\ \A c \in Context : SF_vars(Advance(c))
-----------------------------------------------------------------------------
(* Properties. *)

Records == [cmd : Note, arg : Arg, session : 0..MaxSessions,
            seq : Number \cup {Unnumbered}]
Place == {"idle", "load", "store", "copy", "send"}

\* Every variable has its type: seq_num stays a 32-bit number, what is on its way
\* to a side is a message for that side, and what is in progress has been called.
TypeOK ==
  /\ transport \in Pairings
  /\ life \in [Side -> {"up", "closing", "down", "callbacks"}]
  /\ sessions \in [Side -> 0..MaxSessions]
  /\ seqNum \in Number /\ owner \in Context \cup {NoContext}
  /\ ctx \in [Context -> [at : Place, id : 0..Len(notes), num : Number]]
  /\ chan["app"] \in Seq(Message) /\ chan["dev"] \in Seq(Reply) /\ DOMAIN chan = Side
  /\ parsing["app"] \in Message \cup {NoMsg} /\ parsing["dev"] \in Reply \cup {NoMsg}
  /\ DOMAIN parsing = Side
  /\ notes \in Seq(Records)
  /\ told \in Seq([id : Nat, ret : Int])
  /\ heard \in Seq([nth : Nat, val : Int])

\* "Sequence number of a message, increments every msg" (icap_transport.h 121):
\* in the kernel two device functions called at the same time get different
\* numbers, and so do later ones of the session.
NumbersUnique ==
  transport["dev"] = "kernel" =>
    \A i, j \in DOMAIN notes :
      i # j /\ notes[i].session = notes[j].session /\ notes[i].seq # Unnumbered
        => notes[i].seq # notes[j].seq

\* The promise of IcapNote: a callback of the application at most once for each
\* device function, and a response callback at most once, in order, with the answer
\* to that very message, although the device does not look at sequence numbers.
Abs == INSTANCE IcapNote WITH
         noted <- [i \in DOMAIN notes |-> [cmd |-> notes[i].cmd, arg |-> notes[i].arg]]

Implements == Abs!Spec

\* A device function returns, called by any thread, and on bare metal by an
\* interrupt too.  "Safe to use the functions in interrupt context"
\* (icap_device.h 135) is not checked of the kernel ("kernel" \in Nested), where
\* icap_send_msg takes mutexes: an interrupt of their holder would wait for ever.
SendsReturn == \A c \in Context : ctx[c].at # "idle" ~> ctx[c].at = "idle"
=============================================================================
