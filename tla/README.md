# ICAP in TLA+

ICAP, the Inter Core Audio Protocol, lets an *application* on one core drive an
audio *device* on another over rpmsg: application functions are remote calls
that wait for a response, device functions are notifications that do not wait.
This directory holds TLA+ models of that code (`../src`, mostly
`src/src/icap.c` and the two transports under `src/src/platform`), the TLC
configurations that check them, and proofs checked by TLAPS.

Paths below are relative to the repository; `icap.c`, `kernel`
(`icap_linux_kernel_rpmsg.c`) and `bm` (`icap_bm_rpmsg-lite.c`) stand for the
files in `src/src`, followed by line numbers.

## 1. The system

| component | code | state | operations |
|---|---|---|---|
| protocol core | `icap.c`, `icap_transport.h` | `icap_instance`: `callbacks`, `seq_num`, `type` | `icap_send_msg`, `icap_send_response`, 13 application functions, 3 device functions, `icap_parse_msg` with one message and one response parser per role, init and deinit |
| Linux kernel transport | `kernel` | `rpdev` under `rpdev_lock`, `platform_lock`, `response_queue` of skbs under `skb_spinlock`, a wait queue | `icap_prepare_wait`, `icap_send_platform`, `icap_wait_for_response`, `icap_response_notify`, init and deinit |
| bare-metal transport: FIFO | `bm` | `msg_fifo` (`head`, `tail`, slots), rpmsg-lite receive buffers held with `RL_HOLD` | `icap_put_msg`, `icap_loop`, init and deinit |
| bare-metal transport: calls | `bm` | `last_response`, `remote_addr`, the 32-bit microsecond clock | `icap_wait_for_response` (busy wait), `icap_response_notify`, `icap_verify_remote` |
| device functions | `icap.c` 336-356 | `seq_num`, `platform_lock` | `icap_frag_ready`, `icap_xrun`, `icap_error`: asynchronous, allowed in interrupt context; `icap_application_parse_msg` and `icap_device_parse_response` run the callbacks |
| proxy | `README.md` 34-38 | two instances | application functions called inside device callbacks |
| Linux user space transport | `icap_linux_rpmsg_chardev.h` | - | a header only |
| API and configuration headers | `src/include` | - | error codes, commands, structures |

How they interact. An application function builds a message and calls
`icap_send_msg`, which takes a sequence number under the platform lock, lets the
transport prepare for the response, sends, and waits in the transport. On the
other core the message reaches `icap_parse_msg` and from there
`icap_device_parse_msg`, which runs the callback registered for the command and
sends an ACK, with or without a payload, or a NAK with an error. The response
comes back through `icap_parse_msg` to `icap_response_notify`, which hands it to
the waiter by sequence number. In the kernel the waiter is a sleeping thread and
the receive callback of the rpmsg endpoint fills its skb. On bare metal the
receive callback only queues messages: the waiter itself calls `icap_loop`,
which parses one message per call, so application callbacks may run inside
another application function.

What is hard about it:

- *interleaving*: several kernel threads call at once, the receive callback runs
  beside them, and so does `icap_application_deinit`; on bare metal the receive
  callback (an interrupt, or a task of its own under an RTOS) runs beside `icap_loop` without a lock;
- *unreliable delivery*: a synchronous call ignores the result of the send
  (`icap.c` 156), the device ignores the result of sending its response, full
  queues drop messages;
- *timeouts*: a response may come after its call has given up, while another call
  waits;
- *restarts*: an instance is deinitialised and initialised again; `seq_num`
  restarts at 0 (`icap.c` 79, 102) while responses of the previous session may
  still exist;
- *reentrancy*: `icap_wait_for_response` of bare metal calls `icap_loop` from
  inside a callback that `icap_loop` runs; in the kernel a callback that makes a
  call sleeps in the thread that would receive the response;
- *numbers without a meaning*: `icap_device_parse_response` does not look at the
  sequence number of a response (`icap.c` 428-470), and on bare metal nothing
  protects `seq_num` from an interrupt that calls a device function;
- *init and deinit*: `icap->callbacks` is tested by `icap_parse_msg` and read again
  by the parser (372, 433, 480 against 595), and it is set before the transport's
  locks and queues are initialised (78, 101);
- *resources and widths*: the ring keeps one slot empty, rpmsg-lite buffers must be
  given back exactly once, `seq_num` and the clock are 32 bits wide.

What makes each part correct:

- *calls, both transports*: a call returns what the callback of that very call
  returned, or an error of its own side; the callback of a call runs at most once;
  every call returns;
- *kernel*: every skb linked before the send is unlinked and freed on every way out,
  by the call that linked it, is filled at most once, and is never used after
  `deinit` freed it; nothing is sent over a device that was given up;
- *FIFO*: a bounded queue; messages are parsed once, in order; a slot is not
  overwritten while it is being parsed; the buffers held are those of the messages
  in the queue;
- *bare-metal calls*: one remote address per session, one callback run per message,
  each receive buffer given back once and not read after that, a timeout that is
  exact although the clock wraps;
- *device functions*: the application is told of each message at most once, the
  device hears at most one answer to it, in order and the right one; numbers are
  unique where a lock protects them; a device function returns to whoever may call
  it; a parser finds callbacks and an initialised transport;
- *proxy*: a cascade of two links keeps the promise of one.

`PROJECT.json` lists the hazards at their lines with the properties that cover
them.

## 2. Modules

| module | models |
|---|---|
| `IcapMsg` | commands, error codes, and the pure functions of `icap.c`: which response the parsers build (`DeviceReply`, `AppReply`) and what an application function makes of a response (`CallResult`) |
| `IcapCall` | abstract: what a synchronous call promises |
| `IcapQueue` | abstract: what the FIFO promises |
| `IcapNote` | abstract: what the device functions promise |
| `IcapKernel` | synchronous calls over the kernel transport; extends `IcapMsg`, implements `IcapCall` |
| `IcapFifo` | `icap_put_msg` against `icap_loop`, step by step; implements `IcapQueue` |
| `IcapBm` | an application on bare metal; extends `IcapMsg`, implements `IcapCall` |
| `IcapDevice` | device functions, both parsers of `icap.c` that serve them, both transports; extends `IcapMsg`, implements `IcapNote` |
| `IcapProxy` | two links in cascade, each an instance of `IcapCall`; implements `IcapCall` |
| `MCIcapKernel`, `MCIcapFifo`, `MCIcapBm`, `MCIcapDevice`, `MCIcapProxy` | the instances TLC checks |
| `IcapMsgProofs`, `IcapKernelProofs`, `IcapFifoProofs`, `IcapBmProofs`, `IcapBmRefines`, `IcapDeviceProofs`, `IcapDeviceRefines`, `IcapProxyProofs` | theorems and proofs; the last but one and `IcapBmRefines` extend the module before them |

An operator whose comment starts with *Mutant* stands before the definition it is a
variant of and contains one plausible bug. `PROJECT.json` pairs each property of a
passing run with one; the property fails when the variant replaces the definition,
which shows that the property depends on that piece of the code.

### IcapKernel

Each thread is a program counter through `icap_send_msg` and the transport:

| `pc` | the thread is about to | action |
|---|---|---|
| `idle` | call an application function (`icap.c` 208-334) | `Call` |
| `number`, `numbered` | lock and increment `seq_num`; copy it and unlock (133-137) | `TakeNumber`, `ReadNumber` |
| `prepare` | `icap_prepare_wait`, under `rpdev_lock` (`kernel` 120-155) | `PrepareWait` |
| `send` | `icap_send_platform`, under `rpdev_lock` (85-98) | `Send` |
| `find` | look an skb with its number up (`kernel` 188-213) | `FindBuffer` |
| `wait` | sleep (215) | `WakeUp`: reply, signal or timeout |
| `unlink` | `skb_unlink` (217-222) | `Unlink` |
| `finish` | compute the result and free the skb (224-256) | `Finish` |
| `oops` | - | the kernel has crashed in this thread: `Oops` |

An skb is a block of memory, of the set `Skb`: `alloc_skb` takes any block out of
`Skb \ used`, `kfree_skb` gives it back, and it may then be another call's. `queue` is
`response_queue`, a sequence of blocks; `skb[b]` holds the number `icap_prepare_wait`
wrote into the block and the responses copied into it. A thread does not remember the
block it linked: as in the code it goes on with `buf[t]`, the first block in the queue
that `_find_seq_num` found to have its number (`Found`), waits on that one, unlinks it
and frees it. When two calls have the same number, that is the block of one of them
for both.

A pointer may be stale, after `icap_deinit_transport` or another call has freed the
block. What the thread does then is left open: it may crash (`Oops`), or go on with
what it reads there. The wait may end for any reason; the result may be one of
`Garbage`, or of a call that has the block now (`Readable`); unlinking takes whatever
is linked in that place, and `kfree_skb` frees the block once more, whoever has it.
Unlinking an skb that is not linked follows null pointers and crashes.

`Receive` and `Notify` are the receive
callback, split where it has tested `icap->callbacks` and not yet taken
`skb_spinlock`. `Deinit`, `DeinitFlush`, `DeinitClear` are the three steps of
`icap_application_deinit`; `rpdev_lock` is held from the second to the third, so
it is represented by `teardown = "clear"`. `DeviceParse` and `Lose` are the other
core and the channel. A response carries `id`, a history field with the number
of the call it answers; the code cannot see it, the properties can.

`Callback` is the thread, if any, that is the receive callback itself: an
application callback that calls application functions. While it is inside a call
nothing is received (`Receive` waits for it), so its own response cannot come.

Two constants say what a user of the library does: `Quiesced` (no call is in
progress during a deinitialisation) and `FreshChannel` (an initialisation comes
with a new rpmsg device on which nothing is in flight).

`NumberFree` says that the number a thread is about to copy from `seq_num` is of no
other call and of no message on its way. Everything about skbs rests on it: the property
`FreeNumbersSuffice` is
`[]NumberFree => [](OwnReply /\ FilledOnce /\ QueueOwned /\ NotifyLive)`. `ReturnsOwn`
is what is left of the promise of `IcapCall` while `deinit` overtakes calls: it
excepts the calls whose own skb was freed under them (`Dangles`).

### IcapFifo

`put` and `loop` are the places of the receive callback in `icap_put_msg`
(test, fill the slot, publish `head`) and of the main context in `icap_loop` (test,
parse, release, advance `tail`). Initialisation is two steps, `callbacks` (`icap.c`
101) and the memset (`bm` 44). A buffer is named by the number of the message in
it, `held` is the set of buffers that rpmsg-lite has not got back. `Isr` says that
the receive callback is an interrupt of the core that runs the main context;
otherwise both interleave freely. `Quiet` says that nothing is received during an
initialisation or deinitialisation and that the first finds the FIFO empty.

### IcapBm

The main context is a C stack, `stack`: frames of calls in `icap_wait_for_response`
and frames of `icap_loop` that run a callback. It is empty in the main loop.

| action | code |
|---|---|
| `Call` | `icap_send_msg` up to the first reading of the clock: the number, the send, whose failure is ignored |
| `PollEmpty`, `PollRefuse`, `PollResponse`, `PollMessage` | `icap_loop`: nothing queued; refused by `icap_parse_msg`; a response copied to `last_response`; a message whose callback starts |
| `CallbackReturn` | the callback returns, the header is read again for the response, which is sent, the buffer released, `tail` advances |
| `Test(d)` | the rest of a turn of the busy wait: compare `last_response`, read the clock, `d` later than before, give up or go on |
| `Put` | the receive callback, in one step (`IcapFifo` takes it apart) |
| `DeviceParse`, `DeviceNote`, `Gone` | the other core and the channel |
| `Deinit`, `AppInit` | `icap_application_deinit` and a second `icap_application_init` |

A slot of the ring points to a receive buffer of rpmsg-lite. `held` is the set of slots
whose buffer has not been given back, `torn` says that one was given back twice, after
which rpmsg-lite may hand one buffer to the other core for two messages. The buffer of
a slot is `Intact` while it is held and nothing is torn; then `Readings`, what
`icap_parse_msg` finds in it, is the message put there. Otherwise it is the header of
any message the other core has ever sent with the payload of any (`written`), under the
`src_addr` and size the slot was filled with (`Refused` compares the size). The same goes
for the header read after the callback (`Headers`).

`Reentrant` says that callbacks may call application functions. `icap_loop` is then
called from inside itself before `tail` has advanced: the message is parsed again, its
buffer is given back twice and read after that, and a callback that makes a call each
time it runs is run again inside itself without end. The model has all of this, and
`bm_reentry` shows it; nothing about the content of messages, and no return of a call, is
claimed for it. All other runs and all theorems but `TypeCorrect` have
`Reentrant` FALSE. A deinitialisation
happens in the main loop only. `last_response` survives an initialisation, as in the
code; `remote_addr`, `seq_num` and the ring do not. `DeviceParse` requires a known
address: a message to `(uint32_t)-1` reaches nobody. `waited` of a frame is a
history field, the time since the call read `start` as measured by an unbounded
clock. In the refinement of `IcapCall` thread `t` stands for frame `t` of the stack,
which is in a call or is not. `MaxDepth` bounds the depth of the innermost call.
`NumberFree` is here a condition on the number the next call would take; what it must
differ from includes `last_response` and, more than is needed, the slots of the ring
that have been read.

### IcapDevice

A device instance and an application instance. `Context` calls device functions;
each context is at a place of `icap_send_msg` with `sync = 0`:

| `at` | the context is about to | action |
|---|---|---|
| `idle` | call a device function (`icap.c` 336-356) | `Begin` |
| `load` | lock, and read `seq_num` to increment it (133-135) | `Load` |
| `store` | write the incremented number back | `Store` |
| `copy` | copy `seq_num` into the message and unlock (136-137) | `Copy` |
| `send` | `icap_send_platform`, and return (152) | `Send` |

Increment and copy are three steps because nothing makes them one on bare metal.
`Copy` may take the number the context wrote or read the variable again: the build
decides. `Isr` is an interrupt that, on a transport in `Nested`, keeps the core
until it returns. `Receive`, `AppParse` and `DevParse` are `icap_parse_msg` up to
its dispatch, and the two parsers, which read `icap->callbacks` again; they run in
a thread of their own in the kernel and in the main context on bare metal.
`Post` may lose a message (no buffer, a full ring), `Drop` loses one that was sent.
`life` of an instance goes `up`, `closing`, `down`, `callbacks`, `up`:
`Deinit` sets `callbacks` to NULL, `DeinitTransport` gives the transport up,
`InitCallbacks` sets `callbacks` and `seq_num`, `InitTransport` makes the locks. A
kernel transport that is down sends nothing; a bare-metal one still does.
`Pairings` lists which transports face each other. `Quiesced` says that the user
lets no device function and no parser overlap an initialisation, and no parser the
start of a deinitialisation; on bare metal the main context does all of them and
`Orderly` holds by itself. `id` and `nth` of messages are history fields: which note
it is, and how many messages the application had been told.

`IcapNote` is the promise: a note is told at most once, and heard of at most once,
in the order in which the application was told, with `Answer` of what it returned.

### IcapProxy

The callbacks of a device instance call the application functions of an instance of
another link. Each link is `IcapCall` with its own variables (`First`, `Second`), so
the composition rests on what `IcapKernel` and `IcapBm` have been shown to
implement, for either transport. `Accept` starts a callback, which issues a call on
the second link; `Respond` is that call's return, the callback's return with the same
value, and `Run` of the first link. The application may `Return` with a local error
and `Issue` again meanwhile, and the last device may run a callback late. `origin` is a
history variable: for which call of the first link each call of the second was made.

## 3. What the runs check

Passing runs:

| run | properties | shows |
|---|---|---|
| `kernel_calls` | `FreeNumbersSuffice` | two threads, three calls with two numbers, two sessions on a channel that keeps its messages: numbers are given out that are still in use, and calls then share an skb, free it twice and leave another one linked; but only after that has happened does a call read the response to another, get a skb two responses, a skb stay behind, or a walk of the queue meet a freed one |
| `kernel_teardown` | `TypeOK` `OwnReply` `NumberFree` `FilledOnce` `NotifyLive` `QueueOwned` `NoSendAfterClose` `ReturnsOwn` | `Quiesced = FALSE`, a fresh channel, `seq_num` wraps to 0: deinitialisation at any moment of a call frees skbs under sleepers, who crash or go on with what they read; all the same a live skb gets only the response to its call and one, belongs to a call, the receive callback meets no freed skb, nothing is sent afterwards, and a call whose own skb was not freed returns what its callback returned or a local error |
| `kernel_live` | `ReplyFits` `BufferFound` `Implements` `CallsReturn` | calls of a plain and of two value commands, one of them without a callback, with failing, zero and positive results, one thread being the receive callback: each call finds its skb and could find no other, what a response makes a call return fits what the callback returned, the promise of `IcapCall` is kept, and every call returns, whatever is lost |
| `fifo_ring` | `TypeOK` `HeldExact` `SlotStable` `Implements` `GivenBack` | six messages through a ring of 2 and two sessions: the ring is the queue of `IcapQueue`, slots in use are not overwritten, buffers are accounted for and all go back to rpmsg-lite |
| `bm_calls` | `OwnReply` `Implements` `CallsReturn` | three calls in one session, callbacks that make no calls run between and during them, anything lost or late and a clock that wraps: the promise of `IcapCall`, and every call returns |
| `bm_remote` | `TypeOK` `OneToOne` `HandledOnce` `ReleasedOnce` `TimeoutExact` `FreeNumbersSuffice` | two endpoints, a ring with one place, two sessions: only the first endpoint is listened to, a message runs its callback once, a receive buffer is given back once and not read afterwards, and a call gives up at the first look after the timeout, not before; a response of the first session is taken for the answer to a call of the second only when it is still about as the call takes its number |
| `device_notes` | `TypeOK` `NumbersUnique` `Implements` `SendsReturn` | two contexts, on bare metal one of them an interrupt, call device functions while either side is deinitialised and initialised again: the promise of `IcapNote`, though the device ignores sequence numbers; unique numbers where the lock is one; every device function returns, called by a thread or by an interrupt on bare metal |
| `proxy_cascade` | `TypeOK` `Implements` | two threads and three calls over two links: the cascade keeps the promise of `IcapCall`, also when the first application gives up and calls again while the proxy still waits |

Runs that end with a violation, each a disagreement between the code and what the
repository says of it (`findings` in `PROJECT.json` quotes the lines):

| run | property | what happens |
|---|---|---|
| `kernel_dangling` | `NoDangling` | `icap_deinit_transport` frees the skb on which a call sleeps; the sleeper reads, unlinks and frees it again |
| `fifo_early` | `Saved` | a message accepted between `callbacks = cb` and the memset of the FIFO is forgotten, its buffer never given back |
| `bm_stale` | `OwnReply` | `last_response` of the previous session answers the call with the same number in the new one, before the device has seen that call |
| `bm_reentry` | `HandledOnce` | a callback that makes a synchronous call is run again for the same message, because `tail` has not advanced; a second run that calls again leads to a third, without end |

The last two concern legal single-threaded use of the API. The passing runs state
the conditions under which the properties do hold: `Quiesced`, `FreshChannel` and
`Quiet` are TRUE, `MaxSessions` is 0 or `Reentrant` is FALSE where the table above
does not say otherwise. Section 4 says which theorem needs which of them. Disagreements
that the conditions hide:

- with `Reentrant`, `ReleasedOnce` fails as well as `HandledOnce`, and a callback that
  makes a call each time it runs never ends; the bound on calls hides this from TLC, which
  is why `CallsReturn` is not checked there;
- without `FreshChannel`, a late response of the previous session is taken for the
  answer to the call with the same number in the new one in the kernel too, since
  `seq_num` restarts at 0 (`icap.c` 79), where `kernel` 178 promises to "Drop the
  message";
- without `Quiesced`, `BufferFound` fails: "This should never happen" (`kernel` 210)
  happens when `deinit` runs between `icap_prepare_wait` and the lookup, and the call
  returns `-ICAP_ERROR_PROTOCOL`;
- without `Quiet`, an initialisation wipes messages that an earlier session left in
  the ring: `icap_deinit_transport` of bare metal frees nothing, though
  `icap_application.h` 97 says that it "frees allocated resources";
- `IcapDevice` without `Quiesced` has parsers that find `callbacks` NULL after
  `icap_parse_msg` has tested it (`icap.c` 372, 433), where the code dereferences it
  and the model does not go on, or that respond over locks that
  `icap_init_transport` has yet to make (`kernel` 53), which the model does not tell
  from locks that are free. No property is about these;
  `icap_device_init` moreover lacks the test for an instance in use with which
  `icap_application_init` begins (92), so a second one restarts `seq_num` and makes
  the locks anew in the middle of anything.

Disagreements that the properties leave room for, and which a reader of
`IcapDevice` and `IcapBm` should know:

- `NumbersUnique` speaks of the kernel only. `icap_transport.h` 121 says that
  `seq_num` "increments every msg", but `icap_platform_lock` of bare metal does
  nothing (`bm` 173), and an interrupt between the increment and its copy gives two
  messages one number. `Implements` shows that the device's callbacks do not depend
  on it;
- `icap_device.h` 134-137 and `README.md` 28-31 say that device functions may be called
  in interrupt context, on any transport. `SendsReturn` is checked of threads, and of
  interrupts on bare metal only (`Nested = {"bm"}`): in the kernel `icap_send_msg` takes
  mutexes (`kernel` 90, 261), and with `"kernel"` in `Nested` an interrupt waits for one
  that the thread it interrupts holds, and `SendsReturn` fails;
- responses to messages of an earlier session of the device run the callbacks of the
  new one, since their number is not looked at (`icap.c` 428-433); `IcapNote` allows
  this, it only asks for the right answer;
- a value command whose callback the device does not implement gets the generic
  ACK without payload (`icap.c` 519), which the application function reports as
  `-ICAP_ERROR_MSG_LEN`, although `icap_device.h` 65-67 calls such a callback optional
  and ACK its default;
  `ReplyFits` and `IcapCall` count it as an error of the application's side;
- a bare-metal application's first call goes to address `(uint32_t)-1` and can only
  time out unless the device has spoken before (`bm` 72), although `README.md` 22
  says that each function call sends a message to the other side;
- a synchronous call in the receive callback of the kernel can only time out: its
  response waits for the thread that sleeps (`kernel` 215).

One more divergence: `icap_transport.h` 179 documents
`-ICAP_ERROR_TIMEOUT` from `icap_response_notify` when nobody waits any more; on
bare metal it always returns 0, and both callers hand the value only to
`icap_loop`'s caller.

### Bounds

Each bound is a constant, and only the environment is bounded: `MaxCalls`,
`MaxSessions`, `MaxMsgs`, `MaxNotes`, `MaxDepth`. `Exhausted` is a self-loop for the
state in which they are used up, so that TLC's deadlock check stays on wherever the
system must not stop; runs that look for a violation, and `kernel_teardown`, in
which `oops` is a crash, switch it off.

- Two blocks of memory are as many as calls in progress, so that `alloc_skb` hands out
  a block again as soon as another call could have it; when both are in use only the
  failure of `alloc_skb` is left, which is possible at any time.
- The state of `kernel_calls` is viewed without `ran` and `result` (`Unrecorded`): no step
  reads them, and its one property does not mention them, so that states that differ in
  nothing else are alike.
- Two threads are needed for a race on `seq_num` and for a response that could reach
  the wrong skb; three calls let a number be used again, in the same session
  (`SeqMod = 2`) or in the next.
- `SeqMod` stands for 2^32. It is no smaller than the number of calls in progress, as
  2^32 is. In `kernel_teardown` it equals `MaxCalls`, so that the last call gets 0, the
  largest number of calls for which `NumberFree` must hold; in `kernel_calls` it is
  smaller, so that numbers come back while messages with them are on their way.
- `MaxDepth = 2` in `bm_reentry` is a call made from a callback of the main loop.
- A ring of 3 slots has the states empty, one, and full, and six messages turn it
  twice; `bm_calls` and `bm_remote` use 2 slots, where empty and full alternate.
- `ClockMod` stands for 2^32, with the assumption `MsgTimeout + MaxLapse <= ClockMod`:
  two looks at the clock are less than 71 minutes minus the timeout apart. In
  `bm_calls` a wait of 2 ticks starts anywhere on a clock of 3 and so
  wraps it. The other runs take the smallest clock in which a call may give up at
  once or later.
- `device_notes` has two messages, one for each context or two of one, a `SeqMod` of 2
  so that the second wraps, and one more session for each side, so that a message
  or response of the first may be handled in the second. Numbers of different
  sessions are not compared, and two messages of one session have different
  numbers although they wrap: with the lock in place, uniqueness needs no more than
  as many messages in a session as there are numbers.
- `proxy_cascade` has two threads, so that the request of one can overtake a call the
  other has given up, and three calls, so that one more follows.
- One value command and one plain command represent the thirteen: the dispatch tables
  are in `IcapMsg` as operators over all of them.

### Fairness

- `IcapKernel`: weak fairness of each thread's steps (threads are scheduled, mutexes
  are released, `wait_event_interruptible_timeout` has a timer) and of the two steps
  with which a deinitialisation ends. Nothing is assumed of device, channel, receive
  callback or signals.
- `IcapFifo`: weak fairness of `icap_put_msg` once begun, of `icap_loop` (the main
  loop of the program calls it for ever, the only way saved messages are parsed) and of the end of an initialisation.
- `IcapBm`: weak fairness of the main context, callbacks included (a callback that
  never returns would hang the program, not the protocol), and strong fairness of a
  `Test` in which the clock has advanced: a clock read again and again advances now
  and then, but a single reading may show no progress.
- `IcapDevice`: strong fairness of each context's steps. A context is disabled and
  enabled again while interrupts come or the mutex is taken; that interrupts leave
  the code they interrupt time to run, and that a mutex is handed to a waiter now and
  then, is what the scheduler gives. Nothing is assumed of the channel, the parsers
  or initialisations.
- `IcapProxy` has no fairness: liveness of a call is the business of each link.

## 4. What is proved

All theorems hold for every value of the constants that the modules' `ASSUME`s
allow, not only for the instances above.

*Messages* (`IcapMsgProofs`): `CallRoundTrip` and `NoteRoundTrip` compose what one side
builds with what the other reads, for every command and every return value of a
callback, an integer. The exceptions stand in the theorem: a value of
`GET_DEV_FEATURES` comes back as 0 beside its structure, a missing optional callback
as 0, a missing one with a value as `-ICAP_ERROR_MSG_LEN`. The refinements below use
them where a call or a callback gets its result.

*Kernel* (`IcapKernelProofs`), for any number of threads. Without further
assumption:

- `TypeCorrect`: `Spec => []TypeOK`, also when freed memory is read;
- `SendsEndAtClose`: `NoSendAfterClose`, whatever the deinitialisation overtakes.

What sequence numbers are for is proved in two halves. The first says what they give
as long as the one taken is free, in a behaviour of any length, on any channel and
whatever `deinit` does:

- `OwnWhileFree`: `Spec => FreeNumbersSuffice`. The invariant `CallInv` says that two
  calls never have the same number (`NumbersInv`), that of a number there is at most one
  message, request or response (`OneMessage`), and that while there is one the call with
  that number is the one it belongs to and has sent its request (`FlightInv`). `BlockInv`
  says of the skbs that what is linked is allocated, and once; that each allocated
  block is of the call that linked it, has that call's number and is, from the lookup on,
  the one its thread holds (`OwnedInv`), that no two have one number (`UniqueInv`), that a
  thread holds its own block or, once the instance is closed, a freed one (`HeldInv`), and that
  a block with a response has one, that of its call, after which none is on its way
  (`FilledInv`). That `deinit` has freed blocks that threads still hold is harmless to
  the others because no block is allocated until `icap_application_init` is called
  again, which waits for all calls: a stale pointer never meets a new skb.
- `CallsReturnOwn`: `Spec /\ []NumberFree => ReturnsOwn`, whatever `deinit` frees.
- `FreeNumbersKeepPromise`: `Spec /\ []NumberFree /\ []NoDangling => Implements`, the
  refinement of `IcapCall`. A number in use twice and a buffer freed under its call are
  the two ways in which the promise can fail. The invariant `RefInv` says that the calls
  in progress are different ones, and what is on its way belongs to a call made
  (`IdInv`), that while a request is on its way its callback has not run, so that
  it runs at most once (`OnceInv`), and that a response on its way or in an skb carries
  what the callback of its call returned (`AnswerInv`); `Finish` then returns what
  `Complete` of `IcapCall` allows.
- Assuming `Quiesced` too, `BuffersAreLive` (`Spec /\ []NumberFree => []NoDangling`, which
  `kernel_dangling` violates without `Quiesced`) and `BuffersAreFound`
  (`[]BufferFound`). The invariant `LiveInv` says that a deinitialisation finds every
  thread idle, that none has crashed, and that each call from `icap_prepare_wait` on has
  a block with its number.

The second is `NumbersAreFree` (`NumberFree`), assuming `FreshChannel` and
`MaxCalls <= SeqMod`, that is at most 2^32 calls. The invariant is `LockInv` (who holds
`platform_lock`) with `Counting \/ Wrapped`: the numbers in use are among `1..seqNum`,
and `seqNum` with the threads about to increment it is no more than the calls made;
or the last of 2^32 calls has taken 0, and nobody else has it (`CountInv`). One call more,
and a number could be given out again. From both halves follow, under the same two
assumptions and whatever `deinit` overtakes, `ResponsesAreOwn` (`OwnReply`),
`BuffersAreFilledOnce` (`FilledOnce`), `QueueIsOwned` (`QueueOwned`), `NotifyFindsLive`
(`NotifyLive`) and `RepliesFit` (`ReplyFits`); and with `Quiesced` as a third
`KernelKeepsPromise` (`Implements`). `FreshChannel` is needed because `seq_num`
restarts, `Quiesced` because a thread whose skb was freed may return anything.

The refinements, here and on bare metal, assume that 0 is a possible return value of
a callback (`0 \in Ret`): `icap_device_parse_msg` answers a command without a
callback as if one had returned 0.

*FIFO* (`IcapFifoProofs`), for every ring size:

- `TypeCorrect`, `SlotsAreStable` without assumption; `BuffersAreAccountedFor`
  (`HeldExact`) assuming `Quiet`;
- `NothingForgotten` (`Saved`), assuming `Quiet`: a message that `icap_put_msg` accepted is
  in the ring until it is parsed; `fifo_early` shows that this needs the assumption;
- `RingIsQueue`, assuming `Quiet`: `Spec => Implements`, the refinement of `IcapQueue`.

The invariant is `RingInv`, which relates the slots to the places of the two
contexts (the slot after `head` is free while it is filled, the one after `tail` in
use while it is parsed, no message is linked twice), and `HeldInv`, which says that
what is linked is held. The refinement rests on three lemmas about the contents of the
ring as a sequence: filling the slot after `head` leaves it alone, advancing `head`
appends that slot, and advancing `tail` removes the first. `LoopParse` is the step at
which a message leaves the abstract queue, two steps before `tail` advances.

*Bare-metal calls* (`IcapBmProofs`, `IcapBmRefines`), for every ring size, clock width and
timeout; all but the first assume `~Reentrant`, that callbacks make no calls:

- `TypeCorrect`. The invariant adds `StackInv`: calls and callbacks alternate on the
  stack, and only the topmost call can have left its `icap_loop`. `icap_loop` returns
  into the frame below, which must therefore be a call that polls.
- `BuffersReleasedOnce` (`ReleasedOnce`). The invariant `BufferInv` says that the slots
  between `tail` and `head` have their buffers and none was given back twice
  (`HeldInv`), and that a callback in progress is about the oldest of them
  (`PlaceInv`). What `icap_loop` reads is therefore what was put there, which all
  that follows needs; it does not hold when `icap_loop` is re-entered (`bm_reentry`).
- `OwnWhileFree` (`FreeNumbersSuffice`): any number of sessions and
  calls. The invariant `AgreeInv` says that a call on the stack and
  a message with its number, wherever it is, belong together; every step but a call
  only copies numbers along with the calls they stand for (`NumbersCopied`).
- `NumbersAreFree` (`NumberFree`) and `ResponsesAreOwn` (`OwnReply`), assuming
  `MaxSessions = 0` and `MaxCalls < SeqMod` too. The invariant `SeqInv` says that the number of every
  call, message, slot and of `last_response` is its place among all calls, modulo
  `SeqMod`; `bm_stale` shows why a second session breaks it. The bound is strict, unlike
  in the kernel: the 2^32nd call gets 0, the number in a `last_response` that no
  response has ever been copied to.
- `TimeoutIsExact` (`TimeoutExact`). The invariant `ClockInv`
  says that the only call is the outermost frame, has waited for less than the
  timeout, and that the clock is that much after its start, one wrap or none. With
  nested calls `waited` is not the real time of the outer one: the inner call's time
  passes unseen, and the theorem would be about something else.
- `OneRemote` (`OneToOne`). An unused slot carries no address, so
  the proof must show that `icap_loop` reads only filled ones: `RingInv` says that
  either all slots have been filled, or `head` has not wrapped, the slots up to
  `head` are filled, and a callback in progress will move `tail` to one of
  them. `RemoteInv` adds that callbacks in progress run for messages of `remote_addr`,
  which is known by then.
- `HandledAtMostOnce` (`HandledOnce`). The invariant `NoteInv` says that the device's messages in
  flight and in the ring are different ones (`FlightInv`, `WaitInv`), that a callback has run
  only for messages left behind and for the one at `tail` while its callback runs
  (`TellInv`).
- `OwnResponsesKeepPromise`: `Spec /\ []OwnReply => Implements`, the refinement of
  `IcapCall`, in any session. A wrong
  response in `last_response` is thus the only way in which the promise of a call can
  fail. The invariant `RefInv` says that calls, requests, responses and callback
  runs are about calls made (`GivenInv`), that a request on its way is the only one of
  its call and its callback has not run (`OnceInv`), that requests and responses are about the
  command of their call (`CmdInv`), that a response, in flight, in the ring or in
  `last_response`, carries what the callback of its call returned (`AnswerInv`), that
  `last_response` is a response or cleared memory (`LastInv`), and that calls are made
  from the first `MaxDepth` frames (`DepthInv`). `FreeNumbersKeepPromise`
  (`Spec /\ []NumberFree => Implements`) and `BmKeepsPromise` combine it with the theorems
  about `OwnReply`, under their assumptions.

Every step of a proof about `IcapBm` goes through one of two facts about the stack:
`Kept` (nothing is pushed, frames keep all but their place and their waiting time) and
`Pushed`.

*Device functions* (`IcapDeviceProofs`, `IcapDeviceRefines`), for any set of contexts,
pairing of transports and number of sessions:

- `TypeCorrect`, without assumption;
- `KernelNumbers` (`NumbersUnique`), assuming `Quiesced`, finitely many contexts and
  `MaxNotes <= SeqMod`, at most 2^32 messages. The invariant `NumberInv` says who holds
  the lock (`LockInv`), that notes of the present session belong to it (`SessionInv`),
  that the number being copied is of no note of this session (`FreshInv`), that numbers
  differ (`UniqueInv`), and in `CountInv`, as in the kernel's calls, that the numbers
  given out are among `1..seqNum` and `seqNum` with the contexts that have yet to increment it is
  no more than the notes (`Counting`), until the last of 2^32 notes gets 0 (`Wrapped`);
- `DeviceKeepsPromise`: `Spec => Implements`, without assumption. The invariant `RefInv`
  says that every message on its way is what its device function sent (`DescInv`), that there is
  at most one message for a note that has not been told (`OnceInv`), that a response
  carries the answer to its message (`AnswerInv`), and that responses are on their way
  in the order in which the application was told, after all that were heard
  (`HearInv`).

*Proxy* (`IcapProxyProofs`), for any callers, commands and number of calls:
`TypeCorrect`, and `CascadeIsOneLink`: the cascade implements `IcapCall`. The invariant
says that each call of the second link was made for another call of the first
(`OriginInv`) with the same command (`CommandInv`), that the call served is the last
one made (`ServingInv`), and that what the first link was told is a local error or
what the last device returned for that very call (`ValueInv`). That the proxy makes
no more than `MaxCalls` calls is a pigeonhole argument over `origin`.

Every invariant and every safety or refinement property of a passing run is thus a
theorem, under the assumptions named. Only model-checked are the liveness properties
`CallsReturn` (twice), `GivenBack` and `SendsReturn`: TLAPS does not prove liveness under
fairness here.

## 5. What is not modelled

- Argument checks (`NULL` instance, message or buffer), the payload size check of
  `icap_send_msg`, and the tests of size and protocol version in `icap_parse_msg`:
  they return before any state changes, and between two cores that run this code they
  do not fail. `IcapBm` has the test of the size, which a buffer read after it was given
  back may fail.
- Logging, uevents and structure layout; the contents of payloads other than one
  word.
- The synchronous calls over the kernel transport with an initialisation in two steps:
  `IcapKernel` initialises in one step, `IcapFifo` and `IcapDevice` in two.
- In `IcapDevice`, the ring of `IcapFifo` and the busy wait of `IcapBm`: the channel is a
  queue that may lose its oldest or newest message.
- What stale links of a freed skb do to the rest of the kernel's memory: a thread with a
  stale pointer crashes or goes on, but corrupts nothing except what the code itself
  assigns through it.
- A callback of the application that calls device functions or deinitialises its own
  instance.
- The user space transport, of which there is only a header.

## 6. Plan

The modules were written in this order: `IcapMsg`, `IcapCall` with `IcapKernel`,
`IcapQueue` with `IcapFifo`, `IcapBm`, `IcapNote` with `IcapDevice`, `IcapProxy`, each with
its runs and then its proofs; the synchronous call came first because everything else
rests on it. What is left:

1. `IcapKernel` with an initialisation in two steps, as in `IcapDevice`.
2. The argument and size checks, if a property ever depends on them.
