# SpiceH264: a TLA+ model of the display server

SpiceH264 is spice-server 0.12.6 with an H264 display path (x264 or Intel QSV),
vendored next to spice-gtk 0.30, spice-protocol, a QEMU and their
dependencies. This directory models the server's own core: how messages get from the
guest's command ring through the pipe of a channel client onto the wire, under flow
control, how the H264 path paces, drops and makes up for frames, how the port of
the guest's agent shares out its tokens and buffers, how several display channels and
the client agree on a cache of images, and how a client lives, migrates and dies between the
main thread and the workers.

All paths below are relative to the repository; `server/` is
`src/spice-0.12.6/server/`, `gtk/` is `src/spice-gtk-0.30/src/`.

## 1. Inventory

| Component | State | Operations | Interacts with | What makes it correct |
|---|---|---|---|---|
| Channel client, send path (`server/red_channel.c`) | pipe, `send_data` (marshaller main/urgent, item, size, blocked, serial, last_sent_serial), `during_send` | pipe_add*, push, send_item, begin_send_message, urgent sender, on_out_block, on_out_msg_done, disconnect | worker or main thread calls it; transport calls back | one message at a time; serials count what the peer receives; nothing left over after a disconnect; nothing stranded in the pipe |
| Flow control (`red_channel.c`, `gtk/channel-base.c`, `gtk/spice-channel.c`) | `ack_data` (generation, client_generation, messages_window, client_window), the peer's window and count | SET_ACK, ACK_SYNC, ACK, zeroing the window at init | pipe_item_get | the window never underflows, never overruns, never shuts for good |
| Latency and connectivity monitors (`red_channel.c`) | timers, ping state, connectivity state, in/out byte counts | ping timer, PONG, connectivity timer, start/cancel | send path (start when the pipe is empty, cancel when something is sent) | every PONG is expected; a live peer is never judged by a state that no longer holds |
| Migration of one channel client (`red_channel.c`) | `wait_migrate_flush_mark`, `wait_migrate_data` | default_migrate, flush mark, migrate data | RedClient | a flush mark only when it is waited for (modelled, no property of its own) |
| H264 display path (`server/red_worker.c`) | `enable_avc`, `last_time`, `last_drop`, encoder context with one bitstream buffer | red_marshall_stream_h264_data, insert_h264_frame, DISPLAY_AVC, new display client | pipes of all display clients, primary surface | at most 30 fps; no update lost; frames intact; never back to an older picture |
| Worker loop (`red_worker.c`) | `event_timeout`, `repoll_cmd_ring`, surfaces, running | red_worker_main, red_process_commands, red_process_cursor, red_push | QXL device, dispatcher, channels | the ring is drained, every queued item gets a push |
| RedClient (`red_channel.c`) | channel list, refs, lock, disconnecting, during_target_migrate, num_migrated_channels | create, ref/unref, destroy, migrate, semi-seamless and seamless completion | main thread and workers | freed once and with all its channels; the migration counts the channels that wait and completes once |
| Dispatchers (`server/dispatcher.c`, `main_dispatcher.c`, `red_dispatcher.c`) | socketpair, message table, ack mode, lock | send_message, handle_recv_read, async done | main thread and workers | a synchronous request returns after its handler; no lost or mixed messages |
| Character devices (`server/char_device.c`, `spicevmc.c`) | clients with tokens, send queue, write queue, buffer pool, self tokens, retry timer | wakeup, write, token add, migrate, reset | main channel, spicevmc, QEMU chardev | every token is with the client, in a buffer or about to be returned; a blocked write is retried; a read that stopped goes on |
| Agent port (`server/reds.c`, `main_channel.c`, `agent-msg-filter.c`) | `VDIPortState`: read buffers, `client_agent_started`, `recv_from_client_buf`, filters | attach and detach of the agent, AGENT_START, AGENT_DATA, AGENT_TOKEN, mouse events | character device, main channel | no buffer survives its client; what the agent says is heard |
| Server core (`server/reds.c`, `main_channel.c`) | links, migration state, clients | link handling, migrate source/target | all of the above | migration ends in a definite state |
| Pixmap cache (`red_client_shared_cache.h`) | items with per-client sync serials, generation, freeze | hit, add, reset, WAIT_FOR_CHANNELS | display channel clients of one client in several worker threads | after everything is delivered both caches agree; the channels do not wait for each other for ever |
| Memory slots, QXL parsing (`red_memslots.c`, `red_parse_qxl.c`) | slot table, generation | add, delete, get_virt | worker | an address resolves within its slot |
| Timer queue (`spice_timer_queue.c`) | sorted timers | start, cancel, callback | worker loop | order, and cancellation from inside a callback |
| Sound, inputs, smartcard, transport, codecs | | | | not modelled: see section 8 |

**What is hard.** The server is single-threaded per channel, but a handler can be
re-entered through `red_channel_client_push` from inside its own `send_item`; writes may
stop at any byte; the peer's ACKs, ACK_SYNCs and PONGs cross with what the server
sends; a disconnect may come from the middle of the push loop. The H264 path
shares one clock, one flag and one bitstream buffer among all clients, and
`insert_h264_frame` bypasses the pipe. A character device calls back into the server
from within `sif->read` and `sif->write`, and a token or a message that cannot be sent
removes the client from within those loops. The pixmap cache is shared by worker threads
that hold its lock for one image at a time, while its mirror in the client is kept in step by
serials alone. A client is destroyed by the main thread while workers still refer to
it, through queues of which some messages hold references and some do not. `PROJECT.json` lists these hazards line by line
with the properties aimed at them.

## 2. Modules

```
AckWindow            contract: the ack window in counters          <- AckWindow_proofs
   ^ implements
RedChannelFlow       refinement mapping                            <- RedChannelFlow_proofs
   |
RedChannelClient     one channel client, its transport, its peer   <- RedChannelClient_proofs

H264Pacing           the two comparisons of struct timeval
   |
H264Stream           worker loop, ring, clients, encoder, insertion <- H264Stream_proofs

AgentPort            character device, agent port, main channel, client
                                                                   <- AgentPort_proofs

PixmapCache          display channels of one client, the shared cache, its mirror
                                                                   <- PixmapCache_proofs

RedClient            clients, their channels, main thread, workers, dispatchers
                                                                   <- RedClient_proofs

SequenceParts        what is kept and counted of a sequence: used by
                     RedChannelClient, H264Stream, AgentPort and RedClient
                                                                   <- SequenceParts_proofs
```

`MC*.tla` are the roots TLC starts from; they declare the symmetries and the sets of uses.
Several modules take a set of uses as a constant (`Modes`); the variable `mode` is one of
them, chosen at the start and never changed, so that one run covers clients, devices and
networks of different kinds, each with bounds of its own.

**AckWindow** has the server's count, the messages in flight since the last SET_ACK,
the peer's count-down and the ACKs that will be counted. One action per event: the
window is opened, a SET_ACK or another message begins, either is received, an ACK is
taken off, the connection closes. ACKs for messages sent before a SET_ACK do not exist
in it: that the code really ignores them is what the refinement shows.

**RedChannelClient** is `red_channel.c` for one client. `pc` follows the thread through the push
loop: `idle` between handlers, `push` at the top of the loop of
`red_channel_client_push`, `write` inside `red_peer_handle_outgoing`. A handler that
ends in a push sets `pc`, and no other handler runs until the loop is over; the
transport and the peer take steps at any time. Items are abstracted to what
`send_item` does with them: marshal a message that keeps the item (`data`) or not
(`empty`), marshal nothing (`nothing`, a dropped frame), need an urgent INVAL_LIST in
front (`data_inval`), or put themselves back into the pipe behind the image they need
(`data_deps`). `messages_window` is an unsigned counter modulo `Modulus`. The peer is
spice-gtk: it counts messages, answers SET_ACK with ACK_SYNC, PING with PONG and
MIGRATE with a flush mark. Only a channel served by a worker (`handle_acks`) is pushed
again at the end of the loop's turn (`red_push`, the variable `awake`).

One fact about the code that the model depends on: nothing overtakes a SET_ACK in the pipe. Only
`pipe_add_tail` and `pipe_add_after` put items in front of others, and the worker uses
them from inside `send_item` (`red_worker.c:7319`, lossless dependencies) and behind
drawables that are already queued. If items could overtake, the window could fill
before the peer knows it has to acknowledge, and both ends would wait for ever.

The module follows the path of the pipe. `insert_h264_frame` (`red_worker.c:12921`) resets the
marshaller and begins a message without `pipe_item_get`, so without its two tests, that nothing is
being written and that the window has room. This bypass is an action of H264Stream
(`WorkerAlive`, the run `h264_insert_busy`) and not of RedChannelClient: `NoItemBeingSent`, `WindowAccounted`,
`FlowControlled` and the bound on what is in flight are about what goes through the pipe. An inserted
frame adds one to `messages_window` whatever its value, at most once a second.

**H264Stream** is the worker thread of `red_worker_main`: poll, watches, `red_process_commands`,
perhaps `insert_h264_frame`, `red_push`. A picture is the number of draw commands
rendered so far; with `DRAW_ALL` each is rendered when it is taken from the ring.
Frames carry the picture of the moment they are *encoded*, other items the one of the
moment they were queued. `own` on a message says whether the encoder's bitstream
buffer, to which a frame only refers (`spice_marshaller_add_ref`), still holds that
frame. The thread's bad ends are states of their own: `aborted` (a `spice_assert`
fails; it aborts at the default level of `log.c`), `crashed` (NULL canvas) and `hung`
(a message whose marshaller was emptied: `writev` of nothing returns 0 for ever).

**AgentPort** is `char_device.c` as `reds.c` drives it for the agent, with one client.
The record `s` is the server: the `SpiceCharDeviceState` and its client (`tok`, `free`,
`send` are num_client_tokens, num_client_tokens_free and num_send_tokens; `self` the
server's own tokens; `queue` and `cur` the buffers to write), the `VDIPortState` (`held`
is recv_from_client_buf, with the connection whose message it holds; `bufs` and `out` the
read buffers in the ring and in the pipe) and the pipe of the main channel. Everything runs
in one thread; what interleaves are callbacks, so `s.calls` is a stack of the
calls under way: `write` and `read` are calls about to be made, `writing` and `reading` are
loops waiting for the device's answer. A step of the model goes up to the next call into the
device. Detaching the agent (`Detach`) empties the device state in the order of
the code: the buffers of the queue, oldest first, then the one being written, each giving back the token
of its origin, then the client, then the buffers read and not sent. A recursive wakeup only counts (`busyW`,
`busyR`) and the outer call repeats its loop. `room` and `agent` are the device, which
takes `Room` buffers until the guest reads them. The client is spice-gtk: it spends a token
for each AGENT_DATA, answers INIT and AGENT_CONNECTED with AGENT_START, and returns the tokens
it got. A message counts as one buffer; with `mode.split` it arrives in two pieces, and the
client may go away in between. `s.fault` names the assert that ended the process.
With `mode.caps` the client has SPICE_MAIN_CAP_AGENT_CONNECTED_TOKENS and the device
state is destroyed when the agent detaches; without it the state is reset and kept.

**PixmapCache** is `red_client_shared_cache.h` with the parts of `red_worker.c` that use it, and the
cache of spice-gtk (`spice-channel-cache.h`, `channel-display.c`, `canvas_base.c`). `cache`
is the shared cache of each host: the LRU list, the size and what is left of it, the last
serial of each channel per image and for the whole, the generation and who made it. A
channel marshals one message at a time into `draft`; each `fill_bits` takes the lock once,
so the workers interleave image by image. `wire` carries messages as lists of operations (wait,
inval, put, get) in the order in which the client carries them out: with full headers
the sub-messages come before the message, with mini headers the INVAL_LIST is an urgent
message with a serial of its own. The client's channels are coroutines: `WAIT_FOR_CHANNELS` and
an image that is not there yet suspend one of them. A migration freezes the cache, moves
its description with the first channel and rebuilds or resets it at the target (`host`).

**RedClient** is the life of a client. `clients` are the RedClients so far, each with its
reference count, its flags, its ring of channel clients, and for each channel
whether its channel client exists, is connected, is disconnected or is destroyed. The main
thread destroys a client in steps (`main`): one channel after the other, each worker
asked by DISCONNECT and waited for. A worker that posts to the main thread does so in
three steps (`worker`): the first half of `refs++`, the second, the message; when it reports the
end of a migration it holds `client->lock` throughout. `wq` and `mq` are the dispatchers'
socketpairs. A client that migrates in is first kept in `mig` with its links pending, until
the handshake (seamless) or the end of the migration (semi-seamless). Two restrictions are part of
the mode and can be lifted: `late` lets a worker leave a CONNECT in its queue while the client
sends data or goes away, `torn` lets the halves of `refs++` overlap another thread's use.

Where the mapped lines contain statistics, logging, byte arithmetic of iovecs or
round-trip computations, the definition stands for them without their detail.

## 3. Runs

| Run | Question | Instance |
|---|---|---|
| `display_acks` | Does the code implement the contract of AckWindow, do its asserts and serials hold while SET_ACK, ACK_SYNC and ACK cross, and is everything queued delivered? | window 1, 3 items, 2 SET_ACKs, 3 messages in the socket |
| `main_monitors` | Do the monitors agree with the wire under EAGAIN, errors and migration, and does every latency test end? | 1 item, 2 latency tests |
| `h264_one_client` | Is `insert_h264_frame` safe, is no update lost, is the last picture shown in the end? | one client, pictures only |
| `h264_shared` | Do frames keep their distance and their bytes? Can a client go back to an older picture? | one client to whom everything may happen, with and without DISPLAY_AVC switched off again; two clients at a time, for which only the types are claimed (section 7) |
| `agent_uses` | Do tokens and buffers add up over resets and reconnections, is no wakeup lost, and does any assert fail? | an old client and a device that needs the retry timer, 2 agents, 1 stop; a new client, a device that reports room, split messages, 2 agents, 2 connections, with two messages of the client or two of the agent |
| `agent_liveness` | Is what is queued written, is what the agent says heard? | one connection, one agent, 1 stop |
| `pixmap_cache` | Do the caches of both sides agree once everything is delivered, and do the channels ever wait for each other for ever? | two channels with one image per message, or one with two images and JPEG; both kinds of headers; 3 images, one of two units, a cache of 2; one migration |
| `red_client` | Are counts and lifetimes right, is a migration counted and told once, and is a lost client freed? | one client with three channels on one or two workers, two clients one after the other; 2 latencies, each channel linked up to twice |
| `h264_insert_busy`, `agent_half_received`, `pixmap_urgent`, `red_client_late` | Violations, section 7 | |

**Bounds.** Window 1 is the smallest that has all cases: two windows and two messages
in flight are four messages, so three in the socket and one in the marshaller reach
the limit, and `Modulus = 16` is far enough from `2 * Window + 3` that wrapping would
show. Two SET_ACKs let one be begun while the other, its ACK_SYNC and ACKs of the
old generation are on the wire. With three items, an urgent message, a requeued item
and an item that sends nothing come in every order. The clock of H264Stream has
`Second = 3` units and `Pace = 1`, so that two frames of different seconds may be too
near or not; only differences of times up to two seconds are compared, so the clock
stays at second `MaxSec = 3` while the recorded times move back, and a time further back
than that counts as 0, the code's own initial value. `Retries` of 1 or 2 stands for
`CMD_RING_POLL_RETRIES` (200): what matters is below, at and above. `MaxPipeSize = 1`
fills the pipes with two draws. In AgentPort a `Window` of 2 that is returned in batches of
2 (`Interval`; the server returns 5 of 10) is exhausted and refilled by three messages; one
read buffer and one place in the device make both full after one message; one token
for the agent's messages (`SendTokens`) lets the second wait for AGENT_TOKEN; and one token of
the server's own makes the second mouse event wait for the first. In PixmapCache a cache of
two units and an image that fills it make every add an eviction; two channels suffice for
a serial of one to be waited for by the other, and `MaxItems` drawables let an image be put,
evicted, put again and evicted again. In RedClient two workers are needed for the migration
data to be counted in two threads beside the main one, a display and a cursor of one worker
for the order in one queue, and two clients for a new link to throw out the one whose loss is
still in the queue.

**Deadlock** is checked in the H264 and agent runs; an agent run may rest only where the
bounds are used up and nobody is connected (`Over`) or after an assert (`Aborted`).
`NeverAborts` of AgentPort is claimed for the old client: with the new one the asserts of
section 7 can fail, and the other properties of `agent_uses` hold up to that point. A channel
client that has been disconnected takes no more steps, display channels with nothing to draw
rest, and so does a server whose clients are gone: these runs switch the check off. That
nothing waits for ever is stated there as `PipeDrains`, `NoStandstill` and `ClientFreed`.

## 4. Fairness

For the channel (`FairSpec` of RedChannelClient): the push loop is sequential code and
goes on (weak fairness); the transport accepts data when the peer has read it, and
`poll` reports a writable socket (`WriteEvent`, `WriteDone`); the worker ends each turn
with `red_push`; the peer keeps reading and answering. There is no fairness on new
items, errors, disconnects or timers that start tests.

For the H264 path (`Fairness` of H264Stream): the thread goes on; `poll` returns, since the
latency monitor of every display client keeps a timer in the worker's queue; time goes on;
events do not keep the thread from the ring for ever and the ring is found empty if
it is empty infinitely often (strong fairness of `EventsDone` and `RingIsEmpty`: `poll`
serves each ready descriptor once per turn and `red_process_commands` runs in every
turn); a client that is retried again and again gets its message in the end
(`WriteDone`). There is no fairness on clients, guest or surface.

For the agent port (`Fairness` of AgentPort): the calls under way go on; the main loop
serves what arrives on the channel, and since each such event uses up a message or a
token none can starve another (`Serve`, strong because the stack of calls disables it
for a moment); the retry timer fires unless it is cancelled (`WriteRetry`). That the guest
reads its port, and that the client reads the channel and returns tokens, are assumptions
on the other sides. There is none on attaching, connecting, mouse events or errors.

For RedClient (`Fairness`): the main thread handles what is in its queue and goes on with a
destruction, and each worker goes on with what it does and handles its queue; both
poll the descriptors of their dispatchers in every turn. Nothing is assumed of the client.

PixmapCache has no fairness: `NoStandstill` is stated as an invariant.

## 5. What is proved

TLAPS checks the following for every value of the constants that satisfies the named
assumptions (`ConstantsAssumption`, `ItemKindsAssumption`, `PacingAssumption`, `StreamAssumption`,
`ClientAssumption`, `PortAssumption`, `PixmapAssumption`; the theorems about AckWindow name theirs, that the window is a positive number).
`SequenceParts_proofs` has the lemmas on `Kept` and `Count` that five of the components need:
the rank of a position among the kept ones is a bijection, so keeping drops no element and
adds none (`KeptPositions`, `KeptElements`, `KeptOnce`), and what appending, taking off, inserting and
removing do to a count, from the cardinalities of the sets of positions (`CountQueue` and others).

### The send path (`RedChannelClient_proofs`)

* **`NoItemBeingSentHolds`, `DisconnectedIsEmptyHolds`.** Both are about the path of the pipe
  (section 2). Neither property is
  inductive: what `pipe_item_get` may do depends on what a blocked write left
  behind. `SendState` adds where the thread is: between steps `blocked` is the same as a message
  being written; inside `red_peer_handle_outgoing` there always is one and the
  client is connected; an item is held for a message only; and the urgent
  marshaller is active only with a main message behind it. `SendInvInductive` goes through
  the actions one by one.
* **`TypeOKHolds`.** The type of `messages_window` is the modular range, so the proof
  needs that `(w + 1) % Modulus` stays there, also where the window is `~0`; and
  that the requeued items and the peer's replies have their types
  (`PipeTypes`, `WireTypes`, `WindowType`).
* **`SerialMatchesPeerHolds`.** On top of `SendInv` and the types: while the urgent
  marshaller is active, serial and last sent serial are equal, and otherwise a serial
  that was taken and not sent is given back by the next reset (`SerialInductive`).

### The monitors (`RedChannelClient_proofs`)

* **`PingsOutstandingHolds`.** The sum over the pipe, the marshaller and both directions of the
  wire is kept by every step; what is missing is that a main message set aside for an urgent
  one is never a PING (`PingInv`).
* **`NoConnectivityMismatchHolds`.** `ConnInv` says the same for any moment of the push loop, and
  of the bytes counted since the timer last ran: the state the timer set is out of date only once
  bytes have moved.

### The ack window (`AckWindow_proofs`, `RedChannelFlow_proofs`)

* **`AccountingHolds`, `NoUnderflowHolds`, `InFlightBoundedHolds`.** The window is the
  sum of the messages in flight, those the peer has counted, a window per ACK on its
  way and the SET_ACK itself; with the bound `2W + 2` this is inductive, and both
  other facts follow from it.
* **`FlowControlledHolds`, `WindowAccountedHolds`.** RedChannelClient implements AckWindow: its initial
  states are initial states of the contract, and each step is one of the contract's or leaves
  its variables alone. The mapping reads the counters off the wire (the position of the last
  SET_ACK among the messages, of its ACK_SYNC among the answers), so the steps need that this
  SET_ACK and this ACK_SYNC exist once and in order. `FlowIInv` states this (`Opened`, `InOrder`, `Answered`),
  with the types, `SendInv`, `PingInv` and the accounting of the contract: the accounting bounds
  the window, and so shows that the modular counter does not wrap. The hypothesis is
  `HandleAcks`, that the channel handles acks; the others have no window.

### The H264 path (`H264Stream_proofs`)

* **`PacedIsElapsed`, `InsertDueIsElapsed`.** The field-by-field comparisons of
  `struct timeval` are comparisons of elapsed time, *if the clock has not run backwards*;
  the premise is part of the theorem, as `gettimeofday` does not guarantee it.
* **`TypeCorrect`**, for any number of clients, pictures and retries. `TypeInv` adds that a pass
  serves connected clients only and is over before the clients change (`PassInv`), that a client
  which is gone has nothing to send (`SendInv`), and that times never lie after the clock's
  second (`TimeInv`).
* **`FrameIntactHolds`**, one client at a time: `OwnInv`, every message has its bytes. The encoder is
  used only when the client is being sent nothing, and a connection closes it only when
  the last client is gone.
* **`FrameRateHolds`**, one client at a time: `PaceInv`. `last_time` is not in the future and it is the
  time of the client's last frame, unless a new connection has zeroed it; so `PacedIsElapsed` applies,
  also to the frame that is inserted. A worker that ended inside `insert_h264_frame` has set
  `last_time` and sent nothing, hence `Ended`.
* **`NoOlderPictureHolds`**, an action property, one client at a time, DISPLAY_AVC not switched off again.
  `OrderInv`: nothing queued or being sent is newer than the screen, what is being sent
  is not older than what is shown, the queued drawables are in order as long as they will
  be sent as such, and the image of a new client is first in its pipe; while it waits no frame has been
  dropped and none is inserted. `AvcInv` ties dropping and inserting to DISPLAY_AVC.
* **`WorkerAliveHolds`, `UpdatePendingHolds`**, one client that only gets pictures (`PicturesOnly`, the mode of
  `h264_one_client`). `BusyInv`: while `last_drop` is set the client is being sent nothing, which is
  why the assert behind `insert_h264_frame` holds although nothing there checks it; the run
  `h264_insert_busy` shows what happens without the hypothesis. `PendingInv` is `UpdatePending` by
  client; every step that takes the newest picture out of a pipe sends it or sets `last_drop`.

### The clients (`RedClient_proofs`)

Any number of clients one after the other, of channels and of workers.

* **`NoRccAfterDestroy`** (`RccAlive`), in every mode, the late and the torn ones included. `RccInv` is the types
  (with a ring that holds each existing channel client once, `RingOf`), `WalkInv` (the channels
  the main thread still has to destroy exist, each is met once, and it waits for workers only), `AskInv` and
  `AliveInv`. `AskInv` is the point: a DISCONNECT is the last message of its queue, because the
  main thread that sent it is waiting, and so after the ACK neither the queue nor the worker is about
  that channel client. A CONNECT may still be in another queue: that is why the property excepts it.
* **`MigrationCounted`** (`MigrationCount`), in every mode. `CountInv` adds to the property who may be
  migrating at all (`MigOf`), and that a channel that waits exists, so that linking it again does not
  count it twice. For "completed at most once" the completions on their way count too, in a worker
  that holds the lock or in the main thread's queue (`CompleteInv`).
* **`RefsCounted`** (`RefsBalanced`), **`NoClientAfterFree`** (`ClientAlive`) and **`ClientTypes`** (`TypeOK`; `refs` and
  `num_migrated_channels` never fall below 0), in the modes that are `InTime`, neither late nor torn.
  Without this hypothesis the code does not keep them: `red_client_late` shows it for `late`, and
  section 7 says what becomes of a torn count. `LifeInv`: a client not in the list is being
  destroyed or has no channel client left, a CONNECT is outstanding only for a client whose main channel is
  connected, and the walk of the main thread covers all that exists. `RefInv` counts the holders and says
  that a worker in the middle of `refs++` has read the present count and is alone there. It
  needs `LifeInv`: a worker may take a reference since its channel client is alive, hence its client
  is in the list or being destroyed, hence somebody else holds a reference.
* **`AssertionsHold`** (`NeverAborts`), late and torn modes included, for the sequences of clients that
  are `SeamlessLast`: after the target of a seamless migration only clients that do not migrate come.
  The code needs this, since it never resets `dst_do_seamless_migrate` (section 7); all modes of
  the run have it. `ArriveInv`: only the last client can be in the list, and none is while one is destroyed;
  a client not in the list is no target and has no main channel left once the main thread
  serves others; a target that is in the list but not in `mig_target_clients` has set
  `dst_do_seamless_migrate`. So the links of a client wait exactly as long as it is in
  `mig_target_clients` (`LinkWaits`), as `reds_handle_other_links` asserts. The assertion
  of `red_client_destroy` follows from `AskInv`, the other two from `CountInv`.
* **`DataAlwaysExpected`** (`DataExpected`), for the same sequences, where no CONNECT is late (torn or not). A
  target is before its handshake (`BeforeOf`: it has its main channel only, and what it linked is
  pending) or after it (`AfterOf`). Afterwards a connected channel without its data waits for it, what is
  linked and does not exist is asked for, and once the first data has come there is nothing
  left to create: a channel created then would not wait, because the migration may already be over.

### The agent port (`AgentPort_proofs`)

In every mode: with and without the capability, messages whole or in pieces, a device that calls back or
not, for any window, any number of messages and of connections. The inductive invariant is `PortInv`.

* **`PortTyped`** (`TypeOK`). The counters of tokens stay naturals although the code subtracts: a
  buffer of a client's message is charged to the client in the device state or has lost its origin. `LinkInv` says
  what is never there without what: no client without a device state and a connection, no buffer in a message
  that is not the present connection's; a buffer left behind is an earlier connection's.
* **`TokensAccounted`** (`TokenAccounting`), **`SelfAccounted`** (`SelfAccounting`). In the middle of a handler the sums
  hold with the buffers in hand counted too, those taken off the queue and not yet released (`TokenInv`,
  `SelfInv`, `ReadBufInv`). That keeping part of a queue takes off the count exactly what it drops
  is `KeptCount` of `SequenceParts_proofs`.
* **`WritesRetried`** (`WriteRetried`), **`ReadsRetried`** (`ReadRetried`). Neither is inductive: `sif->write` may call
  back, the recursive call only counts, and the outer one has to see it. `StackInv` says that each loop
  is under way at most once, that `busyW` and `busyR` say whether it is, and that a device state that was
  reset has neither. `WriteInv` and `ReadInv` say of every moment who will do the pending work: a call
  that is yet to be made, the loop that is under way and will go round again, the timer, or the device, which
  wakes the server up when it has room or data.
* **`MouseAlwaysServed`** (`MouseServed`), an action property: a token of the server that becomes free while a
  mouse event is pending goes to that event in the same step, whichever call released it.
* **`ServerNeverAborts`** (`NeverAborts`): no assert of the port fails, with a client without the capability whose
  messages arrive whole. The hypothesis is the property's own: without it the code does fail (section 7). `NeverInv`,
  inductive on top of `PortInv`, relates the two ends of the main channel: the tokens that the client has, those on
  their way to it (`Tokens`, `Inits`) and its messages on their way to the server never exceed the tokens the server
  counts for it (`Covered`), and of a client that is not in the device state yet, the window it will get; such a client
  has an `AGENT_START` on its way before anything else (`NotYet`), which matters because `agent_started` outlives a
  disconnection; only a client in the device state owes tokens (`Returns`); a buffer is held just while the message it
  is for is received, and the agent is not started again between `spice_char_device_reset` and the end of
  `reds_agent_remove` (`Receives`, `Begun`).

### The pixmap cache (`PixmapCache_proofs`)

For any number of channels, images and messages, in every mode, migration included.

* **`CacheInvariant`**: `CacheInv` and `FreezeInv` are inductive together. `CacheInv` says that no item of a cache and
  no list of evicted images is stamped with a number that its channel has not reached, so that the largest
  stamp exists and a `WAIT_FOR_CHANNELS` names numbers; that a message is marshalled only where the channel is
  served; that `MIGRATE_DATA` is the last message on its wire and is on none but a moving channel's. `FreezeInv`
  says that one channel at most has frozen the cache of the source, and that it alone resets the one of the
  target, which has no room until then.
* **`CacheTyped`** (`TypeOK`), from `CacheInv`.
* **`SizeAlwaysAccounted`** (`SizeAccounted`): `pixmap_cache_unlocked_add` subtracts from `available` and adds to it
  the sizes of what it evicts one by one, and evicts even if that does not make enough room. The induction needs
  `FreezeInv`: the target has an `available` below 0, and so nothing cached, until the one reset that gives it its size.
  The sizes of the parts of the list are those of `Count` in `SequenceParts_proofs`; how many items the loop evicts is
  the smallest number that makes room or meets an item in use, and that it exists is the well-foundedness of the naturals.

The invariants were checked with TLC on the instances of the runs before they were proved. That is
how it came out that `NoOlderPicture` needs the restriction to one client: the instance with two
clients holds with two draws and fails with three (section 7).

## 6. What is only model-checked

Liveness (`PipeDrains`, `LatencyTestEnds`, `LastPictureShown`, `WritesDrain`, `AgentHeard`, `ClientFreed`,
`MigrationTold`) is out of the prover's reach. `NoStandstill`, `NothingMissing` and
`NothingLeft` of PixmapCache are checked by TLC on the instances above: they are about all
the messages under way to several clients, and `NothingMissing` does not hold in every mode (section 7).

## 7. What the model shows about the code

Four runs end in a violation, each of a statement the code makes about itself.

* `h264_insert_busy`: `insert_h264_frame` was written "according to
  red_channel_client_send_item", but send_item asserts, and the pipe guarantees, that
  nothing is being sent. With a message other than a frame blocked on the socket a second
  after a frame was dropped, the assert of `red_channel_client_init_send_data`
  (`red_channel.c:1580`) fails. With pictures alone this cannot happen (`h264_one_client`): a
  blocked frame is the one that set `last_time` and cleared `last_drop`, and while it blocks
  no other item of the client is marshalled.
* `agent_half_received`: `reds_get_agent_data_buffer` asserts that `recv_from_client_buf` is
  NULL (`reds.c:956`). Only `red_peer_handle_incoming` releases the buffer of a half-received
  message; a client given up by a write error, by the connectivity timer or for a new
  client leaves it behind, and the first AGENT_DATA of the next client fails the assert.
* `pixmap_urgent`: with mini headers an INVAL_LIST becomes a message of its own in front of the
  one that caused it, and `display_channel_send_free_list` moves the serials of that message's
  images by one (`red_worker.c:8453`). Between `fill_bits` and this correction the
  lock is free: another channel may evict such an image, with the old serial. The
  client then drops the image before the message that brings it, and keeps it for good.
* `red_client_late`: "When it is destroyed, it also disconnects and destroys all the
  RedChannelClients that are associated with it" (`red_channel.c:104`). CONNECT is queued for the
  worker without a reference and without an ACK; if the main channel is lost before
  the worker handles it, the client is freed and gets a channel client afterwards.

Other behaviours the model shows, most of them recorded among the hazards, without a run of their own:

* `last_drop` outlives the primary surface; the insertion, asserted to succeed
  (`red_worker.c:12938`), then reads a canvas that is NULL.
* With several display clients (`SPICE_DEBUG_ALLOW_MC`) a connection zeroes the shared
  `last_time`, and another client gets two frames within 33 ms; and `last_drop` of one
  client hides the other's, so the last update of one may stay missing. A frame dropped for
  one client also has the worker insert a newer frame for a client that has just connected, ahead of
  the image that still waits in its pipe; the older picture is then shown last. And the bytes
  of a frame whose write is blocked do not stay its own: the other client's frame is encoded into the
  encoder's only bitstream buffer, or a connection closes the encoder and frees it. `FrameIntact`,
  `FrameRate`, `NoOlderPicture` and `UpdatePending` are therefore claimed for one client at a time.
* When DISPLAY_AVC is switched off while a frame is being written, the drawables that were rendered
  before it and are still in the pipe are painted over it (with at least three drawables in the
  pipe), and a frame that was dropped is not made up for. `NoOlderPicture` is claimed as long as AVC is
  not switched off again.
* A disconnect while an urgent message is being written does not release the item of the main
  message.
* An AGENT_START that crosses AGENT_DISCONNECTED opens the port of the next agent; a
  message that arrives while the agent is detached costs an old client its token for good.
* When the device state is destroyed while a message is half received, releasing its
  buffer finds no `dev_client` and the assert at `char_device.c:636` fails; likewise an
  AGENT_TOKEN that crosses the detaching finds no client (`spice_error`,
  `char_device.c:382`).
* With two cached images per message, or with lossy images that are looked up before they are
  evicted, two display channels may wait for each other's message for ever; with JPEG
  and two channels a lossy image may overwrite its lossless replacement in the client's cache.
  `NoStandstill` and `NothingMissing` are therefore checked without these (`OrderedModes`).
* The client counts a replaced lossy image twice (`spice-channel-cache.h:94`) and keeps it after
  the INVAL_LIST.
* A channel lost during a seamless migration stays counted, and the migration never ends
  (`red_channel.c:949`).
* `dst_do_seamless_migrate` outlives the client that asked for it; the channels of a later client
  that migrates in then fail `spice_assert(!mig_client)` (`reds.c:1856`).
* With `torn`, `refs++` in a worker and in the main thread lose a count.

## 8. Not modelled

QEMU, the QXL guest driver and the encoders are external; they appear as the ring, a
surface and a bitstream buffer. The dummy channel client and the conversion of
seamless migration data are left out, as are round-trip and bit-rate arithmetic. The image
codecs (GLZ, JPEG, MJPEG, LZ4, zlib) are numeric and sequential; TLS, SASL and websocket
wrappers are I/O; the sound channels have a send path of their own; inputs and smartcard are thin
users of the channel client. Of spice-gtk only the answers on which the server's state depends are modelled.

Of the channel client, the comparison of a PONG's id with the one last sent (`red_channel.c:1478`) is
left out: while `PingsOutstanding` holds, the only PONGs under way are those of the test that runs, and
their id is the one expected. In `main_monitors` the channel has no acks, so the part of
`NoConnectivityMismatch` about a client that waits for ACKs is shown by its proof alone.

Of the agent port, migration (`wait_for_migrate_data`, restore), malformed messages, the
filters' verdicts, the buffer pool, the send queues of several clients and the list
`char_devs_states` are left out. A write that the device takes in parts is the write
that is refused until the rest fits. A client that disconnects has its reads discarded from the start,
where the code sets `discard_all` after `red_client_destroy` (`reds.c:511`).

Of the pixmap cache, hash collisions, the palette and cursor caches (one client each, no
sharing) and the GLZ dictionary are left out, and so is migration data made while a channel is in the
middle of a message: the stop before a migration waits for the pipes, except when this wait
times out. A client sends the message of `DstDoSeamless` once, as a target of migration, which the
code does not enforce (`reds.c:1766`). Of the clients, several at a time
(SPICE_DEBUG_ALLOW_MC), authentication, the source side's waiting for the client, and a
dispatcher's socket that is full (the completion of a migration is posted with `client->lock`
held, `red_channel.c:958`). Also outside the model: a clock that steps backwards
(`red_worker.c:9243`), and an encoder that fails although `h264_qsv_encoder_encode` reports
success (`red_worker.c:9073`).

Most of the repository's lines are QEMU (two versions, with firmware) and the
other packages it is built with; the model covers the part of the SPICE server
that keeps the state described in section 1, so its share of all lines is small by nature.

## 9. Plan

1. Done: AckWindow, RedChannelClient, RedChannelFlow, H264Pacing, H264Stream, AgentPort,
   PixmapCache, RedClient; proofs of the send path, of the monitors, of the ack window and its
   refinement, of the H264 path with one client, of the lifetime, the migration and the assertions of
   clients, of the tokens, the wakeups and the asserts of the agent port, and of the size of the
   pixmap cache.
2. Proofs: `NothingMissing` and `NothingLeft` of PixmapCache.
3. AgentPort: the migration of the port, send queues of several clients.
4. H264Stream: stop and start of the worker, the cursor ring, and the item references.
5. Timer queue, memory slots and agent message filter as operators against reference
   definitions.
