---------------------------- MODULE AgentPort ----------------------------
(***************************************************************************)
(* The port of the guest's agent: server/char_device.c as reds.c drives it   *)
(* for "vdagent", between the main channel of one client (multiple clients   *)
(* are not supported by the character devices, char_device.h) and the device *)
(* of qemu.  The client is the one of spice-gtk, channel-main.c.             *)
(*                                                                         *)
(* Everything here runs in the main thread.  What interleaves are callbacks: *)
(* a read or a write of the device may call spice_char_device_wakeup, which  *)
(* reads and writes again.  s.calls is the stack of the calls under way, the *)
(* innermost first.  A message, a buffer or a write of a buffer is whole.    *)
(* Migration (wait_for_migrate_data) and malformed messages are left out.    *)
(***************************************************************************)
EXTENDS Integers, Sequences, SequenceParts

CONSTANTS
    Window,         \* REDS_AGENT_WINDOW_SIZE
    Interval,       \* REDS_TOKENS_TO_SEND
    SelfTokens,     \* REDS_NUM_INTERNAL_AGENT_MESSAGES
    ReadBufs,       \* REDS_VDI_PORT_NUM_RECEIVE_BUFFS
    SendTokens,     \* num_tokens of the client's AGENT_START
    Room,           \* buffers the device takes before the guest reads them
    Modes           \* the kinds of use to consider

\* caps: the client has SPICE_MAIN_CAP_AGENT_CONNECTED_TOKENS; notify: the device
\* has SPICE_CHAR_DEVICE_NOTIFY_WRITABLE; split: an AGENT_DATA message may arrive
\* in two pieces.  The others are bounds: AGENT_DATA of the client, messages of
\* the agent, mouse events, attachments, connections and stops of the machine.
Mode == [caps : BOOLEAN, notify : BOOLEAN, split : BOOLEAN, data : Nat, agent : Nat,
         mouse : Nat, plugs : Nat, conns : Nat, stops : Nat]

ASSUME PortAssumption ==
    /\ {Window, Interval, SelfTokens, ReadBufs, SendTokens, Room} \subseteq Nat \ {0}
    /\ Interval <= Window
    /\ Modes # {} /\ Modes \subseteq Mode

\* A buffer to write is told from another by its origin.
NoBuf == "nobuf"
Origins == {"none", "client", "server", "no_token"}

VARIABLES
    s,          \* the server: SpiceCharDeviceState and its one client, VDIPortState
    room, agent,    \* the device: buffers it takes, messages of the agent in it
    up,         \* the messages of the client on the main channel
    mode,       \* the kind of use, settled at the start
    peer,       \* the client: tokens, whether it met an agent, tokens it owes the server
    count       \* of everything bounded, what happened so far

vars == <<s, room, agent, up, mode, peer, count>>

\* The server's state.  `busyW' and `busyR' are during_write_to_device and
\* during_read_from_device (2 for more than 1), `left' max_send_tokens, `got'
\* the value the last call returned.
Init ==
    /\ s = [vdagent |-> FALSE, vm |-> TRUE, conn |-> FALSE,
            base |-> FALSE, running |-> FALSE, active |-> FALSE,
            queue |-> <<>>, cur |-> NoBuf, retry |-> FALSE, self |-> 0,
            client |-> FALSE, tok |-> 0, free |-> 0, send |-> 0,
            busyW |-> 0, busyR |-> 0, didW |-> FALSE, didR |-> FALSE,
            left |-> 0, got |-> FALSE, calls |-> <<>>,
            started |-> FALSE, accept |-> FALSE, mouse |-> FALSE,
            held |-> 0, msg |-> "none", bufs |-> ReadBufs, out |-> 0,
            pipe |-> <<>>, fault |-> "none"]
    /\ room = Room /\ agent = 0
    /\ up = <<>> /\ mode \in Modes
    /\ peer = [tok |-> 0, agent |-> FALSE, owed |-> 0]
    /\ count = [data |-> 0, agent |-> 0, mouse |-> 0, plugs |-> 0, conns |-> 0,
                stops |-> 0]

-----------------------------------------------------------------------------
(* Parts of the handlers, as functions from a state of the server to the next. *)

Call(st, calls) == [st EXCEPT !.calls = calls \o @]
Return(st)      == [st EXCEPT !.calls = Tail(@)]
Fail(st, what)  == [st EXCEPT !.fault = what]

Wakeup == <<"write", "read">>

\* spice_char_device_write_buffer_add
WriteBufferAdd(st, buf) ==
    Call([st EXCEPT !.queue = Append(@, buf)], <<"write">>)

\* Bug: the server's own message takes no token.
AgentMouseEventFree(st) ==
    IF st.base THEN WriteBufferAdd([st EXCEPT !.mouse = FALSE], "server") ELSE st

\* reds_handle_agent_mouse_event
AgentMouseEvent(st) ==
    IF ~st.base THEN st
    ELSE IF st.self = 0 THEN [st EXCEPT !.mouse = TRUE]
    ELSE WriteBufferAdd([st EXCEPT !.self = @ - 1, !.mouse = FALSE], "server")

\* A message to the client, with the number of tokens it gives
ToClient(type, n) == [type |-> type, n |-> n]

\* Bug: the count of consumed messages is not reset.
ClientTokensAddKept(st) ==
    LET n == st.free + 1
    IN  IF n >= Interval
        THEN [st EXCEPT !.tok = @ + n, !.free = n,
                        !.pipe = Append(@, ToClient("TOKEN", n))]
        ELSE [st EXCEPT !.free = n]

\* Bug: the client is told of its tokens, the server does not count them.
ClientTokensAddUncounted(st) ==
    LET n == st.free + 1
    IN  IF n >= Interval
        THEN [st EXCEPT !.free = 0, !.pipe = Append(@, ToClient("TOKEN", n))]
        ELSE [st EXCEPT !.free = n]

\* spice_char_device_client_tokens_add
ClientTokensAdd(st) ==
    LET n == st.free + 1
    IN  IF n >= Interval
        THEN [st EXCEPT !.tok = @ + n, !.free = 0,
                        !.pipe = Append(@, ToClient("TOKEN", n))]
        ELSE [st EXCEPT !.free = n]

\* Bug: on_free_self_token is not called.
WriteBufferReleaseOnly(st, buf) ==
    CASE buf = "client" ->
            IF st.client THEN ClientTokensAdd(st) ELSE Fail(st, "no dev_client")
      [] buf = "server" -> [st EXCEPT !.self = @ + 1]
      [] OTHER -> st

\* spice_char_device_write_buffer_release
WriteBufferRelease(st, buf) ==
    CASE buf = "client" ->
            IF st.client THEN ClientTokensAdd(st) ELSE Fail(st, "no dev_client")
      [] buf = "server" ->
            LET freed == [st EXCEPT !.self = @ + 1]
            IN  IF st.mouse THEN AgentMouseEvent(freed) ELSE freed
      [] OTHER -> st

\* reds_release_agent_data_buffer, of a buffer that was not pushed.  s.held is
\* the connection whose message recv_from_client_buf is for, 0 for NULL.
ReleaseAgentDataBuffer(st) ==
    LET done == [st EXCEPT !.held = 0, !.msg = "none"]
    IN  IF st.held = 0 THEN done
        ELSE IF st.msg # "buf" THEN Fail(st, "buf of another message")
        ELSE IF ~st.base THEN done
        ELSE WriteBufferRelease(done, "client")

\* spice_char_device_client_free, spice_char_device_client_remove
ClientRemove(st) ==
    IF ~st.client THEN st
    ELSE [st EXCEPT !.client = FALSE, !.tok = 0, !.free = 0, !.send = 0,
                    !.queue = Kept(@, Origins \ {"client"}),
                    !.cur = IF @ = "client" THEN "none" ELSE @]

\* reds_client_disconnect.  The pipe's messages of the agent are freed, and
\* their buffers read into again; "goodbye" is VD_AGENT_CLIENT_DISCONNECTED.
ClientDisconnect(st) ==
    LET gone == [ClientRemove(st) EXCEPT !.conn = FALSE, !.accept = FALSE,
                     !.out = 0, !.bufs = @ + st.out, !.pipe = <<>>, !.msg = "none"]
    IN  Call(gone, IF ~st.base THEN <<>>
                   ELSE (IF st.out > 0 THEN Wakeup ELSE <<>>) \o <<"goodbye">>)

\* spice_char_device_stop
Stop(st) == [st EXCEPT !.running = FALSE, !.active = FALSE, !.retry = FALSE]

\* spice_char_device_state_destroy
Destroy(st) ==
    [ClientRemove(st) EXCEPT !.base = FALSE, !.running = FALSE, !.active = FALSE,
        !.retry = FALSE, !.queue = <<>>, !.cur = NoBuf, !.self = 0]

\* spice_char_device_client_add
ClientAdd(st) ==
    Call([st EXCEPT !.client = TRUE, !.tok = Window, !.free = 0, !.send = SendTokens], Wakeup)

\* Bug: new tokens do not start a read.
TokensAbsorbOnly(st, tokens) == [st EXCEPT !.send = @ + tokens]

\* spice_char_device_send_to_client_tokens_absorb; one client never has a send queue
TokensAbsorb(st, tokens) ==
    LET t == [st EXCEPT !.send = @ + tokens]
    IN  IF t.send > 0 THEN Call(t, <<"read">>) ELSE t

\* __spice_char_device_write_buffer_get for a client, into recv_from_client_buf;
\* reds.c uses what it returns without a look
ClientBufferGet(st) ==
    IF ~st.client \/ st.tok = 0 THEN Fail(st, "token violation")
    ELSE [st EXCEPT !.tok = @ - 1, !.held = count.conns, !.msg = "buf"]

\* spice_char_device_state_create
Create(st) == [st EXCEPT !.base = TRUE, !.self = SelfTokens]

-----------------------------------------------------------------------------
(* The main thread between two events, and the calls under way.              *)

Alive == s.fault = "none"
Idle  == Alive /\ s.calls = <<>>

\* The event loop.  Without mode.split a message is received in one event.
Quiet == Idle /\ (mode.split \/ s.msg = "none")

Top(call) == Alive /\ s.calls # <<>> /\ Head(s.calls) = call

\* spice_char_device_{write_to,read_from}_device return at once
Eligible == s.base /\ s.running /\ s.vdagent

device == <<room, agent, mode>>
world  == <<up, peer, count>>

\* Bug: a call from within a write is not remembered.
CallWriteForgets ==
    /\ Top("write")
    /\ s' = IF ~Eligible \/ s.busyW > 0 THEN [Return(s) EXCEPT !.got = FALSE]
            ELSE Call([Return(s) EXCEPT !.busyW = 1, !.didW = FALSE, !.retry = FALSE],
                      <<"writing">>)
    /\ UNCHANGED <<device, world>>

\* spice_char_device_write_to_device, up to its loop
CallWrite ==
    /\ Top("write")
    /\ s' = CASE ~Eligible   -> [Return(s) EXCEPT !.got = FALSE]
              [] Eligible /\ s.busyW > 0 -> [Return(s) EXCEPT !.busyW = 2, !.got = FALSE]
              [] OTHER -> Call([Return(s) EXCEPT !.busyW = 1, !.didW = FALSE,
                                                 !.retry = FALSE], <<"writing">>)
    /\ UNCHANGED <<device, world>>

\* the buffer at hand in the loop of spice_char_device_write_to_device
Writing == Top("writing") /\ (s.cur # NoBuf \/ s.queue # <<>>)
Taken(st) == IF st.cur # NoBuf THEN st
             ELSE [st EXCEPT !.cur = Head(st.queue), !.queue = Tail(@)]

\* Bug: the timer is started only if something was written.
WriteDoneNoTimer(st) ==
    [Return(st) EXCEPT !.retry = st.cur # NoBuf /\ st.didW /\ ~mode.notify,
                       !.active = @ \/ st.didW, !.busyW = 0, !.got = st.didW]

\* its end: the retry timer, `active', and what it returns
WriteDone(st) ==
    [Return(st) EXCEPT !.retry = st.cur # NoBuf /\ ~mode.notify,
                       !.active = @ \/ st.didW, !.busyW = 0, !.got = st.didW]

WriteNothingLeft ==
    /\ Top("writing") /\ s.cur = NoBuf /\ s.queue = <<>>
    /\ s' = WriteDone(s)
    /\ UNCHANGED <<device, world>>

\* A buffer is released; the push of its tokens may find the client gone.
Released(st, buf) ==
    LET done == WriteBufferRelease(st, buf)
    IN  \/ s' = done /\ up' = up
        \/ done.pipe # s.pipe /\ s' = ClientDisconnect(done) /\ up' = <<>>

\* the device takes the rest of the buffer
WriteBuffer ==
    /\ Writing /\ room > 0
    /\ room' = room - 1
    /\ LET t == Taken(s)
       IN  Released([t EXCEPT !.cur = NoBuf, !.didW = TRUE], t.cur)
    /\ UNCHANGED <<agent, mode, peer, count>>

\* the device takes a part of the buffer or nothing, and then no more: sif->write
\* is about to return n <= 0, but may report an event before it does
WriteRefused ==
    /\ Writing /\ room = 0
    /\ \E part \in BOOLEAN :
          s' = Call([Return(Taken(s)) EXCEPT !.didW = @ \/ part], <<"write_refused">>)
    /\ UNCHANGED <<device, world>>

WriteBlocked ==
    /\ Top("write_refused")
    /\ s' = IF s.busyW > 1 THEN Call([Return(s) EXCEPT !.busyW = 1], <<"writing">>)
            ELSE WriteDone(s)
    /\ UNCHANGED <<device, world>>

\* Bug: a call from within a read is not remembered.
CallReadForgets ==
    /\ Top("read")
    /\ s' = IF ~Eligible \/ s.busyR > 0 THEN [Return(s) EXCEPT !.got = FALSE]
            ELSE Call([Return(s) EXCEPT !.busyR = 1, !.didR = FALSE, !.left =
                          IF s.client THEN s.send ELSE 0], <<"reading">>)
    /\ UNCHANGED <<device, world>>

\* spice_char_device_read_from_device, up to its loop
CallRead ==
    /\ Top("read")
    /\ s' = CASE ~Eligible -> [Return(s) EXCEPT !.got = FALSE]
              [] Eligible /\ s.busyR > 0 -> [Return(s) EXCEPT !.busyR = 2, !.got = FALSE]
              [] OTHER -> Call([Return(s) EXCEPT !.busyR = 1, !.didR = FALSE, !.left =
                                   IF s.client THEN s.send ELSE 0], <<"reading">>)
    /\ UNCHANGED <<device, world>>

Reading == Top("reading") /\ (s.left > 0 \/ ~s.client)

\* read_filter.discard_all: reds_reset_vdp and reds_client_disconnect set it,
\* attach_to_red_agent and reds_handle_main_link clear it
ReadDiscards == ~(s.conn /\ s.vdagent)

\* max_send_tokens - 1: a 64-bit counter that wraps
OneLess(n) == IF n = 0 THEN mode.agent + 1 ELSE n - 1

\* vdi_port_read_one_msg_from_device reads a message that the filter discards
ReadDiscarded ==
    /\ Reading /\ agent > 0 /\ s.bufs > 0 /\ ReadDiscards
    /\ agent' = agent - 1
    /\ s' = Call(s, Wakeup)
    /\ UNCHANGED <<room, mode, world>>

\* ... or one for the client.  Without a client in the device it is dropped,
\* otherwise pushed; the push may find the client gone.
ReadMessage ==
    /\ Reading /\ agent > 0 /\ s.bufs > 0 /\ ~ReadDiscards
    /\ agent' = agent - 1
    /\ LET t == [s EXCEPT !.didR = TRUE, !.left = OneLess(@)]
           sent == [t EXCEPT !.send = @ - 1, !.bufs = @ - 1, !.out = @ + 1]
       IN  \/ ~s.client /\ s' = Call(t, Wakeup) /\ up' = up
           \/ s.client /\ s' = sent /\ up' = up
           \/ s.client /\ s' = ClientDisconnect(sent) /\ up' = <<>>
    /\ UNCHANGED <<room, mode, peer, count>>

\* its end: `active', and what it returns
ReadDone(st) ==
    [Return(st) EXCEPT !.busyR = 0, !.active = @ \/ st.didR, !.got = st.didR]

\* nothing to read, or no buffer to read into: the callback is about to return
\* NULL, but sif->read may report an event before it does
ReadFails ==
    /\ Reading /\ (agent = 0 \/ s.bufs = 0)
    /\ s' = Call(Return(s), <<"read_failed">>)
    /\ UNCHANGED <<device, world>>

ReadNull ==
    /\ Top("read_failed")
    /\ s' = IF s.busyR > 1 THEN Call([Return(s) EXCEPT !.busyR = 1], <<"reading">>)
            ELSE ReadDone(s)
    /\ UNCHANGED <<device, world>>

\* the tokens of the client are spent
ReadNoMore ==
    /\ Top("reading") /\ ~Reading
    /\ s' = ReadDone(s)
    /\ UNCHANGED <<device, world>>

\* the loop of spice_char_device_start
StartLoop ==
    /\ \/ Top("start") /\ s' = Call(Return(s), <<"write", "wrote">>)
       \/ Top("wrote") /\ s' = Call(Return(s), IF s.got THEN <<"start">> ELSE <<"read", "did_read">>)
       \/ Top("did_read") /\ s' = Call(Return(s), IF s.got THEN <<"start">> ELSE <<>>)
    /\ UNCHANGED <<device, world>>

\* Bug: the queue is emptied without tracking the tokens of its buffers.
ResetQueueForgets ==
    /\ Top("reset") /\ s.queue # <<>>
    /\ s' = [s EXCEPT !.queue = Tail(@)] /\ up' = up
    /\ UNCHANGED <<device, peer, count>>

\* spice_char_device_reset: the buffers are released oldest first ...
ResetQueue ==
    /\ Top("reset") /\ s.queue # <<>>
    /\ Released([s EXCEPT !.queue = Tail(@)], Head(s.queue))
    /\ UNCHANGED <<device, peer, count>>

\* ... and last the one that was being written
ResetCurrent ==
    /\ Top("reset") /\ s.queue = <<>>
    /\ Released([Return(s) EXCEPT !.cur = NoBuf], s.cur)
    /\ UNCHANGED <<device, peer, count>>

\* the rest of reds_agent_remove
Removed(st) ==
    [st EXCEPT !.vdagent = FALSE,
               !.pipe = IF st.conn THEN Append(@, ToClient("DISCONNECTED", 0)) ELSE @]
AgentRemoved ==
    /\ Top("removed")
    /\ s' = Removed(Return(s))
    /\ UNCHANGED <<device, world>>

\* the rest of reds_client_disconnect, and of reds_on_main_agent_start
Goodbye ==
    /\ Top("goodbye")
    /\ s' = WriteBufferAdd(Return(s), "no_token")
    /\ UNCHANGED <<device, world>>

Accept ==
    /\ Top("accept")
    /\ s' = [Return(s) EXCEPT !.accept = TRUE]
    /\ UNCHANGED <<device, world>>

-----------------------------------------------------------------------------
(* Events of the device.  qemu may also report them from within its read and   *)
(* write, which then call spice_char_device_wakeup recursively.               *)

InDevice == Quiet \/ Writing \/ Reading \/ Top("write_refused") \/ Top("read_failed")
Inside(st) == IF Writing THEN Taken(st) ELSE st

\* the guest reads from its port
GuestReads ==
    /\ InDevice /\ s.vdagent /\ room < Room
    /\ room' = room + 1
    /\ s' = Call(Inside(s), IF mode.notify THEN Wakeup ELSE <<>>)
    /\ UNCHANGED <<agent, mode, world>>

\* the agent writes a message
GuestWrites ==
    /\ InDevice /\ s.vdagent /\ count.agent < mode.agent
    /\ agent' = agent + 1
    /\ count' = [count EXCEPT !.agent = @ + 1]
    /\ s' = Call(Inside(s), Wakeup)
    /\ UNCHANGED <<room, mode, up, peer>>

\* spice_char_dev_write_retry
WriteRetry ==
    /\ Quiet /\ s.retry
    /\ s' = Call([s EXCEPT !.retry = FALSE], <<"write">>)
    /\ UNCHANGED <<device, world>>

\* spice_server_char_device_add_interface, attach_to_red_agent
Attach ==
    /\ Quiet /\ ~s.vdagent /\ count.plugs < mode.plugs
    /\ count' = [count EXCEPT !.plugs = @ + 1]
    /\ LET t == [(IF s.base THEN s ELSE Create(s)) EXCEPT !.vdagent = TRUE,
                     !.pipe = IF s.conn THEN Append(@, ToClient("CONNECTED", Window))
                              ELSE @]
       IN  s' = IF s.vm THEN Call([t EXCEPT !.running = TRUE], <<"start">>) ELSE t
    /\ room' = Room /\ agent' = 0
    /\ UNCHANGED <<mode, up, peer>>

\* red_channel_test_remote_cap: every client that is connected has the cap
TestRemoteCap == s.conn => mode.caps

\* reds_agent_remove, reds_reset_vdp
Detach ==
    /\ Quiet /\ s.vdagent
    /\ LET t == [s EXCEPT !.started = FALSE, !.accept = FALSE]
       IN  s' = IF TestRemoteCap THEN Removed(Destroy(t))
                ELSE Call(Stop(t), <<"reset", "removed">>)
    /\ room' = Room /\ agent' = 0
    /\ UNCHANGED <<mode, world>>

\* spice_server_vm_stop, spice_char_device_stop
VmStop ==
    /\ Quiet /\ s.vm /\ count.stops < mode.stops
    /\ count' = [count EXCEPT !.stops = @ + 1]
    /\ s' = Stop([s EXCEPT !.vm = FALSE])
    /\ UNCHANGED <<device, up, peer>>

\* spice_server_vm_start, spice_char_device_start
VmStart ==
    /\ Quiet /\ ~s.vm
    /\ LET t == [s EXCEPT !.vm = TRUE]
       IN  s' = IF s.base THEN Call([t EXCEPT !.running = TRUE], <<"start">>) ELSE t
    /\ UNCHANGED <<device, world>>

-----------------------------------------------------------------------------
(* Events of the channels.                                                  *)

\* reds_handle_main_link, main_channel_push_init
Connect ==
    /\ Quiet /\ ~s.conn /\ count.conns < mode.conns
    /\ count' = [count EXCEPT !.conns = @ + 1]
    /\ s' = [s EXCEPT !.conn = TRUE, !.pipe =
                 <<ToClient(IF s.vdagent THEN "INIT_AGENT" ELSE "INIT", Window)>>]
    /\ up' = <<>> /\ peer' = [tok |-> 0, agent |-> FALSE, owed |-> 0]
    /\ UNCHANGED device

\* red_peer_handle_incoming finds the stream closed, and gives up the message
\* it was receiving
ReadError ==
    /\ Quiet /\ s.conn
    /\ LET t == IF s.msg = "none" THEN s ELSE ReleaseAgentDataBuffer(s)
       IN  s' = IF t.fault = "none" THEN ClientDisconnect(t) ELSE t
    /\ up' = <<>>
    /\ UNCHANGED <<device, peer, count>>

\* red_peer_handle_outgoing or the connectivity timer gives the client up, or
\* another client connects (reds_disconnect)
WriteError ==
    /\ Quiet /\ s.conn
    /\ s' = ClientDisconnect(s)
    /\ up' = <<>>
    /\ UNCHANGED <<device, peer, count>>

\* vdi_port_read_buf_release: a message of the agent is written to the client
AgentDataSent ==
    /\ Quiet \/ Reading
    /\ s.out > 0
    /\ s' = Call([s EXCEPT !.out = @ - 1, !.bufs = @ + 1], IF s.base THEN Wakeup ELSE <<>>)
    /\ peer' = [peer EXCEPT !.owed = @ + 1]
    /\ UNCHANGED <<device, up, count>>

Received(type) == s.conn /\ up # <<>> /\ Head(up) = type /\ s.msg = "none"

\* reds_on_main_agent_start
OnAgentStart ==
    /\ Quiet /\ Received("START")
    /\ up' = Tail(up)
    /\ LET t == Call([s EXCEPT !.started = TRUE], <<"accept">>)
       IN  s' = IF ~s.vdagent THEN s
                ELSE IF s.client THEN TokensAbsorb([t EXCEPT !.send = 0], SendTokens)
                ELSE ClientAdd(t)
    /\ UNCHANGED <<device, peer, count>>

\* reds_on_main_agent_tokens
OnAgentTokens ==
    /\ Quiet /\ Received("TOKEN")
    /\ up' = Tail(up)
    /\ s' = IF ~s.vdagent THEN s
            ELSE IF ~s.client THEN Fail(s, "client wasn't found")
            ELSE TokensAbsorb(s, 1)
    /\ UNCHANGED <<device, peer, count>>

\* reds_get_agent_data_buffer
GetAgentDataBuffer ==
    /\ Quiet /\ Received("DATA")
    /\ s' = IF ~s.started THEN [s EXCEPT !.msg = "malloc"]
            ELSE IF s.held # 0 THEN Fail(s, "recv_from_client_buf")
            ELSE ClientBufferGet(s)
    /\ UNCHANGED <<device, world>>

\* reds_on_main_agent_data, and the release_msg_buf after it
OnAgentData ==
    /\ Idle /\ s.msg # "none" /\ s.conn /\ up # <<>>
    /\ up' = Tail(up)
    /\ s' = IF ~s.accept THEN ReleaseAgentDataBuffer(s)
            ELSE IF s.held = 0 \/ s.msg # "buf" THEN Fail(s, "message is not the buffer")
            ELSE WriteBufferAdd([s EXCEPT !.held = 0, !.msg = "none"], "client")
    /\ UNCHANGED <<device, peer, count>>

\* inputs.c: in the client mouse mode, which needs the agent
MouseEvent ==
    /\ Quiet /\ s.conn /\ s.vdagent /\ count.mouse < mode.mouse
    /\ count' = [count EXCEPT !.mouse = @ + 1]
    /\ s' = AgentMouseEvent(s)
    /\ UNCHANGED <<device, up, peer>>

-----------------------------------------------------------------------------
(* The client (spice-gtk, channel-main.c).                                   *)

\* main_handle_init, main_handle_agent_connected(_tokens), agent_start,
\* agent_stopped, main_handle_agent_token
PeerReceives ==
    /\ Quiet /\ s.conn /\ s.pipe # <<>>
    /\ LET m == Head(s.pipe)
           start == m.type \in {"INIT_AGENT", "CONNECTED"}
       IN  /\ peer' = [peer EXCEPT !.agent = @ \/ start, !.tok =
                   CASE m.type \in {"INIT", "INIT_AGENT"} -> m.n
                     [] m.type = "CONNECTED" /\ mode.caps -> m.n
                     [] m.type = "TOKEN" -> @ + m.n
                     [] OTHER -> @]
           /\ up' = IF start THEN Append(up, "START") ELSE up
    /\ s' = [s EXCEPT !.pipe = Tail(@)]
    /\ UNCHANGED <<device, count>>

\* agent_send_msg_queue
PeerSends ==
    /\ Quiet /\ s.conn /\ peer.agent /\ peer.tok > 0 /\ count.data < mode.data
    /\ count' = [count EXCEPT !.data = @ + 1]
    /\ peer' = [peer EXCEPT !.tok = @ - 1]
    /\ up' = Append(up, "DATA")
    /\ UNCHANGED <<s, device>>

\* a client that gave few tokens in AGENT_START gives back the ones it used
PeerReturnsToken ==
    /\ Quiet /\ s.conn /\ peer.owed > 0
    /\ peer' = [peer EXCEPT !.owed = @ - 1]
    /\ up' = Append(up, "TOKEN")
    /\ UNCHANGED <<s, device, count>>

\* abort(): spice_assert and spice_error end the process
Aborted == ~Alive /\ UNCHANGED vars

\* nobody is left within the bounds
Over ==
    /\ Idle /\ s.vm /\ ~s.vdagent /\ ~s.conn
    /\ count.plugs = mode.plugs /\ count.conns = mode.conns /\ count.stops = mode.stops
    /\ UNCHANGED vars

Server == CallWrite \/ WriteNothingLeft \/ WriteBuffer \/ WriteRefused \/ WriteBlocked
          \/ CallRead \/ ReadDiscarded \/ ReadMessage \/ ReadFails \/ ReadNull \/ ReadNoMore
          \/ StartLoop \/ ResetQueue \/ ResetCurrent \/ AgentRemoved \/ Goodbye \/ Accept

Device == GuestReads \/ GuestWrites \/ WriteRetry \/ Attach \/ Detach \/ VmStop \/ VmStart

Channel == Connect \/ ReadError \/ WriteError \/ AgentDataSent \/ OnAgentStart \/ OnAgentTokens
           \/ GetAgentDataBuffer \/ OnAgentData \/ MouseEvent

Peer == PeerReceives \/ PeerSends \/ PeerReturnsToken

Next == Server \/ Device \/ Channel \/ Peer \/ Aborted \/ Over

Spec == Init /\ [][Next]_vars

\* The main thread goes on with the calls under way and serves the events it
\* finds: each event in Serve uses up something, so that none can starve another.
\* The guest reads its port again and again, and the client reads the channel
\* and returns the tokens it used.
Serve == AgentDataSent \/ OnAgentStart \/ OnAgentTokens \/ GetAgentDataBuffer
         \/ OnAgentData \/ PeerReceives \/ PeerReturnsToken

Fairness ==
    /\ WF_vars(Server) /\ SF_vars(Serve) /\ SF_vars(WriteRetry) /\ SF_vars(GuestReads)

FairSpec == Spec /\ Fairness

-----------------------------------------------------------------------------
(* Properties.                                                              *)

\* The server's state has the types of SpiceCharDeviceState and VDIPortState.
TypeOK ==
    /\ {s.vdagent, s.vm, s.conn, s.base, s.running, s.active, s.retry, s.client, s.didW,
         s.didR, s.got, s.started, s.accept, s.mouse} \subseteq BOOLEAN
    /\ s.queue \in Seq(Origins) /\ s.cur \in Origins \cup {NoBuf}
    /\ s.self \in 0 .. SelfTokens /\ {s.busyW, s.busyR} \subseteq 0 .. 2
    /\ {s.tok, s.free} \subseteq 0 .. Window /\ {s.send, s.left} \subseteq Nat
    /\ s.held \in 0 .. mode.conns /\ s.msg \in {"none", "malloc", "buf"}
    /\ {s.bufs, s.out} \subseteq 0 .. ReadBufs
    /\ room \in 0 .. Room /\ agent \in 0 .. mode.agent

Queued(origin) == Count(s.queue, {origin}) + One(s.cur = origin)

\* Every token of the client's window is somewhere: with the client, consumed and
\* not returned yet, or paid for a buffer that is being received, queued or
\* written.  spice_char_device_reset, a partial write, a disconnection and the
\* return of several tokens at once lose none and make none up.
TokenAccounting ==
    s.base /\ s.client =>
        s.tok + s.free + Queued("client") + (IF s.held = count.conns THEN 1 ELSE 0) = Window

\* The same for the tokens of the server's own messages, and for the buffers the
\* agent's messages are read into.
SelfAccounting ==
    /\ s.base => s.self + Queued("server") = SelfTokens
    /\ s.bufs + s.out = ReadBufs

\* When the main thread waits for events, what is left to write will be tried
\* again: the timer runs, or the device is full and will report that it is not.
\* No wakeup that comes from within a write gets lost.
WriteRetried ==
    Idle /\ Eligible /\ (s.cur # NoBuf \/ s.queue # <<>>) =>
        s.retry \/ (mode.notify /\ room = 0)

\* When the main thread waits for events, a message of the agent stays in the
\* device only for want of the client's tokens or of a buffer.  No wakeup that
\* comes from within a read gets lost, nor the one of a buffer that is freed.
ReadRetried ==
    Idle /\ Eligible /\ agent > 0 /\ s.bufs > 0 /\ s.client => s.send = 0

\* A token that becomes free while a mouse event is pending goes to that event,
\* from within a write and from within spice_char_device_reset too.
MouseServed ==
    [][s.base /\ s'.base /\ s.mouse /\ s.self = 0 /\ s'.self > 0 => ~s'.mouse]_vars

\* No spice_assert and no spice_error of these files is reached, and no honest
\* client is caught with a token violation, as long as the device state outlives
\* the agent: when it is made anew a late AGENT_TOKEN finds no client in it.
NeverAborts == mode.caps \/ mode.split \/ Alive

\* What is queued for the device of a running machine is written.
WritesDrain == Eligible /\ Queued("client") + Queued("no_token") + Queued("server") > 0
                 ~> ~Eligible \/ ~Alive \/ (s.queue = <<>> /\ s.cur = NoBuf)

\* A message of the agent reaches the client.
AgentHeard == Eligible /\ s.client /\ agent > 0 ~> agent = 0 \/ ~Eligible \/ ~s.client \/ ~Alive

-----------------------------------------------------------------------------
(* What an assert of the code says and the code does not keep.              *)

\* reds.c: recv_from_client_buf is NULL when a message begins to arrive.
NoBufferLeft == s.fault # "recv_from_client_buf"

=============================================================================
