-------------------------- MODULE RedChannelClient --------------------------
(***************************************************************************)
(* One RedChannelClient of spice-server (server/red_channel.c) together     *)
(* with the peer that reads its stream (spice-gtk, spice-channel.c).        *)
(*                                                                         *)
(* The server side is one thread: a handler (an event, a timer, an API      *)
(* call) runs while pc = "idle"; if it calls red_channel_client_push, pc    *)
(* follows the push loop ("push": about to take an item from the pipe,      *)
(* "write": inside red_peer_handle_outgoing) until the loop ends, and only  *)
(* then can the next handler run.  The peer and the transport interleave    *)
(* with every step.                                                        *)
(*                                                                         *)
(* Data abstraction: a message is its kind (and the generation, for         *)
(* SET_ACK); send_data.size # 0 is `out # NoMsg'; byte counters of the      *)
(* connectivity monitor are "zero or not".                                 *)
(***************************************************************************)
EXTENDS Integers, Sequences, FiniteSets, SequencesExt, SequenceParts

CONSTANTS
    HandleAcks,      \* RedChannel.handle_acks: TRUE for display and cursor
    MonitorLatency,  \* the channel client has a ping timer
    MonitorConn,     \* start_connectivity_monitoring may be called
    CanMigrate,      \* client_cbs.migrate may be called
    Window,          \* ack_data.client_window
    Modulus,         \* 2^32 in the code: ack_data.messages_window is a uint32_t
    ItemKinds,       \* the kinds of channel items this instance adds
    SockCap,         \* messages the transport holds before writev says EAGAIN
    MaxItems,        \* bound: channel items added over a behaviour
    MaxSetAck,       \* bound: SET_ACK items added
    MaxPingRounds    \* bound: latency tests started

ASSUME ConstantsAssumption ==
    /\ HandleAcks \in BOOLEAN /\ MonitorLatency \in BOOLEAN
    /\ MonitorConn \in BOOLEAN /\ CanMigrate \in BOOLEAN
    /\ Window \in Nat \ {0}
    /\ Modulus \in Nat /\ Modulus > 2 * Window + 3
    /\ SockCap \in Nat \ {0}
    /\ MaxItems \in Nat /\ MaxSetAck \in Nat /\ MaxPingRounds \in Nat

\* What a channel's send_item callback does with an item: "data" marshals a
\* message that holds the item until it is written, "data_inval" needs an
\* urgent message (INVAL_LIST) in front of it, "empty" holds nothing, "nothing"
\* marshals nothing (a frame that was dropped), and "data_deps" marshals nothing
\* but puts itself back into the pipe behind the image it depends on.
ChannelItems == {"data", "data_inval", "empty", "nothing", "data_deps"}

ASSUME ItemKindsAssumption == ItemKinds \subseteq ChannelItems

PipeItems == ChannelItems \cup {"SET_ACK", "PING", "MIGRATE"}

NoMsg  == [type |-> "none", gen |-> 0]
NoItem == "none"
Msg(t) == [type |-> t, gen |-> 0]

MsgTypes == {"SET_ACK", "PING", "MIGRATE", "DATA", "EMPTY", "INVAL_LIST"}
Messages == [type : MsgTypes, gen : Nat]
UpMessages == [type : {"ACK_SYNC", "ACK", "PONG", "FLUSH_MARK"}, gen : Nat]

PingStates == {"NONE", "TIMER", "WARMUP", "LATENCY"}
ConnStates == {"CONNECTED", "BLOCKED", "WAIT_PONG", "DISCONNECTED"}

VARIABLES
    \* the server's RedChannelClient
    connected,    \* stream # NULL
    phase,        \* "new", "wait_init" (SET_ACK queued, not opened), "open"
    pipe,         \* the pipe; Head is the ring's tail, the next item to send
    pc,           \* "idle", "push", "write": see above
    awake,        \* the worker handled an event: red_push ends the iteration
    out,          \* the message being written (send_data.size # 0), or NoMsg
    blocked,      \* send_data.blocked, and the WRITE watch
    item,         \* send_data.item: released when the message is written
    active,       \* send_data.marshaller: "main" or "urgent"
    mainMsg,      \* what the main marshaller holds while "urgent" is active
    mainItem,     \* send_data.main.item
    serial,       \* send_data.serial
    lastSerial,   \* send_data.last_sent_serial
    window,       \* ack_data.messages_window
    gen,          \* ack_data.generation
    clientGen,    \* ack_data.client_generation (-1 is ~0)
    waitFlush,    \* wait_migrate_flush_mark
    \* latency_monitor and connectivity_monitor
    pingTimer,    \* latency_monitor.timer # NULL
    pingArmed,    \* the timer is started
    pingState,
    connTimer,    \* connectivity_monitor.timer # NULL
    connState,
    inBytes, outBytes,   \* whether bytes were counted since the last check
    \* transport and peer
    down, up,     \* the two directions of the stream
    ackWindow, ackCount, \* message_ack_window, message_ack_count of the peer
    inSerial,     \* in_serial of the peer: messages received
    \* bounds
    added, setAcks, pingRounds, migrated

sendVars == <<out, blocked, item, active, mainMsg, mainItem, serial, lastSerial>>
ackVars  == <<window, gen, clientGen>>
pingVars == <<pingTimer, pingArmed, pingState>>
connVars == <<connTimer, connState, inBytes, outBytes>>
peerVars == <<ackWindow, ackCount, inSerial>>
boundVars == <<added, setAcks, pingRounds, migrated>>
vars == <<connected, phase, pipe, pc, awake, sendVars, ackVars, waitFlush,
          pingVars, connVars, down, up, peerVars, boundVars>>

\* red_channel_client_create.  messages_window = ~0 keeps the pipe shut.
Init ==
    /\ connected = TRUE /\ phase = "new" /\ pipe = <<>>
    /\ pc = "idle" /\ awake = FALSE
    /\ out = NoMsg /\ blocked = FALSE /\ item = NoItem
    /\ active = "main" /\ mainMsg = NoMsg /\ mainItem = NoItem
    /\ serial = 0 /\ lastSerial = 0
    /\ window = Modulus - 1 /\ gen = 0 /\ clientGen = -1
    /\ waitFlush = FALSE
    /\ pingTimer = MonitorLatency /\ pingArmed = MonitorLatency
    /\ pingState = IF MonitorLatency THEN "TIMER" ELSE "NONE"
    /\ connTimer = FALSE /\ connState = "CONNECTED"
    /\ inBytes = FALSE /\ outBytes = FALSE
    /\ down = <<>> /\ up = <<>>
    /\ ackWindow = 0 /\ ackCount = 0 /\ inSerial = 0
    /\ added = 0 /\ setAcks = 0 /\ pingRounds = 0 /\ migrated = FALSE

-----------------------------------------------------------------------------
(* Helpers shared by the handlers. *)

\* ... one message late
WaitingForAckLate == HandleAcks /\ window > 2 * Window + 1

\* red_channel_client_waiting_for_ack
WaitingForAck == HandleAcks /\ window > 2 * Window

\* a loop that forgets send_data.blocked
ItemToGetBlocked == ~WaitingForAck /\ pipe # <<>>

\* red_channel_client_pipe_item_get has something to return
ItemToGet == ~blocked /\ ~WaitingForAck /\ pipe # <<>>

\* red_channel_client_push, entered with pipe p: during_send is set, a blocked
\* message is retried first, and "an item waiting to be sent and not blocked"
\* is turned into a blocked one.
StartPush(p) ==
    /\ pipe' = p
    /\ pc' = IF blocked THEN "write" ELSE "push"
    /\ blocked' = (blocked \/ out # NoMsg)
    /\ UNCHANGED <<out, item, active, mainMsg, mainItem, serial, lastSerial>>

\* ... that leaves latency_monitor.state as it is
StartPingTimerOnly(state) == pingArmed' = pingTimer /\ UNCHANGED pingState

\* red_channel_client_start_ping_timer
StartPingTimer(state) ==
    IF pingTimer /\ state = "NONE"
    THEN pingState' = "TIMER" /\ pingArmed' = TRUE
    ELSE pingState' = state /\ UNCHANGED pingArmed

\* red_channel_client_cancel_ping_timer
CancelPingTimer ==
    IF pingTimer /\ pingState = "TIMER"
    THEN pingState' = "NONE" /\ pingArmed' = FALSE
    ELSE UNCHANGED <<pingState, pingArmed>>

\* ... that never takes a serial back
ResetSerialAlways(s, marshaller) == s + 1

\* The serial that red_channel_client_reset_send_data leaves, from serial s:
\* a serial that was never sent is taken back, unless it belongs to the main
\* message and the urgent marshaller is being reset.
ResetSerial(s, marshaller) ==
    IF lastSerial # s /\ marshaller = "main" THEN lastSerial + 1 ELSE s + 1

\* ... on a counter that does not wrap
BeginSendUnbounded(msg, s, w) ==
    /\ out' = msg
    /\ lastSerial' = s
    /\ window' = w + 1
    /\ pc' = "write"

\* The three assignments of red_channel_client_begin_send_message, after which
\* it calls red_channel_client_send.
BeginSend(msg, s, w) ==
    /\ out' = msg
    /\ lastSerial' = s
    /\ window' = (w + 1) % Modulus
    /\ pc' = "write"

\* a disconnect that forgets the message being written
KeepSentItem == UNCHANGED <<out, blocked, item>>

\* red_channel_client_clear_sent_item
ClearSentItem == out' = NoMsg /\ blocked' = FALSE /\ item' = NoItem

\* red_channel_client_disconnect (pipe_clear included)
Disconnect ==
    /\ connected' = FALSE
    /\ pipe' = <<>>
    /\ ClearSentItem
    /\ pingTimer' = FALSE /\ pingArmed' = FALSE /\ connTimer' = FALSE
    /\ down' = <<>> /\ up' = <<>>
    /\ UNCHANGED <<active, mainMsg, mainItem, serial, lastSerial, pingState,
                   inBytes, outBytes>>

-----------------------------------------------------------------------------
(* The push loop: red_channel_client_push and what it calls. *)

\* red_add_lossless_drawable_dependencies, from inside the send_item callback:
\* red_channel_client_pipe_add_tail of the drawable (whose own call of
\* red_channel_client_push returns at once, during_send being set) and
\* pipe_add_after of the image that has to reach the peer first.
Requeued(k) == IF k = "data_deps" THEN <<"data", "data">> ELSE <<>>

\* red_channel_client_send_migrate waits for the flush mark
ExpectFlushMark(k) == waitFlush' = (waitFlush \/ k = "MIGRATE")

\* One turn of the loop: pipe_item_get, send_item, reset_send_data, and the
\* marshalling up to begin_send_message.
SendItem ==
    /\ pc = "push" /\ ItemToGet
    /\ LET k  == Head(pipe)
           s1 == ResetSerial(serial, active)
       IN /\ pipe' = Requeued(k) \o Tail(pipe)
          /\ \/ /\ k \in {"nothing", "data_deps"}
                /\ serial' = s1
                /\ UNCHANGED <<pc, out, item, active, mainMsg, mainItem,
                               lastSerial, ackVars, waitFlush, pingVars>>
             \/ /\ k = "SET_ACK"
                /\ gen' = gen + 1
                /\ serial' = s1
                /\ BeginSend([type |-> "SET_ACK", gen |-> gen + 1], s1, 0)
                /\ CancelPingTimer
                /\ UNCHANGED <<item, active, mainMsg, mainItem, clientGen,
                               waitFlush, pingTimer>>
             \/ /\ k \in {"PING", "MIGRATE", "empty", "data"}
                /\ serial' = s1
                /\ BeginSend(Msg(IF k = "empty" THEN "EMPTY"
                                 ELSE IF k = "data" THEN "DATA" ELSE k),
                             s1, window)
                /\ item' = IF k = "data" THEN k ELSE item
                /\ ExpectFlushMark(k)
                /\ CancelPingTimer
                /\ UNCHANGED <<active, mainMsg, mainItem, gen, clientGen,
                               pingTimer>>
             \/ \* display_begin_send_message with a free list to announce:
                \* red_channel_client_switch_to_urgent_sender
                /\ k = "data_inval"
                /\ active' = "urgent"
                /\ mainMsg' = Msg("DATA") /\ mainItem' = k
                /\ serial' = ResetSerial(s1, "urgent")
                /\ BeginSend(Msg("INVAL_LIST"), ResetSerial(s1, "urgent"), window)
                /\ CancelPingTimer
                /\ UNCHANGED <<item, gen, clientGen, waitFlush, pingTimer>>
    /\ UNCHANGED <<connected, phase, awake, blocked, connVars, down, up,
                   peerVars, boundVars>>

\* red_peer_handle_outgoing wrote the last byte: red_channel_peer_on_out_msg_done.
\* An urgent message is followed at once by the main one it was put in front of.
WriteDone ==
    /\ pc = "write" /\ Len(down) < SockCap
    /\ down' = Append(down, out)
    /\ outBytes' = (outBytes \/ connTimer)
    /\ blocked' = FALSE
    /\ IF active = "urgent"
       THEN \* red_channel_client_restore_main_sender, begin_send_message
            /\ active' = "main"
            /\ item' = mainItem
            /\ BeginSend(mainMsg, serial, window)
            /\ CancelPingTimer
       ELSE /\ out' = NoMsg /\ item' = NoItem
            /\ IF pipe = <<>> THEN StartPingTimer(pingState)
                              ELSE UNCHANGED <<pingState, pingArmed>>
            /\ pc' = "push"
            /\ UNCHANGED <<active, lastSerial, window>>
    /\ UNCHANGED <<connected, phase, pipe, awake, mainMsg, mainItem, serial, gen,
                   clientGen, waitFlush, pingTimer, connTimer, connState, inBytes,
                   up, peerVars, boundVars>>

\* writev returned EAGAIN, perhaps after part of the message:
\* red_channel_client_peer_on_out_block.  The transport still holds something,
\* so the WRITE watch will fire once the peer has read it.
WriteBlocks ==
    /\ pc = "write" /\ down # <<>>
    /\ blocked' = TRUE
    /\ \E some \in BOOLEAN : outBytes' = (outBytes \/ (some /\ connTimer))
    /\ pc' = "push"
    /\ UNCHANGED <<connected, phase, pipe, awake, out, item, active, mainMsg,
                   mainItem, serial, lastSerial, ackVars, waitFlush, pingVars,
                   connTimer, connState, inBytes, down, up, peerVars, boundVars>>

\* writev failed: on_error, which disconnects in the middle of the push loop
WriteError ==
    /\ pc = "write"
    /\ Disconnect
    /\ pc' = "push"
    /\ UNCHANGED <<phase, awake, ackVars, waitFlush, connState, peerVars, boundVars>>

\* The loop finds nothing it may send; during_send is cleared.
PushEnds ==
    /\ pc = "push" /\ ~ItemToGet
    /\ pc' = "idle"
    /\ UNCHANGED <<connected, phase, pipe, awake, sendVars, ackVars, waitFlush,
                   pingVars, connVars, down, up, peerVars, boundVars>>

-----------------------------------------------------------------------------
(* Handlers that end in red_channel_client_push. *)

\* the handler that created the channel client calls its on_new_... function
\* before it returns, so nothing else runs in phase "new"
Created == pc = "idle" /\ connected /\ phase = "new"
Handler == pc = "idle" /\ connected /\ phase # "new"
Wake == awake' = HandleAcks

\* on_new_display_channel_client up to display_channel_client_wait_for_init
OnNewDisplayClient ==
    /\ Created /\ HandleAcks
    /\ phase' = "wait_init"
    /\ StartPush(Append(pipe, "SET_ACK")) /\ setAcks' = setAcks + 1
    /\ Wake
    /\ UNCHANGED <<connected, ackVars, waitFlush, pingVars, connVars, down, up,
                   peerVars, added, pingRounds, migrated>>

\* DISPLAY_INIT or the migration data arrived: ack_zero_messages_window
DisplayInitDone ==
    /\ Handler /\ phase = "wait_init"
    /\ phase' = "open"
    /\ window' = 0
    /\ Wake
    /\ UNCHANGED <<connected, pipe, pc, sendVars, gen, clientGen, waitFlush,
                   pingVars, connVars, down, up, peerVars, boundVars>>

\* on_new_cursor_channel: zero the window, then push SET_ACK
OnNewCursorClient ==
    /\ Created /\ HandleAcks
    /\ phase' = "open"
    /\ window' = 0
    /\ StartPush(Append(pipe, "SET_ACK")) /\ setAcks' = setAcks + 1
    /\ Wake
    /\ UNCHANGED <<connected, gen, clientGen, waitFlush, pingVars, connVars,
                   down, up, peerVars, added, pingRounds, migrated>>

\* a channel that does not handle acks is open as soon as it is created
OnNewOtherClient ==
    /\ Created /\ ~HandleAcks
    /\ phase' = "open"
    /\ UNCHANGED <<connected, pipe, pc, awake, sendVars, ackVars, waitFlush,
                   pingVars, connVars, down, up, peerVars, boundVars>>

\* red_channel_client_push_set_ack on an open channel
PushSetAck ==
    /\ Handler /\ HandleAcks /\ phase = "open" /\ setAcks < MaxSetAck
    /\ StartPush(Append(pipe, "SET_ACK")) /\ setAcks' = setAcks + 1
    /\ Wake
    /\ UNCHANGED <<connected, phase, ackVars, waitFlush, pingVars, connVars,
                   down, up, peerVars, added, pingRounds, migrated>>

\* red_channel_client_pipe_add_push, pipe_add_type and pipe_add_empty_msg
PipeAddPush(k) ==
    /\ Handler /\ added < MaxItems
    /\ StartPush(Append(pipe, k))
    /\ added' = added + 1
    /\ Wake
    /\ UNCHANGED <<connected, phase, ackVars, waitFlush, pingVars, connVars,
                   down, up, peerVars, setAcks, pingRounds, migrated>>

\* red_channel_client_pipe_add (n = Len(pipe): sent last) and
\* red_channel_client_pipe_add_after a drawable (sent just before it): no push,
\* the worker's red_push is relied on.  n items leave before the new one.
PipeAdd(k, n) ==
    /\ Handler /\ HandleAcks /\ added < MaxItems
    /\ n < Len(pipe) => pipe[n + 1] \in ChannelItems
    /\ pipe' = InsertAt(pipe, n + 1, k)
    /\ added' = added + 1
    /\ Wake
    /\ UNCHANGED <<connected, phase, pc, sendVars, ackVars, waitFlush, pingVars,
                   connVars, down, up, peerVars, setAcks, pingRounds, migrated>>

\* red_channel_client_pipe_remove_and_release of a channel item
PipeRemove(i) ==
    /\ Handler /\ pipe[i] \in ChannelItems
    /\ pipe' = RemoveAt(pipe, i)
    /\ Wake
    /\ UNCHANGED <<connected, phase, pc, sendVars, ackVars, waitFlush, pingVars,
                   connVars, down, up, peerVars, boundVars>>

\* the end of an iteration of the worker's loop: red_push(worker)
RedPush ==
    /\ Handler /\ awake
    /\ awake' = FALSE
    /\ StartPush(pipe)
    /\ UNCHANGED <<connected, phase, ackVars, waitFlush, pingVars, connVars,
                   down, up, peerVars, boundVars>>

\* red_channel_client_event with SPICE_WATCH_EVENT_WRITE: POLLOUT on a stream
\* whose watch was set by on_out_block
WriteEvent ==
    /\ Handler /\ blocked /\ Len(down) < SockCap
    /\ StartPush(pipe)
    /\ Wake
    /\ UNCHANGED <<connected, phase, ackVars, waitFlush, pingVars, connVars,
                   down, up, peerVars, boundVars>>

-----------------------------------------------------------------------------
(* red_channel_client_event with SPICE_WATCH_EVENT_READ: one message of      *)
(* red_peer_handle_incoming and red_channel_client_handle_message.           *)

Receive(t) ==
    /\ Handler /\ up # <<>> /\ Head(up).type = t
    /\ up' = Tail(up)
    /\ inBytes' = (inBytes \/ connTimer)
    /\ Wake
    /\ UNCHANGED <<connected, phase, connTimer, connState, outBytes, down,
                   peerVars, boundVars>>

HandleAckSync ==
    /\ Receive("ACK_SYNC")
    /\ clientGen' = Head(up).gen
    /\ UNCHANGED <<pipe, pc, sendVars, window, gen, waitFlush, pingVars>>

\* ... whatever the generation
AnyAckCounts == TRUE

\* the peer has answered the last SET_ACK: its ACKs belong to this count
AckCounts == clientGen = gen

\* an ACK that opens nothing
SameWindow == window

\* messages_window -= client_window
AckedWindow == (window - Window) % Modulus

HandleAck ==
    /\ Receive("ACK")
    /\ IF AckCounts
       THEN window' = AckedWindow /\ StartPush(pipe)
       ELSE UNCHANGED <<window, pipe, pc, sendVars>>
    /\ UNCHANGED <<gen, clientGen, waitFlush, pingVars>>

\* Without wait_migrate_flush_mark the code calls spice_error and returns FALSE
HandleFlushMark ==
    /\ Receive("FLUSH_MARK") /\ waitFlush
    /\ waitFlush' = FALSE
    /\ UNCHANGED <<pipe, pc, sendVars, ackVars, pingVars>>

\* red_channel_client_handle_pong: a pong nobody waits for is ignored
HandlePong ==
    /\ Receive("PONG")
    /\ \/ /\ pingState = "WARMUP"
          /\ pingState' = "LATENCY" /\ UNCHANGED pingArmed
       \/ pingState = "LATENCY" /\ StartPingTimer("NONE")
       \/ /\ pingState \in {"NONE", "TIMER"}
          /\ UNCHANGED <<pingState, pingArmed>>
    /\ UNCHANGED <<pipe, pc, sendVars, ackVars, waitFlush, pingTimer>>

-----------------------------------------------------------------------------
(* Timers, migration, errors. *)

\* ... that leaves the timer running
PushPingArmed == pingState' = "WARMUP" /\ UNCHANGED pingArmed

\* red_channel_client_push_ping: the state of the monitor, the timer cancelled
PushPing == pingState' = "WARMUP" /\ pingArmed' = FALSE

\* red_channel_client_ping_timer: `unsent' is what ioctl(SIOCOUTQ) reports.
\* push_ping queues the two PINGs of a latency test.
PingTimer ==
    /\ Handler /\ pingArmed
    /\ \E unsent \in BOOLEAN :
         IF unsent
         THEN /\ UNCHANGED <<pingState, pingArmed, pipe, pc, sendVars, pingRounds>>
         ELSE /\ pingRounds < MaxPingRounds
              /\ pingRounds' = pingRounds + 1
              /\ PushPing
              /\ StartPush(pipe \o <<"PING", "PING">>)
    /\ Wake
    /\ UNCHANGED <<connected, phase, ackVars, waitFlush, pingTimer, connVars,
                   down, up, peerVars, added, setAcks, migrated>>

\* red_channel_client_start_connectivity_monitoring
StartConnectivityMonitoring ==
    /\ Handler /\ MonitorConn /\ ~connTimer /\ phase = "open"
    /\ pingTimer' = TRUE
    /\ IF pingTimer \/ pingState # "NONE"
       THEN UNCHANGED <<pingState, pingArmed>>
       ELSE pingState' = "TIMER" /\ pingArmed' = TRUE
    /\ connTimer' = TRUE /\ connState' = "CONNECTED"
    /\ Wake
    /\ UNCHANGED <<connected, phase, pipe, pc, sendVars, ackVars, waitFlush,
                   inBytes, outBytes, down, up, peerVars, boundVars>>

\* ... that looks at what was written only
ConnIdleOutput ==
    \/ connState = "BLOCKED" /\ ~outBytes
    \/ connState = "WAIT_PONG" /\ ~outBytes

\* The connection was idle since the previous connectivity_timer and the state
\* recorded then says the peer owes us something.
ConnIdle ==
    \/ connState = "BLOCKED" /\ ~inBytes /\ ~outBytes
    \/ connState = "WAIT_PONG" /\ ~inBytes

\* red_channel_client_connectivity_timer finds the connection alive
ConnectivityAlive ==
    /\ Handler /\ connTimer /\ ~ConnIdle
    /\ inBytes' = FALSE /\ outBytes' = FALSE
    /\ connState' = IF blocked \/ WaitingForAck THEN "BLOCKED"
                    ELSE IF pingState \in {"WARMUP", "LATENCY"} THEN "WAIT_PONG"
                    ELSE "CONNECTED"
    /\ Wake
    /\ UNCHANGED <<connected, phase, pipe, pc, sendVars, ackVars, waitFlush,
                   pingVars, connTimer, down, up, peerVars, boundVars>>

\* ... or gives the peer up
ConnectivityDead ==
    /\ Handler /\ connTimer /\ ConnIdle
    /\ connState' = "DISCONNECTED"
    /\ Disconnect
    /\ Wake
    /\ UNCHANGED <<phase, pc, ackVars, waitFlush, peerVars, boundVars>>

\* red_channel_client_default_migrate
DefaultMigrate ==
    /\ Handler /\ CanMigrate /\ phase = "open" /\ ~migrated
    /\ migrated' = TRUE
    /\ pingTimer' = FALSE /\ pingArmed' = FALSE /\ connTimer' = FALSE
    /\ pingState' = IF pingTimer /\ pingState = "TIMER" THEN "NONE" ELSE pingState
    /\ StartPush(Append(pipe, "MIGRATE"))
    /\ Wake
    /\ UNCHANGED <<connected, phase, ackVars, waitFlush, connState, inBytes,
                   outBytes, down, up, peerVars, added, setAcks, pingRounds>>

\* a read error or a message that cannot be handled, or the main thread's
\* disconnect request: red_channel_client_disconnect
PeerError ==
    /\ Handler
    /\ Disconnect
    /\ Wake
    /\ UNCHANGED <<phase, pc, ackVars, waitFlush, connState, peerVars, boundVars>>

-----------------------------------------------------------------------------
(* The peer: spice_channel_recv_msg counts the message for the ack window    *)
(* before it hands it to the handlers of SET_ACK, PING and MIGRATE.          *)

\* spice_channel_handle_set_ack, _handle_ping, _handle_migrate
Reply(m) ==
    IF m.type = "SET_ACK" THEN <<[type |-> "ACK_SYNC", gen |-> m.gen]>>
    ELSE IF m.type = "PING" THEN <<Msg("PONG")>>
    ELSE IF m.type = "MIGRATE" THEN <<Msg("FLUSH_MARK")>>
    ELSE <<>>

PeerReceive ==
    /\ connected /\ down # <<>>
    /\ LET m    == Head(down)
           last == ackCount = 1
       IN /\ up' = up \o (IF last THEN <<Msg("ACK")>> ELSE <<>>) \o Reply(m)
          /\ IF m.type = "SET_ACK"
             THEN ackWindow' = Window /\ ackCount' = Window
             ELSE /\ ackCount' = IF last THEN ackWindow
                                 ELSE IF ackCount = 0 THEN 0 ELSE ackCount - 1
                  /\ UNCHANGED ackWindow
    /\ down' = Tail(down)
    /\ inSerial' = inSerial + 1
    /\ UNCHANGED <<connected, phase, pipe, pc, awake, sendVars, ackVars, waitFlush,
                   pingVars, connVars, boundVars>>

-----------------------------------------------------------------------------
Push == SendItem \/ WriteDone \/ WriteBlocks \/ WriteError \/ PushEnds

OnNewClient == OnNewDisplayClient \/ OnNewCursorClient \/ OnNewOtherClient

Handlers ==
    \/ OnNewClient \/ DisplayInitDone \/ PushSetAck
    \/ \E k \in ItemKinds :
          PipeAddPush(k) \/ \E n \in 0 .. Len(pipe) : PipeAdd(k, n)
    \/ \E i \in 1 .. Len(pipe) : PipeRemove(i)
    \/ RedPush \/ WriteEvent
    \/ HandleAckSync \/ HandleAck \/ HandleFlushMark \/ HandlePong
    \/ PingTimer \/ StartConnectivityMonitoring
    \/ ConnectivityAlive \/ ConnectivityDead \/ DefaultMigrate \/ PeerError

Next == Push \/ Handlers \/ PeerReceive

Spec == Init /\ [][Next]_vars

\* The thread finishes a push loop it has begun, poll reports every ready
\* descriptor on each turn of the loop, red_push ends every turn, and the peer
\* keeps reading.  Nothing forces a write to fail, a timer to fire or an item
\* to be added; display_channel_client_wait_for_init gives up after a timeout.
Fairness ==
    /\ WF_vars(Push) /\ WF_vars(PeerReceive) /\ WF_vars(OnNewClient)
    /\ SF_vars(RedPush) /\ SF_vars(WriteEvent)
    /\ SF_vars(HandleAckSync) /\ SF_vars(HandleAck)
    /\ SF_vars(HandlePong) /\ SF_vars(HandleFlushMark)
    /\ SF_vars(DisplayInitDone)

FairSpec == Spec /\ Fairness

-----------------------------------------------------------------------------
(* Properties. *)

SendTypeOK ==
    /\ connected \in BOOLEAN /\ phase \in {"new", "wait_init", "open"}
    /\ pipe \in Seq(PipeItems)
    /\ pc \in {"idle", "push", "write"} /\ awake \in BOOLEAN
    /\ out \in Messages \cup {NoMsg} /\ blocked \in BOOLEAN
    /\ item \in ChannelItems \cup {NoItem}
    /\ active \in {"main", "urgent"}
    /\ mainMsg \in Messages \cup {NoMsg}
    /\ mainItem \in ChannelItems \cup {NoItem}
    /\ serial \in Nat /\ lastSerial \in Nat

AckTypeOK ==
    /\ window \in 0 .. Modulus - 1
    /\ gen \in Nat /\ clientGen \in Nat \cup {-1}
    /\ waitFlush \in BOOLEAN /\ migrated \in BOOLEAN
    /\ added \in Nat /\ setAcks \in Nat /\ pingRounds \in Nat

MonitorTypeOK ==
    /\ pingTimer \in BOOLEAN /\ pingArmed \in BOOLEAN /\ pingState \in PingStates
    /\ connTimer \in BOOLEAN /\ connState \in ConnStates
    /\ inBytes \in BOOLEAN /\ outBytes \in BOOLEAN

PeerTypeOK ==
    /\ down \in Seq(Messages) /\ up \in Seq(UpMessages)
    /\ ackWindow \in 0 .. Window /\ ackCount \in 0 .. Window
    /\ inSerial \in Nat

TypeOK == SendTypeOK /\ AckTypeOK /\ MonitorTypeOK /\ PeerTypeOK

\* Whenever the push loop takes an item, no message is half written and the
\* main marshaller is the active one: spice_assert(no_item_being_sent) of
\* send_item, init_send_data and switch_to_urgent_sender, and the "an item
\* waiting to be sent and not blocked" branch of red_channel_client_push.  This is
\* the path of the pipe; insert_h264_frame, which calls init_send_data without it,
\* is part of H264Stream (WorkerAlive there).
NoItemBeingSent ==
    /\ pc = "push" /\ ItemToGet => out = NoMsg /\ active = "main"
    /\ pc = "idle" => (blocked <=> out # NoMsg)

\* A disconnected channel client holds nothing more to send, wherever in the
\* push loop the disconnect came from: the asserts of red_client_destroy.
DisconnectedIsEmpty ==
    ~connected => pipe = <<>> /\ out = NoMsg /\ item = NoItem

\* What makes the two properties above inductive: between two steps of the thread
\* a message is being written exactly when the client is blocked, inside
\* red_peer_handle_outgoing there is always one, and the urgent marshaller is
\* active only in front of a main message that is still to be written.
SendState ==
    /\ pc = "write" => connected /\ out # NoMsg
    /\ pc # "write" => (blocked <=> out # NoMsg)
    /\ blocked => out # NoMsg
    /\ item # NoItem => out # NoMsg
    /\ active = "urgent" /\ connected => out # NoMsg /\ mainMsg # NoMsg
    /\ DisconnectedIsEmpty

\* reset_send_data "keeps the serial consecutive": the serial of the last
\* message begun is the number of messages the peer has or will have received,
\* although items that marshal nothing consume serials and an urgent message
\* takes the serial before the one its main message was marshalled with.  The
\* peer counts in_serial on its own, and cache synchronisation compares both.
SerialMatchesPeer ==
    connected =>
        /\ lastSerial = inSerial + Len(down) + (IF out # NoMsg THEN 1 ELSE 0)
                                 + (IF active = "urgent" THEN 1 ELSE 0)
        /\ serial - lastSerial \in {0, 1}

\* what is counted
OfType(t) == [type : {t}, gen : Nat]

\* The latency monitor's state says exactly how many PINGs of the test are still
\* to be answered, counting those in the pipe, in the marshaller, on the wire
\* and the PONGs coming back; so no PONG finds the monitor in a state that does
\* not expect it, and the timer is armed in the TIMER state only (the assert of
\* red_channel_client_ping_timer).
PingsOutstanding ==
    connected =>
        /\ Count(pipe, {"PING"}) + One(out.type = "PING") + Count(down, OfType("PING"))
               + Count(up, OfType("PONG"))
             = CASE pingState = "WARMUP" -> 2 [] pingState = "LATENCY" -> 1
                 [] OTHER -> 0
        /\ pingArmed => pingTimer /\ pingState = "TIMER"

\* When connectivity_timer would give the peer up, the channel client really is
\* blocked or waits for a PONG: "mismatch between rcc-state and
\* connectivity-state" cannot be reported.
NoConnectivityMismatch ==
    connTimer /\ ConnIdle /\ pc = "idle" =>
        /\ connState = "BLOCKED" => blocked \/ WaitingForAck
        /\ connState = "WAIT_PONG" => pingState \in {"WARMUP", "LATENCY"}

\* Whatever was put in the pipe is delivered, or the client is disconnected:
\* the ack window, EAGAIN and the re-entrancy guard never strand an item.
PipeDrains == <>[](pipe = <<>> /\ out = NoMsg /\ down = <<>>)

\* A latency test that was started ends, or the client is disconnected.
LatencyTestEnds ==
    pingState = "WARMUP" ~> pingState \in {"NONE", "TIMER"} \/ ~connected
=============================================================================
