---------------------------- MODULE H264Stream ----------------------------
(***************************************************************************)
(* The H264 path of the display worker (server/red_worker.c): the thread     *)
(* loop of red_worker_main, the QXL command ring it drains, the pipes of the *)
(* display clients, the one encoder they share, the pacing of frames and     *)
(* insert_h264_frame, which makes up for a frame that was dropped.           *)
(*                                                                         *)
(* A picture is the number of draw commands rendered into the primary        *)
(* surface.  What is written to a client is shown by it in that order.  The  *)
(* ack window and the urgent marshaller are the subject of RedChannelClient. *)
(* Modelled is the build of the repository: USE_VGA_MODE undefined, so that  *)
(* DRAW_ALL renders every command, and USE_H264_QSV defined.                 *)
(***************************************************************************)
EXTENDS H264Pacing, Sequences, SequencesExt, SequenceParts

CONSTANTS
    Clients,        \* display channel clients
    Modes,          \* the ways the server is used
    MaxPipeSize,    \* MAX_PIPE_SIZE
    Retries,        \* CMD_RING_POLL_RETRIES
    MaxSec,         \* bound: seconds the clock tells apart
    MaxDraws,       \* bound: commands the guest puts in the ring
    MaxConnects     \* bound: connections

\* clients: connected at a time, 1 unless SPICE_DEBUG_ALLOW_MC is set; avcOff: a
\* client may send DISPLAY_AVC with enable_avc = 0; others, destroys: bounds on the
\* messages that are not pictures (monitors config...) and on the times the
\* primary surface is destroyed.
Mode == [clients : Nat \ {0}, avcOff : BOOLEAN, others : Nat, destroys : Nat]

ASSUME StreamAssumption ==
    /\ Modes \subseteq Mode /\ Modes # {}
    /\ MaxPipeSize \in Nat /\ Retries \in Nat /\ MaxSec \in Nat /\ MaxSec >= 3
    /\ MaxDraws \in Nat /\ MaxConnects \in Nat

\* A message: "draw" and "image" carry the picture of a pipe item, "frame" the
\* surface when it was encoded.  `own' is whether the bytes it refers to are still
\* its own; a "reset" message lost its bytes while it was being written.
Msg(kind, ver) == [kind |-> kind, ver |-> ver, own |-> TRUE]
NoMsg == Msg("none", 0)
Pictures == {"draw", "image", "frame"}

Messages ==
    [kind : Pictures \cup {"none", "other", "reset"}, ver : 0 .. MaxDraws, own : BOOLEAN]

\* what waits in a pipe: the encoder has no part in it yet
PipeItems == {m \in Messages : m.kind \in {"draw", "image", "other"} /\ m.own}

VARIABLES
    pc,         \* "poll", "events", "commands", "insert", "push", "write", or
                \* how the thread ended: "aborted", "crashed", "hung"
    loop, todo, \* "insert" or "push": a pass over the clients still in todo
    next,       \* where to go after the pass: "events" or "poll"
    timeout,    \* worker->event_timeout: "none" (0), "cmd" (10 ms) or "inf"
    repoll,     \* worker->repoll_cmd_ring
    clients,    \* display_channel->common.base.clients, newest first
    pipe, out,  \* per client: the pipe, and the message being written
    shown,      \* per client: the picture it shows
    ring,       \* commands in the QXL ring
    screen,     \* the picture in surface 0
    canvas,     \* surfaces[0].context.canvas # NULL
    avc,        \* worker->enable_avc
    lastDrop, lastTime,     \* worker->last_drop, worker->last_time
    clock,      \* gettimeofday
    sentAt, burst,  \* when a client got its last frame; who got one too early
    draws, others, connects, destroys,
    mode        \* settled when the server starts

sendVars  == <<clients, pipe, out, shown>>
paceVars  == <<lastDrop, lastTime>>
boundVars == <<draws, others, connects, destroys, mode>>
vars == <<pc, loop, todo, next, timeout, repoll, sendVars, ring, screen, canvas,
          avc, paceVars, clock, sentAt, burst, boundVars>>

Connected == Range(clients)

Init ==
    /\ pc = "poll" /\ loop = "push" /\ todo = <<>> /\ next = "poll"
    /\ timeout = "inf" /\ repoll = 0
    /\ clients = <<>> /\ pipe = [c \in Clients |-> <<>>]
    /\ out = [c \in Clients |-> NoMsg] /\ shown = [c \in Clients |-> 0]
    /\ ring = 0 /\ screen = 0 /\ canvas = TRUE
    /\ avc = FALSE /\ lastDrop = FALSE /\ lastTime = Epoch
    /\ clock = [sec |-> MaxSec, usec |-> 0]
    /\ sentAt = [c \in Clients |-> Epoch] /\ burst = {}
    /\ mode \in Modes /\ draws = 0 /\ others = 0 /\ connects = 0 /\ destroys = 0

-----------------------------------------------------------------------------
(* Time.  Only differences of times are compared, so the clock's second stays  *)
(* in 0 .. MaxSec: once there, the times on record move back instead.          *)

Earlier(t) == IF t.sec = 0 THEN Epoch ELSE [t EXCEPT !.sec = @ - 1]

Advance ==
    IF clock.usec < Second - 1
    THEN clock' = [clock EXCEPT !.usec = @ + 1] /\ UNCHANGED <<lastTime, sentAt>>
    ELSE /\ clock' = [clock EXCEPT !.usec = 0]
         /\ lastTime' = Earlier(lastTime)
         /\ sentAt' = [c \in Clients |-> Earlier(sentAt[c])]

\* time passes while the thread works
Tick ==
    /\ Advance
    /\ UNCHANGED <<pc, loop, todo, next, timeout, repoll, sendVars, ring, screen,
                   canvas, avc, lastDrop, burst, boundVars>>

\* the guest's driver puts a draw command in the ring
GuestDraw ==
    /\ draws < MaxDraws
    /\ draws' = draws + 1 /\ ring' = ring + 1
    /\ UNCHANGED <<pc, loop, todo, next, timeout, repoll, sendVars, screen, canvas,
                   avc, paceVars, clock, sentAt, burst, others, connects, destroys, mode>>

-----------------------------------------------------------------------------
(* red_worker_main: poll and the watches. *)

\* poll returns because a descriptor is ready or a timer is due
PollEvent ==
    /\ pc = "poll" /\ pc' = "events" /\ timeout' = "inf"
    /\ UNCHANGED <<loop, todo, next, repoll, sendVars, ring, screen, canvas, avc,
                   paceVars, clock, sentAt, burst, boundVars>>

\* poll returns because event_timeout ran out
PollTimeout ==
    /\ pc = "poll" /\ timeout # "inf"
    /\ pc' = "events" /\ timeout' = "inf"
    /\ IF timeout = "cmd" THEN Advance ELSE UNCHANGED <<clock, lastTime, sentAt>>
    /\ UNCHANGED <<loop, todo, next, repoll, sendVars, ring, screen, canvas, avc,
                   lastDrop, burst, boundVars>>

\* a pass over the clients of cs, doing what
Pass(what, cs, then) == pc' = what /\ loop' = what /\ todo' = cs /\ next' = then

\* POLLOUT: red_channel_client_event, which pushes
WriteEvent(c) ==
    /\ pc = "events" /\ c \in Connected /\ out[c] # NoMsg
    /\ Pass("push", <<c>>, "events")
    /\ UNCHANGED <<timeout, repoll, sendVars, ring, screen, canvas, avc, paceVars,
                   clock, sentAt, burst, boundVars>>

\* display_channel_handle_avc
HandleAvc(b) ==
    /\ pc = "events" /\ clients # <<>> /\ avc # b
    /\ b \/ mode.avcOff
    /\ avc' = b
    /\ UNCHANGED <<pc, loop, todo, next, timeout, repoll, sendVars, ring, screen,
                   canvas, paceVars, clock, sentAt, burst, boundVars>>

\* ... without the reset of last_drop
RestartClock == UNCHANGED lastDrop /\ lastTime' = Epoch

\* a new display client starts the pacing anew
RestartPacing == lastDrop' = FALSE /\ lastTime' = Epoch

\* handle_new_display_channel: the encoder is closed under every client, the
\* pacing starts anew, and the new client gets the surface as it is.
NewDisplayChannel(c) ==
    /\ pc = "events" /\ c \notin Connected
    /\ Len(clients) < mode.clients /\ connects < MaxConnects
    /\ connects' = connects + 1
    /\ clients' = <<c>> \o clients
    /\ pipe' = [pipe EXCEPT ![c] = IF canvas THEN <<Msg("image", screen)>> ELSE <<>>]
    /\ out' = [d \in Clients |-> IF out[d].kind = "frame"
                                 THEN [out[d] EXCEPT !.own = FALSE] ELSE out[d]]
    /\ shown' = [shown EXCEPT ![c] = 0]
    /\ RestartPacing
    /\ sentAt' = [sentAt EXCEPT ![c] = Epoch]
    /\ UNCHANGED <<pc, loop, todo, next, timeout, repoll, ring, screen, canvas, avc,
                   clock, burst, draws, others, destroys, mode>>

\* a disconnect that forgets the message being written
KeepSentItem(c) == UNCHANGED out

\* red_channel_client_clear_sent_item
ClearSentItem(c) == out' = [out EXCEPT ![c] = NoMsg]

\* red_channel_client_disconnect
Disconnect(c) ==
    /\ pc = "events" /\ c \in Connected
    /\ clients' = Kept(clients, Clients \ {c})
    /\ pipe' = [pipe EXCEPT ![c] = <<>>] /\ ClearSentItem(c)
    /\ UNCHANGED <<pc, loop, todo, next, timeout, repoll, shown, ring, screen, canvas,
                   avc, paceVars, clock, sentAt, burst, boundVars>>

\* ... in front of what is there
PipesAddFirst(m) ==
    pipe' = [c \in Clients |-> IF c \in Connected THEN <<m>> \o pipe[c] ELSE pipe[c]]

\* red_channel_client_pipe_add for every client: m is sent last
PipesAdd(m) ==
    pipe' = [c \in Clients |-> IF c \in Connected THEN Append(pipe[c], m) ELSE pipe[c]]

\* a message that is not a picture is queued for every client
PipesAddOther ==
    /\ pc = "events" /\ others < mode.others
    /\ others' = others + 1
    /\ PipesAdd(Msg("other", 0))
    /\ Pass("push", clients, "events")
    /\ UNCHANGED <<timeout, repoll, clients, out, shown, ring, screen, canvas, avc,
                   paceVars, clock, sentAt, burst, draws, connects, destroys,
                   mode>>

NoDraws == {m \in PipeItems : m.kind # "draw"}

\* dev_destroy_primary_surface once flush_all_qxl_commands has drained the ring:
\* drawables leave the pipes, what is being written is waited for, or its client
\* (those in slow) is disconnected.
DestroyPrimary(slow) ==
    /\ pc = "events" /\ canvas /\ ring = 0 /\ destroys < mode.destroys
    /\ destroys' = destroys + 1
    /\ canvas' = FALSE
    /\ \A c \in slow : c \in Connected /\ out[c] # NoMsg
    /\ clients' = Kept(clients, Clients \ slow)
    /\ pipe' = [c \in Clients |->
                  IF c \in slow \/ c \notin Connected THEN <<>>
                  ELSE Append(Kept(pipe[c], NoDraws), Msg("other", 0))]
    /\ out' = [c \in Clients |-> NoMsg]
    /\ shown' = [c \in Clients |->
                  IF out[c].kind \in Pictures /\ c \notin slow
                  THEN out[c].ver ELSE shown[c]]
    /\ UNCHANGED <<pc, loop, todo, next, timeout, repoll, ring, screen, avc, paceVars,
                   clock, sentAt, burst, draws, others, connects, mode>>

\* dev_create_primary_surface, with no picture in it yet
CreatePrimary ==
    /\ pc = "events" /\ ~canvas
    /\ canvas' = TRUE
    /\ PipesAdd(Msg("other", 0))
    /\ Pass("push", clients, "events")
    /\ UNCHANGED <<timeout, repoll, clients, out, shown, ring, screen, avc, paceVars,
                   clock, sentAt, burst, boundVars>>

\* the watches have been served
EventsDone ==
    /\ pc = "events" /\ pc' = "commands"
    /\ UNCHANGED <<loop, todo, next, timeout, repoll, sendVars, ring, screen, canvas,
                   avc, paceVars, clock, sentAt, burst, boundVars>>

-----------------------------------------------------------------------------
(* red_process_commands *)

RoomInPipes ==
    clients = <<>> \/ \E c \in Connected : Len(pipe[c]) <= MaxPipeSize

AllBlocked == clients # <<>> /\ \A c \in Connected : out[c] # NoMsg

\* ... that leaves the command in the ring
PeekCommand == UNCHANGED ring

\* the device's get_command takes the next command out of the ring
GetCommand == ring' = ring - 1

\* A command is rendered (without a primary surface it is not valid) and queued
\* for every client.  The loop stops when every client is blocked, or after 10 ms.
ProcessCommand ==
    /\ pc = "commands" /\ RoomInPipes /\ ring > 0
    /\ GetCommand /\ repoll' = 0
    /\ IF canvas THEN screen' = screen + 1 /\ PipesAdd(Msg("draw", screen + 1))
                 ELSE UNCHANGED <<screen, pipe>>
    /\ \/ ~AllBlocked /\ UNCHANGED <<pc, loop, todo, next, timeout>>
       \/ timeout' = "none" /\ Pass("push", clients, "poll")
    /\ UNCHANGED <<clients, out, shown, canvas, avc, paceVars, clock, sentAt, burst,
                   boundVars>>

\* The pipes are full: the loop ends with ring_is_empty = FALSE.
PipesFull ==
    /\ pc = "commands" /\ ~RoomInPipes
    /\ Pass("push", clients, "poll")
    /\ UNCHANGED <<timeout, repoll, sendVars, ring, screen, canvas, avc, paceVars,
                   clock, sentAt, burst, boundVars>>

\* red_worker_main: a dropped frame is made up for
InsertNow == lastDrop /\ avc /\ InsertDue(clock, lastTime)

\* The ring is empty: the worker polls it for a while, then asks the device to be
\* notified; and if the last frame was dropped long enough ago, it inserts one.
RingIsEmpty ==
    /\ pc = "commands" /\ RoomInPipes /\ ring = 0
    /\ repoll' = IF repoll <= Retries THEN repoll + 1 ELSE repoll
    /\ timeout' = IF repoll < Retries /\ timeout = "inf" THEN "cmd" ELSE timeout
    /\ Pass(IF InsertNow THEN "insert" ELSE "push", clients, "poll")
    /\ UNCHANGED <<sendVars, ring, screen, canvas, avc, paceVars, clock, sentAt, burst,
                   boundVars>>

-----------------------------------------------------------------------------
(* Marshalling and writing. *)

\* h264_qsv_encoder_encode and h264_send for client c: the bitstream buffer the
\* message refers to is the encoder's, so the frames other clients are still
\* writing change under them.
EncodeFor(c) ==
    /\ out' = [d \in Clients |-> IF d = c THEN Msg("frame", screen)
                                 ELSE IF out[d].kind = "frame"
                                 THEN [out[d] EXCEPT !.own = FALSE] ELSE out[d]]
    /\ sentAt' = [sentAt EXCEPT ![c] = clock]
    /\ burst' = IF sentAt[c] # Epoch /\ Elapsed(clock, sentAt[c]) <= Pace
                THEN burst \cup {c} ELSE burst

\* ... and does not remember it
DropFrameForget == UNCHANGED <<lastDrop, lastTime, out, sentAt, burst>>

\* red_marshall_stream_h264_data drops the frame of the item
DropFrame ==
    /\ lastDrop' = TRUE
    /\ UNCHANGED <<lastTime, out, sentAt, burst>>

\* red_channel_client_push for the first client of todo: the blocked message is
\* retried, the next item is marshalled and written, or the client is done.
PushRetry ==
    /\ pc = "push" /\ todo # <<>> /\ out[Head(todo)] # NoMsg
    /\ pc' = "write"
    /\ UNCHANGED <<loop, todo, next, timeout, repoll, sendVars, ring, screen, canvas,
                   avc, paceVars, clock, sentAt, burst, boundVars>>

PushItem ==
    /\ pc = "push" /\ todo # <<>>
    /\ LET c == Head(todo) IN
       /\ out[c] = NoMsg /\ pipe[c] # <<>>
       /\ pipe' = [pipe EXCEPT ![c] = Tail(@)]
       /\ \/ /\ avc /\ Head(pipe[c]).kind = "draw" /\ Paced(clock, lastTime)
             /\ DropFrame
             /\ UNCHANGED pc
          \/ /\ avc /\ Head(pipe[c]).kind = "draw" /\ ~Paced(clock, lastTime)
             /\ lastDrop' = FALSE /\ lastTime' = clock
             /\ EncodeFor(c)
             /\ pc' = "write"
          \/ /\ ~(avc /\ Head(pipe[c]).kind = "draw")
             /\ out' = [out EXCEPT ![c] = Head(pipe[c])]
             /\ pc' = "write"
             /\ UNCHANGED <<paceVars, sentAt, burst>>
    /\ UNCHANGED <<loop, todo, next, timeout, repoll, clients, shown, ring, screen,
                   canvas, avc, clock, boundVars>>

PushClientDone ==
    /\ pc = "push" /\ todo # <<>>
    /\ out[Head(todo)] = NoMsg /\ pipe[Head(todo)] = <<>>
    /\ todo' = Tail(todo)
    /\ UNCHANGED <<pc, loop, next, timeout, repoll, sendVars, ring, screen, canvas,
                   avc, paceVars, clock, sentAt, burst, boundVars>>

\* insert_h264_frame for the first client of todo.  reset_send_data empties the
\* marshaller whatever it holds; then red_marshall_stream_h264_data paces the
\* frame, reads the canvas, encodes, and asserts that nothing is being sent.
InsertFrame ==
    /\ pc = "insert" /\ todo # <<>>
    /\ LET c == Head(todo) IN
       \/ /\ Paced(clock, lastTime)
          /\ lastDrop' = TRUE
          /\ out' = IF out[c] = NoMsg THEN out
                    ELSE [out EXCEPT ![c] = Msg("reset", 0)]
          /\ todo' = Tail(todo)
          /\ UNCHANGED <<pc, lastTime, sentAt, burst>>
       \/ /\ ~Paced(clock, lastTime)
          /\ lastDrop' = FALSE /\ lastTime' = clock
          /\ IF canvas /\ out[c] = NoMsg
             THEN EncodeFor(c) /\ pc' = "write"
             ELSE /\ pc' = IF canvas THEN "aborted" ELSE "crashed"
                  /\ UNCHANGED <<out, sentAt, burst>>
          /\ UNCHANGED todo
    /\ UNCHANGED <<loop, next, timeout, repoll, clients, pipe, shown, ring, screen,
                   canvas, avc, clock, boundVars>>

\* red_peer_handle_outgoing wrote all of the message
WriteDone ==
    /\ pc = "write"
    /\ LET c == Head(todo) IN
       /\ out[c].kind # "reset"
       /\ out' = [out EXCEPT ![c] = NoMsg]
       /\ shown' = IF out[c].kind \in Pictures
                   THEN [shown EXCEPT ![c] = out[c].ver] ELSE shown
    /\ pc' = loop
    /\ todo' = IF loop = "insert" THEN Tail(todo) ELSE todo
    /\ UNCHANGED <<loop, next, timeout, repoll, clients, pipe, ring, screen, canvas,
                   avc, paceVars, clock, sentAt, burst, boundVars>>

\* The transport takes no more: the message stays with the client, which is done.
WriteBlocks ==
    /\ pc = "write" /\ out[Head(todo)].kind # "reset"
    /\ pc' = loop /\ todo' = Tail(todo)
    /\ UNCHANGED <<loop, next, timeout, repoll, sendVars, ring, screen, canvas, avc,
                   paceVars, clock, sentAt, burst, boundVars>>

\* Nothing is left to write of a message whose size says otherwise: writev of no
\* buffers returns 0 and red_peer_handle_outgoing tries again, for ever.
WriteNothing ==
    /\ pc = "write" /\ out[Head(todo)].kind = "reset"
    /\ pc' = "hung"
    /\ UNCHANGED <<loop, todo, next, timeout, repoll, sendVars, ring, screen, canvas,
                   avc, paceVars, clock, sentAt, burst, boundVars>>

\* The pass is over: after insert_h264_frame comes red_push, then the next poll.
PassDone ==
    /\ pc \in {"push", "insert"} /\ todo = <<>>
    /\ IF pc = "insert" THEN Pass("push", clients, "poll")
       ELSE pc' = next /\ UNCHANGED <<loop, todo, next>>
    /\ UNCHANGED <<timeout, repoll, sendVars, ring, screen, canvas, avc, paceVars,
                   clock, sentAt, burst, boundVars>>

-----------------------------------------------------------------------------
Thread ==
    \/ EventsDone \/ ProcessCommand \/ PipesFull \/ RingIsEmpty
    \/ PushRetry \/ PushItem \/ PushClientDone \/ InsertFrame
    \/ WriteDone \/ WriteBlocks \/ WriteNothing \/ PassDone

Next ==
    \/ Tick \/ GuestDraw \/ PollEvent \/ PollTimeout \/ Thread
    \/ PipesAddOther \/ CreatePrimary
    \/ \E b \in BOOLEAN : HandleAvc(b)
    \/ \E c \in Clients : WriteEvent(c) \/ NewDisplayChannel(c) \/ Disconnect(c)
    \/ \E slow \in SUBSET Clients : DestroyPrimary(slow)

Spec == Init /\ [][Next]_vars

\* The thread never stops by itself, poll serves each descriptor once per turn,
\* a timer of the display channel's latency monitor ends every poll, the clock
\* goes on and the clients read what is written to them.
Fairness ==
    /\ WF_vars(Thread) /\ SF_vars(EventsDone) /\ SF_vars(RingIsEmpty)
    /\ WF_vars(PollEvent) /\ WF_vars(Tick) /\ SF_vars(WriteDone)

FairSpec == Spec /\ Fairness

-----------------------------------------------------------------------------
(* Properties. *)

TypeOK ==
    /\ pc \in {"poll", "events", "commands", "insert", "push", "write",
               "aborted", "crashed", "hung"}
    /\ loop \in {"insert", "push"} /\ next \in {"events", "poll"}
    /\ timeout \in {"none", "cmd", "inf"} /\ repoll \in 0 .. Retries + 1
    /\ mode \in Modes
    /\ clients \in Seq(Clients) /\ IsInjective(clients) /\ Len(clients) <= mode.clients
    /\ todo \in Seq(Connected)
    /\ pipe \in [Clients -> Seq(PipeItems)] /\ out \in [Clients -> Messages]
    /\ shown \in [Clients -> 0 .. MaxDraws]
    /\ ring \in Nat /\ screen \in Nat /\ draws \in 0 .. MaxDraws /\ ring + screen <= draws
    /\ canvas \in BOOLEAN /\ avc \in BOOLEAN /\ lastDrop \in BOOLEAN
    /\ lastTime \in Times /\ clock \in Times /\ clock.sec = MaxSec
    /\ sentAt \in [Clients -> Times] /\ burst \subseteq Clients
    /\ others \in Nat /\ connects \in Nat /\ destroys \in Nat

\* The worker survives insert_h264_frame: the assert of
\* red_channel_client_init_send_data holds, the canvas is there, and no message
\* loses its bytes while it is being written.
WorkerAlive == pc \notin {"aborted", "crashed", "hung"}

\* A frame is sent by reference to the encoder's bitstream buffer
\* (spice_marshaller_add_ref); as long as it is being written, the buffer still
\* holds it.  Two clients at a time would overwrite each other's frames.
FrameIntact == mode.clients = 1 => \A c \in Connected : out[c].own

\* "make sure that <= 30fps": no client gets two frames within Pace.  A second client
\* that connects would restart the pacing of the first.
FrameRate == mode.clients = 1 => burst = {}

\* No update gets lost: a client that does not show the latest picture has it in
\* its pipe or in its marshaller, or the worker knows that it dropped a frame
\* and inserts one later.
UpdatePending ==
    \A c \in Connected :
        \/ screen \in {shown[c]} \cup {m.ver : m \in Range(pipe[c])}
        \/ out[c].kind \in Pictures /\ out[c].ver = screen
        \/ lastDrop /\ avc

\* A client never goes back to an earlier picture, although a frame shows commands
\* that are still in the pipe when it is encoded or inserted, as long as DISPLAY_AVC
\* does not switch the frames off.  With two clients a frame dropped for one makes
\* the worker insert a frame for the other, in front of the image in its pipe.
NoOlderPicture ==
    [][mode.clients = 1 /\ ~mode.avcOff =>
          \A c \in Connected : c \in Connected' => shown'[c] >= shown[c]]_vars

\* When the guest stops drawing, every client ends up with the last picture.
LastPictureShown == <>[](\A c \in Connected : shown[c] = screen)
=============================================================================
