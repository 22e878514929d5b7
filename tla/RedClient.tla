------------------------------ MODULE RedClient ------------------------------
(***************************************************************************)
(* RedClient: its reference count, the channels that belong to it, how it  *)
(* is destroyed, and how it comes in by migration (red_channel.c, reds.c). *)
(*                                                                         *)
(* The main thread serves the main channel and the local channels.  A      *)
(* display or a cursor is served by the thread of its worker.  The threads *)
(* meet in client->lock, in the queues of the workers' dispatchers         *)
(* (red_dispatcher.c, DISCONNECT answered by an ACK) and in the queue of   *)
(* the main dispatcher (main_dispatcher.c), whose messages hold a          *)
(* reference.  A thread runs a handler to its end, except where it waits   *)
(* for a lock or an answer and where another thread can step in between:   *)
(* these are the actions.                                                  *)
(*                                                                         *)
(* allow_multiple_clients is off, as seamless migration requires: a client *)
(* that links throws out the one before it.                                *)
(***************************************************************************)
EXTENDS Integers, Sequences, FiniteSets, FiniteSetsExt, SequencesExt, SequenceParts

CONSTANTS Local,        \* channels of the main thread, besides the main channel
          Worker,       \* Worker[ch]: the worker that serves channel ch
          NeedData,     \* channels with SPICE_MIGRATE_NEED_DATA_TRANSFER
          Modes,        \* the kinds of use to consider
          MaxLinks,     \* bound: times a client links a channel
          MaxLatency    \* bound: latencies the workers report

Main == "main"
Remote == DOMAIN Worker
Chans == {Main} \cup Local \cup Remote
Workers == {Worker[ch] : ch \in Remote}

(* kinds: the clients that link, one after the other; chans: the channels  *)
(* they link; late: a worker may leave a CONNECT in its queue while the    *)
(* client sends data or goes away; torn: refs++ of one thread may overlap  *)
(* a use of refs in another.                                               *)
Kinds == {"fresh", "semi", "seamless"}
Mode == [kinds : Seq(Kinds), chans : SUBSET (Local \cup Remote),
         late : BOOLEAN, torn : BOOLEAN]

ASSUME ClientAssumption == /\ IsFiniteSet(Local) /\ IsFiniteSet(Remote)
                           /\ Main \notin Local \cup Remote
                           /\ Local \cap Remote = {}
                           /\ Main \in NeedData /\ NeedData \subseteq Chans
                           /\ Modes \subseteq Mode /\ Modes # {}
                           /\ MaxLinks \in Nat /\ MaxLatency \in Nat

VARIABLES mode,
          clients,  \* the RedClients so far, freed ones included
          mig,      \* reds->mig_target_clients
          dst,      \* reds->dst_do_seamless_migrate
          main,     \* what the main thread is in the middle of
          worker,   \* what every worker is in the middle of
          wq, mq,   \* the queues of the workers' and of the main dispatcher
          told,     \* latencies reported so far, for the bound
          aborted   \* an assertion failed or spice_error was called: the process
                    \* is gone, and what the model does then has no meaning

vars == <<mode, clients, mig, dst, main, worker, wq, mq, told, aborted>>

Idle == [client |-> 0]
Ids == DOMAIN clients

(* What is known of a client.  chan[ch] is the state of its rcc: none, on  *)
(* (connected), off (disconnected, still in client->channels), gone.       *)
(* `ring' is client->channels, `migrated' num_migrated_channels, `waits'   *)
(* the rccs with wait_migrate_data.  `pending' are its pending_links.  The *)
(* rest is history: how often it linked a channel, the channels it sent    *)
(* MIGRATE_DATA on, data that was unexpected, and migrations completed.    *)
red_client_new(kind) ==
    [kind |-> kind, refs |-> 1, freed |-> FALSE, listed |-> TRUE,
     disconnecting |-> FALSE, during |-> kind # "fresh", seamless |-> FALSE,
     migrated |-> 0, waits |-> {}, ring |-> <<Main>>, pending |-> <<>>,
     chan |-> [ch \in Chans |-> IF ch = Main THEN "on" ELSE "none"],
     links |-> [ch \in Chans |-> 0], left |-> FALSE,
     sent |-> {}, unexpected |-> FALSE, completed |-> 0]

Init == /\ mode \in Modes
        /\ clients = <<>> /\ mig = {} /\ dst = FALSE
        /\ main = Idle /\ worker = [w \in Workers |-> Idle]
        /\ wq = [w \in Workers |-> <<>>] /\ mq = <<>>
        /\ told = 0 /\ aborted = FALSE

Msg(type, c, ch) == [type |-> type, client |-> c, chan |-> ch]

(* The worker's queues after a message of this type for each of the chans. *)
Sent(type, c, chans) ==
    [w \in Workers |->
        wq[w] \o LET mine == Kept(chans, {ch \in Remote : Worker[ch] = w})
                 IN  [i \in DOMAIN mine |-> Msg(type, c, mine[i])]]

Outstanding(c) == \E w \in Workers : \E i \in DOMAIN wq[w] :
                        wq[w][i].type = "connect" /\ wq[w][i].client = c

(* client->lock is free: a worker keeps it while it posts the completion.  *)
Unlocked(c) == \A w \in Workers : ~ (worker[w].client = c /\ worker[w].type = "complete")

(* No worker is between the two halves of refs++ (see torn).               *)
Settled(c) == mode.torn \/ \A w \in Workers : ~ (worker[w].client = c /\ worker[w].step = "ref")

Ref(cl) == [cl EXCEPT !.refs = @ + 1]
Unref(cl, n) == [cl EXCEPT !.refs = @ - n, !.freed = @ \/ cl.refs - n <= 0]

---------------------------------------------------------------------------
\* Bug: a channel does not ask whether a migration is under way.
CreateUnaware(cl, chs) ==
    LET new == Kept(chs, {ch \in Chans : cl.chan[ch] = "none"})
    IN  [cl EXCEPT !.ring = Reverse(new) \o @,
                   !.chan = [ch \in Chans |-> IF ch \in ToSet(new) THEN "on" ELSE cl.chan[ch]]]

\* Bug: the channels wait without being counted.
CreateUncounted(cl, chs) ==
    LET new   == Kept(chs, {ch \in Chans : cl.chan[ch] = "none"})
        waits == {ch \in ToSet(new) \cap NeedData : cl.during /\ cl.seamless}
    IN  [cl EXCEPT !.ring = Reverse(new) \o @,
                   !.chan = [ch \in Chans |-> IF ch \in ToSet(new) THEN "on" ELSE cl.chan[ch]],
                   !.waits = @ \cup waits]

(* red_channel_client_create of the channels chs, one after the other and  *)
(* with client->lock.  A second rcc of the same channel is refused.        *)
Create(cl, chs) ==
    LET new   == Kept(chs, {ch \in Chans : cl.chan[ch] = "none"})
        waits == {ch \in ToSet(new) \cap NeedData : cl.during /\ cl.seamless}
    IN  [cl EXCEPT !.ring = Reverse(new) \o @,
                   !.chan = [ch \in Chans |-> IF ch \in ToSet(new) THEN "on" ELSE cl.chan[ch]],
                   !.waits = @ \cup waits, !.migrated = @ + Cardinality(waits)]

(* reds_channel_do_link of chs, for the client's part: local channels are  *)
(* created at once, a worker is sent a CONNECT (Sent).                     *)
DoLink(cl, chs) == Create(cl, Kept(chs, Chans \ Remote))

(* reds_client_disconnect until red_client_destroy walks the channels, and *)
(* what to do afterwards.                                                  *)
Disconnect(c, then) ==
    /\ clients' = [clients EXCEPT ![c].disconnecting = TRUE, ![c].listed = FALSE,
                                  ![c].pending = <<>>]
    /\ mig' = mig \ {c}
    /\ main' = [client |-> c, walk |-> clients[c].ring, step |-> "next", then |-> then]

(* reds_handle_main_link once no other client is left.                     *)
Admit(cls) ==
    LET kind == mode.kinds[Len(cls) + 1]
    IN  /\ clients' = Append(cls, red_client_new(kind))
        /\ mig' = IF kind = "fresh" THEN mig ELSE mig \cup {Len(cls) + 1}

MainLink ==
    /\ main = Idle /\ Len(clients) < Len(mode.kinds)
    /\ \/ /\ \E c \in Ids : clients[c].listed /\ (mode.late \/ ~ Outstanding(c))
                            /\ Disconnect(c, "link")
       \/ /\ \A c \in Ids : ~ clients[c].listed
          /\ Admit(clients)
          /\ UNCHANGED main
    /\ UNCHANGED <<mode, dst, worker, wq, mq, told, aborted>>

(* The client links another channel: reds_handle_other_links.              *)
OtherLink(c, ch) ==
    LET cl == [clients[c] EXCEPT !.links[ch] = @ + 1]
        wait == clients[c].during /\ ~ dst
    IN  /\ main = Idle /\ clients[c].chan[Main] = "on" /\ Unlocked(c)
        /\ clients[c].links[ch] < MaxLinks
        /\ clients[c].links[ch] = 0 \/ clients[c].chan[ch] = "off"
        /\ aborted' = (aborted \/ wait # (c \in mig))
        /\ clients' = [clients EXCEPT ![c] = IF wait THEN [cl EXCEPT !.pending = <<ch>> \o @]
                                             ELSE DoLink(cl, <<ch>>)]
        /\ wq' = IF wait THEN wq ELSE Sent("connect", c, <<ch>>)
        /\ UNCHANGED <<mode, mig, dst, main, worker, mq, told>>

---------------------------------------------------------------------------
\* Bug: the target client stays in the list.
LinkPendingKept(c, cl) ==
    /\ clients' = [clients EXCEPT ![c] = [DoLink(cl, cl.pending) EXCEPT !.pending = <<>>]]
    /\ wq' = Sent("connect", c, cl.pending)
    /\ mig' = mig

(* reds_link_mig_target_channels: the pending links of cl, in order.       *)
LinkPending(c, cl) ==
    /\ clients' = [clients EXCEPT ![c] = [DoLink(cl, cl.pending) EXCEPT !.pending = <<>>]]
    /\ wq' = Sent("connect", c, cl.pending)
    /\ mig' = mig \ {c}

(* red_client_set_migration_seamless: the channels linked so far wait.     *)
SetSeamless(cl) ==
    LET waits == ToSet(cl.ring) \cap NeedData
    IN  [cl EXCEPT !.seamless = TRUE, !.waits = waits, !.migrated = @ + Cardinality(waits)]

(* MIGRATE_DST_DO_SEAMLESS of a client that migrates: accepted, or refused *)
(* because the source is newer, and then the client goes on semi-seamless. *)
DstDoSeamless(c) ==
    /\ main = Idle /\ clients[c].chan[Main] = "on" /\ Unlocked(c)
    /\ clients[c].kind = "seamless" /\ c \in mig
    /\ \/ /\ LinkPending(c, SetSeamless(clients[c]))
          /\ dst' = TRUE
          /\ aborted' = (aborted \/ ~ clients[c].during)
       \/ /\ clients' = [clients EXCEPT ![c].kind = "semi"]
          /\ dst' = FALSE
          /\ UNCHANGED <<wq, mig, aborted>>
    /\ UNCHANGED <<mode, main, worker, mq, told>>

(* MIGRATE_END of a client that migrates semi-seamless.                    *)
MigrateEnd(c) ==
    /\ main = Idle /\ clients[c].chan[Main] = "on" /\ Unlocked(c)
    /\ clients[c].kind = "semi" /\ clients[c].during
    /\ aborted' = (aborted \/ clients[c].seamless)
    /\ LinkPending(c, [clients[c] EXCEPT !.during = FALSE])
    /\ UNCHANGED <<mode, dst, main, worker, mq, told>>

(* The source side of a seamless migration: reds_mig_finished,             *)
(* red_client_migrate.  A worker gets a MIGRATE for each connected rcc.    *)
Migrate(c) ==
    /\ main = Idle /\ clients[c].listed /\ ~ clients[c].during /\ ~ clients[c].left
    /\ clients' = [clients EXCEPT ![c].left = TRUE]
    /\ wq' = Sent("migrate", c, Kept(clients[c].ring,
                                     {ch \in Chans : clients[c].chan[ch] = "on"}))
    /\ UNCHANGED <<mode, mig, dst, main, worker, mq, told, aborted>>

---------------------------------------------------------------------------
(* The thread of channel ch may run a handler of it.                       *)
Runs(ch) == IF ch \in Remote THEN worker[Worker[ch]] = Idle ELSE main = Idle

(* reds_on_client_seamless_migrate_complete.                               *)
Complete(cl) == IF cl.listed THEN [cl EXCEPT !.completed = @ + 1] ELSE cl

(* A worker starts to post a message with a reference to client c: the     *)
(* first half of red_client_ref.                                           *)
StartPost(c, ch, type) ==
    worker' = [worker EXCEPT ![Worker[ch]] =
                  [client |-> c, chan |-> ch, type |-> type, step |-> "ref",
                   seen |-> clients[c].refs]]

\* Bug: the message is posted without a reference.
DropUncounted(c, cl, ch) ==
    /\ clients' = [clients EXCEPT ![c] = [cl EXCEPT !.chan[ch] = "off"]]
    /\ mq' = IF ch = Main /\ ~ cl.disconnecting
             THEN Append(mq, Msg("disconnect", c, Main)) ELSE mq

(* red_channel_client_disconnect; losing the main channel posts a          *)
(* CLIENT_DISCONNECT with a reference.                                     *)
Drop(c, cl, ch) ==
    LET posts == ch = Main /\ ~ cl.disconnecting
        off == [cl EXCEPT !.chan[ch] = "off"]
    IN  /\ posts => Settled(c)
        /\ clients' = [clients EXCEPT ![c] = IF posts THEN Ref(off) ELSE off]
        /\ mq' = IF posts THEN Append(mq, Msg("disconnect", c, Main)) ELSE mq

\* Bug: a worker does not post the completion.
DstCompleteLost(c, cl, ch) ==
    /\ clients' = [clients EXCEPT ![c] = IF ch \in Remote THEN cl ELSE Complete(cl)]
    /\ UNCHANGED <<worker, mq>>

(* main_dispatcher_seamless_migrate_dst_complete: called by the main       *)
(* thread, posted by a worker, which holds client->lock until it has.      *)
DstComplete(c, cl, ch) ==
    /\ clients' = [clients EXCEPT ![c] = IF ch \in Remote THEN cl ELSE Complete(cl)]
    /\ IF ch \in Remote THEN Settled(c) /\ StartPost(c, ch, "complete")
                        ELSE UNCHANGED worker
    /\ UNCHANGED mq

(* red_channel_client_seamless_migration_done.                             *)
SeamlessDone(c, cl, ch) ==
    LET done == [cl EXCEPT !.waits = @ \ {ch}, !.migrated = @ - 1]
    IN  /\ Unlocked(c)
        /\ IF done.migrated = 0
           THEN DstComplete(c, [done EXCEPT !.during = FALSE, !.seamless = FALSE], ch)
           ELSE /\ clients' = [clients EXCEPT ![c] = done]
                /\ UNCHANGED <<worker, mq>>

(* A client sends the data of the source once its channels are linked:     *)
(* red_channel_handle_migrate_data.                                        *)
MigrateData(c, ch) ==
    LET cl == [clients[c] EXCEPT !.sent = @ \cup {ch}]
    IN  /\ Runs(ch) /\ clients[c].chan[ch] = "on"
        /\ clients[c].kind = "seamless" /\ c \notin mig
        /\ ch \in NeedData \ clients[c].sent
        /\ \A other \in mode.chans : clients[c].links[other] > 0
        /\ mode.late \/ ~ Outstanding(c)
        /\ IF ch \in cl.waits THEN SeamlessDone(c, cl, ch)
           ELSE /\ Drop(c, [cl EXCEPT !.unexpected = TRUE], ch)
                /\ UNCHANGED worker
        /\ UNCHANGED <<mode, mig, dst, main, wq, told, aborted>>

(* A connection is lost, or the client closes it.                          *)
Lose(c, ch) ==
    /\ Runs(ch) /\ clients[c].chan[ch] = "on"
    /\ ch = Main => mode.late \/ ~ Outstanding(c)
    /\ Drop(c, clients[c], ch)
    /\ UNCHANGED <<mode, mig, dst, main, worker, wq, told, aborted>>

---------------------------------------------------------------------------
(* red_stream_update_client_playback_latency of a display channel.         *)
Latency(c, ch) ==
    /\ ch \in Remote \cap NeedData /\ clients[c].chan[ch] = "on"
    /\ Runs(ch) /\ told < MaxLatency /\ Settled(c)
    /\ StartPost(c, ch, "latency")
    /\ told' = told + 1
    /\ UNCHANGED <<mode, clients, mig, dst, main, wq, mq, aborted>>

\* Bug: the message is posted without a reference.
WorkerNoRef(w) ==
    /\ worker[w] # Idle /\ worker[w].step = "ref"
    /\ worker' = [worker EXCEPT ![w].step = "post"]
    /\ UNCHANGED <<mode, clients, mig, dst, main, wq, mq, told, aborted>>

(* The second half of red_client_ref.                                      *)
WorkerRef(w) ==
    /\ worker[w] # Idle /\ worker[w].step = "ref"
    /\ clients' = [clients EXCEPT ![worker[w].client].refs = worker[w].seen + 1]
    /\ worker' = [worker EXCEPT ![w].step = "post"]
    /\ UNCHANGED <<mode, mig, dst, main, wq, mq, told, aborted>>

WorkerPost(w) ==
    /\ worker[w] # Idle /\ worker[w].step = "post"
    /\ mq' = Append(mq, Msg(worker[w].type, worker[w].client, Main))
    /\ worker' = [worker EXCEPT ![w] = Idle]
    /\ UNCHANGED <<mode, clients, mig, dst, main, wq, told, aborted>>

\* Bug: DISCONNECT is handled without an ACK.
HandleNoAck(w, m) ==
    \/ /\ m.type = "connect" /\ Unlocked(m.client)
       /\ clients' = [clients EXCEPT ![m.client] = Create(@, <<m.chan>>)]
       /\ UNCHANGED main
    \/ /\ m.type = "migrate"
       /\ UNCHANGED <<clients, main>>
    \/ /\ m.type = "disconnect"
       /\ clients' = [clients EXCEPT ![m.client].chan[m.chan] = "off"]
       /\ UNCHANGED main

(* The handlers of a worker: handle_dev_display_connect and so on.         *)
Handle(w, m) ==
    \/ /\ m.type = "connect" /\ Unlocked(m.client)
       /\ clients' = [clients EXCEPT ![m.client] = Create(@, <<m.chan>>)]
       /\ UNCHANGED main
    \/ /\ m.type = "migrate"
       /\ UNCHANGED <<clients, main>>
    \/ /\ m.type = "disconnect"
       /\ clients' = [clients EXCEPT ![m.client].chan[m.chan] = "off"]
       /\ main' = [main EXCEPT !.step = "acked"]

(* dispatcher_handle_single_read of a worker, with the ACK of a DISCONNECT. *)
WorkerHandle(w) ==
    /\ worker[w] = Idle /\ wq[w] # <<>>
    /\ Handle(w, Head(wq[w]))
    /\ wq' = [wq EXCEPT ![w] = Tail(@)]
    /\ UNCHANGED <<mode, mig, dst, worker, mq, told, aborted>>

---------------------------------------------------------------------------
\* Bug: a client already disconnected keeps the reference.
MainHandleKept ==
    LET m == Head(mq)
        c == m.client
    IN  /\ main = Idle /\ mq # <<>> /\ Settled(c)
        /\ mq' = Tail(mq)
        /\ \/ /\ m.type # "disconnect"
              /\ clients' = [clients EXCEPT ![c] = Unref(@, 1)]
              /\ UNCHANGED <<main, mig>>
           \/ /\ m.type = "disconnect" /\ clients[c].disconnecting
              /\ UNCHANGED <<clients, main, mig>>
           \/ /\ m.type = "disconnect" /\ ~ clients[c].disconnecting
              /\ Disconnect(c, "unref")
        /\ UNCHANGED <<mode, dst, worker, wq, told, aborted>>

(* dispatcher_handle_single_read of the main thread.                       *)
MainHandle ==
    LET m == Head(mq)
        c == m.client
    IN  /\ main = Idle /\ mq # <<>> /\ Settled(c)
        /\ mq' = Tail(mq)
        /\ \/ /\ m.type = "complete"
              /\ clients' = [clients EXCEPT ![c] = Unref(Complete(@), 1)]
              /\ UNCHANGED <<main, mig>>
           \/ /\ m.type = "latency" \/ (m.type = "disconnect" /\ clients[c].disconnecting)
              /\ clients' = [clients EXCEPT ![c] = Unref(@, 1)]
              /\ UNCHANGED <<main, mig>>
           \/ /\ m.type = "disconnect" /\ ~ clients[c].disconnecting
              /\ Disconnect(c, "unref")
        /\ UNCHANGED <<mode, dst, worker, wq, told, aborted>>

(* red_client_destroy: a worker is told to disconnect its channel ...      *)
AskDisconnect ==
    /\ main # Idle /\ main.walk # <<>> /\ main.step = "next"
    /\ Head(main.walk) \in Remote
    /\ wq' = Sent("disconnect", main.client, <<Head(main.walk)>>)
    /\ main' = [main EXCEPT !.step = "waits"]
    /\ UNCHANGED <<mode, clients, mig, dst, worker, mq, told, aborted>>

\* Bug: the rcc is destroyed without waiting for the ACK.
DestroyRccAsync ==
    LET ch == Head(main.walk)
    IN  /\ main # Idle /\ main.walk # <<>> /\ Unlocked(main.client)
        /\ ch \in Remote => main.step # "next"
        /\ clients' = [clients EXCEPT ![main.client].chan[ch] = "gone",
                                      ![main.client].ring = Kept(@, Chans \ {ch})]
        /\ main' = [main EXCEPT !.walk = Tail(@), !.step = "next"]
        /\ UNCHANGED <<mode, mig, dst, worker, wq, mq, told, aborted>>

(* ... and once it has, or at once for a channel of this thread, the rcc   *)
(* is destroyed.  Its connection is closed then, as the assertions say.    *)
DestroyRcc ==
    LET ch == Head(main.walk)
    IN  /\ main # Idle /\ main.walk # <<>> /\ Unlocked(main.client)
        /\ ch \in Remote => main.step = "acked"
        /\ aborted' = (aborted \/ (ch \in Remote /\ clients[main.client].chan[ch] # "off"))
        /\ clients' = [clients EXCEPT ![main.client].chan[ch] = "gone",
                                      ![main.client].ring = Kept(@, Chans \ {ch})]
        /\ main' = [main EXCEPT !.walk = Tail(@), !.step = "next"]
        /\ UNCHANGED <<mode, mig, dst, worker, wq, mq, told>>

(* The end of red_client_destroy and of the handler that called it.        *)
DestroyEnd ==
    LET c == main.client
    IN  /\ main # Idle /\ main.walk = <<>> /\ Settled(c)
        /\ main' = Idle
        /\ \/ /\ main.then = "unref"
              /\ clients' = [clients EXCEPT ![c] = Unref(@, 2)]
              /\ UNCHANGED mig
           \/ /\ main.then = "link"
              /\ Admit([clients EXCEPT ![c] = Unref(@, 1)])
        /\ UNCHANGED <<mode, dst, worker, wq, mq, told, aborted>>

---------------------------------------------------------------------------
Next == \/ MainLink \/ MainHandle \/ AskDisconnect \/ DestroyRcc \/ DestroyEnd
        \/ \E c \in Ids : DstDoSeamless(c) \/ MigrateEnd(c) \/ Migrate(c)
        \/ \E c \in Ids : \E ch \in mode.chans : OtherLink(c, ch) \/ Latency(c, ch)
        \/ \E c \in Ids : \E ch \in {Main} \cup mode.chans : MigrateData(c, ch) \/ Lose(c, ch)
        \/ \E w \in Workers : WorkerRef(w) \/ WorkerPost(w) \/ WorkerHandle(w)

Spec == Init /\ [][Next]_vars

(* Threads that can go on do.  Nothing is assumed of the client.           *)
Fairness == /\ WF_vars(MainHandle) /\ WF_vars(AskDisconnect)
            /\ WF_vars(DestroyRcc) /\ WF_vars(DestroyEnd)
            /\ \A w \in Workers : WF_vars(WorkerRef(w) \/ WorkerPost(w) \/ WorkerHandle(w))

FairSpec == Spec /\ Fairness
---------------------------------------------------------------------------
\* The types of the variables.
TypeOK ==
    /\ mode \in Modes /\ Len(clients) <= Len(mode.kinds) /\ mig \subseteq Ids
    /\ \A c \in Ids :
          LET cl == clients[c]
          IN  /\ cl.refs \in Nat /\ cl.migrated \in Nat /\ cl.kind \in Kinds
              /\ {cl.freed, cl.listed, cl.disconnecting, cl.during, cl.seamless,
                  cl.left, cl.unexpected} \subseteq BOOLEAN
              /\ cl.waits \cup cl.sent \cup ToSet(cl.ring) \cup ToSet(cl.pending) \subseteq Chans
              /\ cl.chan \in [Chans -> {"none", "on", "off", "gone"}]
              /\ cl.links \in [Chans -> 0 .. MaxLinks] /\ cl.completed \in Nat
    /\ main.client \in {0} \cup Ids
    /\ \A w \in Workers : worker[w].client \in {0} \cup Ids
    /\ \A w \in Workers : \A m \in ToSet(wq[w]) :
          m.type \in {"connect", "migrate", "disconnect"} /\ m.client \in Ids /\ m.chan \in Remote
    /\ \A m \in ToSet(mq) :
          m.type \in {"complete", "latency", "disconnect"} /\ m.client \in Ids
    /\ told \in 0 .. MaxLatency /\ {dst, aborted} \subseteq BOOLEAN

(* Who has a reference to client c: its creator until red_client_destroy   *)
(* ends, each message for the main thread, posted or about to be, and the  *)
(* handler of such a message while it destroys the client.                 *)
Holders(c) ==
    Cardinality({i \in DOMAIN mq : mq[i].client = c})
    + Cardinality({w \in Workers : worker[w].client = c /\ worker[w].step = "post"})
    + (IF clients[c].listed \/ main.client = c THEN 1 ELSE 0)
    + (IF main.client = c /\ main.then = "unref" THEN 1 ELSE 0)

\* red_client_ref, red_client_unref: refs counts the holders, and a client is
\* freed exactly when the last of them lets go, after red_client_destroy.
RefsBalanced == \A c \in Ids : /\ clients[c].refs = Holders(c)
                                /\ clients[c].freed <=> Holders(c) = 0

\* red_client_destroy takes all its channels along: once a client is freed
\* none of its rccs is left, and no message and no thread still means it.
ClientAlive ==
    \A c \in Ids : clients[c].freed =>
        /\ \A ch \in Chans : clients[c].chan[ch] \in {"none", "gone"}
        /\ \A w \in Workers : worker[w].client # c
        /\ \A w \in Workers : \A m \in ToSet(wq[w]) : m.client # c
        /\ \A m \in ToSet(mq) : m.client # c

\* The synchronous DISCONNECT: a worker has no more references to an rcc that
\* is destroyed, neither in its queue nor in what it is in the middle of.
RccAlive ==
    \A w \in Workers :
        /\ \A m \in ToSet(wq[w]) :
              m.type # "connect" => clients[m.client].chan[m.chan] \in {"on", "off"}
        /\ worker[w] # Idle =>
              clients[worker[w].client].chan[worker[w].chan] \in {"on", "off"}

\* The assertions of reds_handle_other_links, red_client_destroy and
\* red_channel_client_set_migration_seamless, and the spice_error of
\* red_client_semi_seamless_migrate_complete.
NeverAborts == ~ aborted

\* num_migrated_channels counts the channels that wait for their data, across
\* the threads that decrement it, and a seamless migration is under way
\* exactly as long as one of them waits; whichever thread takes the last one
\* away, the main channel is told of the completion once.
MigrationCount ==
    \A c \in Ids : LET cl == clients[c]
                  IN  /\ cl.migrated = Cardinality(cl.waits)
                      /\ cl.seamless <=> cl.waits # {}
                      /\ cl.seamless => cl.during
                      /\ cl.completed <= 1

\* red_channel_handle_migrate_data: the data of the source finds the channel
\* waiting for it, however the links and the handshake were interleaved.
DataExpected == \A c \in Ids : ~ clients[c].unexpected

Seats == 1 .. Max({Len(m.kinds) : m \in Modes})

\* A client whose main channel is lost is destroyed and freed in the end: the
\* main thread and the workers do not wait for each other for ever.
ClientFreed ==
    \A c \in Seats : (c \in Ids /\ clients[c].chan[Main] = "off") ~> (c \in Ids /\ clients[c].freed)

\* When the last channel has its data the main channel is told, from whatever
\* thread, unless the client goes away.
MigrationTold ==
    \A c \in Seats : (c \in Ids /\ clients[c].kind = "seamless" /\ ~ clients[c].during)
                        ~> (c \in Ids /\ (clients[c].completed = 1 \/ ~ clients[c].listed))
=============================================================================
