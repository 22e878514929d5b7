----------------------------- MODULE PixmapCache -----------------------------
(***************************************************************************)
(* The pixmap cache that the display channels of one client share          *)
(* (red_client_shared_cache.h, red_worker.c), and its mirror in spice-gtk. *)
(*                                                                         *)
(* Every display channel is served by a worker thread of its own.  While   *)
(* it marshals a message it takes the lock of the cache once per image     *)
(* (fill_bits): a hit becomes a reference, a miss is added and may evict   *)
(* the least recently used images.  An eviction is told to the client with *)
(* the message, behind a WAIT_FOR_CHANNELS for the last serials at which   *)
(* the other channels used the evicted image.  Client channels are         *)
(* coroutines; each handles its own messages in order and waits for the    *)
(* serials and for the images it needs.                                    *)
(***************************************************************************)
EXTENDS Integers, Sequences, FiniteSets, FiniteSetsExt, SequencesExt

CONSTANTS Channels,     \* display channels of the client, by common.id
          Images,       \* images with SPICE_IMAGE_FLAGS_CACHE_ME, by id
          Big,          \* the images of two units of size; the others have one
          Size,         \* pixmap_cache_size of DISPLAY_INIT
          Modes,        \* the kinds of clients to consider
          Migrates,     \* the virtual machine may migrate, once
          MaxItems      \* bound: drawables and MIGRATE_DATA per channel

(* mini: rcc->is_mini_header; jpeg: display_channel->enable_jpeg; users:   *)
(* the channels that are connected; calls: fill_bits calls per message.    *)
Mode == [mini : BOOLEAN, jpeg : BOOLEAN, users : SUBSET Channels, calls : 1 .. 2]

ASSUME PixmapAssumption == /\ IsFiniteSet(Channels) /\ IsFiniteSet(Images)
                           /\ Big \subseteq Images /\ Size \in Nat \ {0}
                           /\ Modes \subseteq Mode /\ Modes # {}
                           /\ Migrates \in BOOLEAN /\ MaxItems \in Nat

VARIABLES mode,     \* the kind of client, settled when it connects
          host,     \* where channel c is served: src, moving, arrived, dst
          cache,    \* the PixmapCache of the source and of the target
          serial,   \* send_data.serial: the message being marshalled
          used,     \* drawables and MIGRATE_DATA so far, for the bound
          draft,    \* dcc->send_data and the message being marshalled
          gen,      \* dcc->pixmap_cache_generation
          pipe,     \* PIXMAP_SYNC and PIXMAP_RESET items in the pipe
          data,     \* the MIGRATE_DATA on its way through the client
          wire,     \* messages the client has not finished, per channel
          last,     \* the client's last_message_serial, per channel
          images    \* the client's cache

vars == <<mode, host, cache, serial, used, draft, gen, pipe, data, wire, last, images>>

-----------------------------------------------------------------------------
(* Types.                                                                  *)

Serials == [Channels -> Nat]
NoSerials == [c \in Channels |-> 0]
Hosts == {"src", "dst"}

Item == [id : Images, sync : Serials, lossy : BOOLEAN]
Cache == [lru : Seq(Item), available : Int, size : Int, frozen : BOOLEAN,
          generation : Nat, sync : Serials,
          initiator : Serials]

(* What a message makes the client do, in order.                           *)
ImageOps == {"put", "put_lossy", "replace", "get", "get_lossless", "inval"}
Op == [op : ImageOps, id : Images] \cup [op : {"wait"}, until : Serials]
      \cup [op : {"clear", "migrate"}]
Message == [serial : Nat, ops : Seq(Op)]

(* ops: the images of the message; freed and sync: send_data.free_list;    *)
(* items: send_data.pixmap_cache_items; calls: fill_bits calls so far;     *)
(* urgent: the urgent marshaller is in use.                                *)
None == [ops |-> <<>>, freed |-> <<>>, sync |-> NoSerials, items |-> <<>>,
         calls |-> 0, active |-> FALSE, urgent |-> FALSE]

TypeOK ==
    /\ mode \in Modes
    /\ host \in [Channels -> {"src", "moving", "arrived", "dst"}]
    /\ cache \in [Hosts -> Cache]
    /\ serial \in Serials
    /\ used \in [Channels -> 0 .. MaxItems]
    /\ draft \in [Channels -> [ops : Seq(Op), freed : Seq(Images), sync : Serials,
                               items : Seq(Images), calls : 0 .. mode.calls,
                               active : BOOLEAN, urgent : BOOLEAN]]
    /\ gen \in [Channels -> Nat]
    /\ pipe \in [Channels -> SUBSET {"sync", "reset"}]
    /\ data \in [Channels -> [freezer : BOOLEAN, sync : Serials]]
    /\ wire \in [Channels -> Seq(Message)]
    /\ last \in Serials
    /\ images \in [Images -> [refs : Nat, lossy : BOOLEAN]]

(* red_create_pixmap_cache                                                 *)
NewCache(size) == [lru |-> <<>>, available |-> size, size |-> size, frozen |-> FALSE,
                   generation |-> 0, sync |-> NoSerials,
                   initiator |-> NoSerials]

(* display_channel_init_cache by the first channel on the source; on the   *)
(* target the size is -1 until the channel that froze the cache arrives.   *)
Init ==
    /\ mode \in Modes
    /\ host = [c \in Channels |-> "src"]
    /\ cache = [h \in Hosts |-> NewCache(IF h = "src" THEN Size ELSE -1)]
    /\ serial = NoSerials
    /\ used = [c \in Channels |-> 0]
    /\ draft = [c \in Channels |-> None]
    /\ gen = [c \in Channels |-> 0]
    /\ pipe = [c \in Channels |-> {}]
    /\ data = [c \in Channels |-> [freezer |-> FALSE, sync |-> NoSerials]]
    /\ wire = [c \in Channels |-> <<>>]
    /\ last = NoSerials
    /\ images = [i \in Images |-> [refs |-> 0, lossy |-> FALSE]]

-----------------------------------------------------------------------------
(* red_client_shared_cache.h, under the lock of the cache.                 *)

Cached(k, i) == \E j \in DOMAIN k.lru : k.lru[j].id = i
At(k, i) == CHOOSE j \in DOMAIN k.lru : k.lru[j].id = i
ItemOf(k, i) == k.lru[At(k, i)]

(* pixmap_cache_unlocked_hit when the item is found: to the front, stamped. *)
Stamped(k, c, i) ==
    [k EXCEPT !.lru = <<[ItemOf(k, i) EXCEPT !.sync[c] = serial[c]]>>
                          \o RemoveAt(@, At(k, i)),
              !.sync[c] = serial[c]]

(* pixmap_cache_unlocked_set_lossy                                         *)
SetLossless(k, i) ==
    [k EXCEPT !.lru = [j \in DOMAIN @ |-> IF @[j].id = i
                                          THEN [@[j] EXCEPT !.lossy = FALSE]
                                          ELSE @[j]]]

PixelsOf(i) == IF i \in Big THEN 2 ELSE 1
Pixels(s) == Len(s) + Cardinality({j \in DOMAIN s : s[j].id \in Big})
LastItems(s, n) == SubSeq(s, Len(s) - n + 1, Len(s))

(* The loop of pixmap_cache_unlocked_add stops at the first item from the  *)
(* tail that the message itself uses, or as soon as the image fits.        *)
Evictable(k, c) ==
    Max({n \in 0 .. Len(k.lru) :
            \A x \in Range(LastItems(k.lru, n)) : x.sync[c] # serial[c]})
Fits(k, i, n) == k.available + Pixels(LastItems(k.lru, n)) >= PixelsOf(i)
Evictions(k, c, i) ==
    Min({Evictable(k, c)} \cup {n \in 0 .. Len(k.lru) : Fits(k, i, n)})

Outdated(k, c) == k.generation # gen[c]
CanAdd(k, c, i) == ~Outdated(k, c) /\ Fits(k, i, Evictions(k, c, i))

(* pixmap_cache_unlocked_add: what it evicts stays evicted when the new    *)
(* image does not fit after all.                                           *)
Evicted(k, c, i) ==
    IF Outdated(k, c) THEN <<>> ELSE Reverse(LastItems(k.lru, Evictions(k, c, i)))

(* ... without the room that the evicted images leave                      *)
ShrunkOnly(k, c, i) ==
    [k EXCEPT !.lru = SubSeq(@, 1, Len(@) - Len(Evicted(k, c, i))), !.sync[c] = serial[c]]

Shrunk(k, c, i) ==
    LET n == Len(Evicted(k, c, i)) IN
    [k EXCEPT !.lru = SubSeq(@, 1, Len(@) - n),
              !.available = @ + Pixels(Evicted(k, c, i)),
              !.sync[c] = IF n > 0 THEN serial[c] ELSE @]
Added(k, c, i, lossy) ==
    IF ~CanAdd(k, c, i) THEN Shrunk(k, c, i)
    ELSE [Shrunk(k, c, i) EXCEPT
            !.lru = <<[id |-> i, lossy |-> lossy,
                       sync |-> [NoSerials EXCEPT ![c] = serial[c]]]>> \o @,
            !.available = @ - PixelsOf(i),
            !.sync[c] = serial[c]]

(* ... without the serials of the item's users                             *)
PushReleaseOnly(d, evicted) ==
    [d EXCEPT !.freed = @ \o [j \in DOMAIN evicted |-> evicted[j].id]]

(* display_channel_push_release, for every evicted item                    *)
PushRelease(d, evicted) ==
    [d EXCEPT !.freed = @ \o [j \in DOMAIN evicted |-> evicted[j].id],
              !.sync = [c \in Channels |->
                           Max({@[c]} \cup {x.sync[c] : x \in Range(evicted)})]]

(* ... the others are not made to synchronize                              *)
ResetSilently(k, c, n) ==
    [k EXCEPT !.lru = <<>>, !.available = k.size, !.frozen = FALSE, !.sync[c] = n]

(* pixmap_cache_reset by message n of channel c; a frozen cache is thawed. *)
ResetCache(k, c, n) ==
    [k EXCEPT !.lru = <<>>, !.available = k.size, !.frozen = FALSE,
              !.generation = @ + 1, !.sync[c] = n,
              !.initiator = [NoSerials EXCEPT ![c] = n]]

(* pixmap_cache_freeze                                                     *)
Freeze(k) == IF k.frozen THEN k
             ELSE [k EXCEPT !.lru = <<>>, !.available = -1, !.frozen = TRUE]

-----------------------------------------------------------------------------
(* The worker of channel c.                                                *)

Serving(c) == host[c] \in Hosts
CacheOf(c) == cache[host[c]]
ImageOp(op, i) == [op |-> op, id |-> i]

(* red_channel_client_reset_send_data and red_display_reset_send_data: a   *)
(* drawable is taken from the pipe.  The guest draws where it runs.        *)
StartDrawable(c) ==
    /\ c \in mode.users /\ Serving(c) /\ ~draft[c].active
    /\ \/ host[c] = "dst"
       \/ \A d \in Channels : host[d] = "src"
    /\ used[c] < MaxItems
    /\ used' = [used EXCEPT ![c] = @ + 1]
    /\ serial' = [serial EXCEPT ![c] = @ + 1]
    /\ draft' = [draft EXCEPT ![c] = [None EXCEPT !.active = TRUE]]
    /\ UNCHANGED <<mode, host, cache, gen, pipe, data, wire, last, images>>

Composing(c) == draft[c].active /\ ~draft[c].urgent

(* is_bitmap_lossy: asked before fill_bits when lossy images are allowed.  *)
IsBitmapLossy(c, i) ==
    /\ Composing(c) /\ mode.jpeg
    /\ draft[c].calls < mode.calls
    /\ Cached(CacheOf(c), i)
    /\ cache' = [cache EXCEPT ![host[c]] = Stamped(@, c, i)]
    /\ UNCHANGED <<mode, used, host, serial, draft, gen, pipe, data, wire, last, images>>

(* fill_bits: the image is cached.  A lossy item that must not be lossy is *)
(* sent again, as a replacement.                                           *)
FillFromCache(c, i, can_lossy) ==
    /\ Composing(c)
    /\ draft[c].calls < mode.calls
    /\ Cached(CacheOf(c), i)
    /\ LET lossy == ItemOf(CacheOf(c), i).lossy
           op == IF ~can_lossy /\ lossy THEN "replace"
                 ELSE IF ~mode.jpeg \/ lossy THEN "get"
                 ELSE "get_lossless"
           k == Stamped(CacheOf(c), c, i)
       IN /\ cache' = [cache EXCEPT ![host[c]] = IF op = "replace"
                                                 THEN SetLossless(k, i) ELSE k]
          /\ draft' = [draft EXCEPT ![c].ops = Append(@, ImageOp(op, i)),
                                    ![c].items = Append(@, i),
                                    ![c].calls = @ + 1]
    /\ UNCHANGED <<mode, used, host, serial, gen, pipe, data, wire, last, images>>

(* fill_bits and red_display_add_image_to_pixmap_cache: the image is not   *)
(* cached.  It is compressed, perhaps lossily, and added if that succeeds. *)
FillAndAdd(c, i, is_lossy) ==
    /\ Composing(c)
    /\ draft[c].calls < mode.calls
    /\ ~Cached(CacheOf(c), i)
    /\ is_lossy => mode.jpeg
    /\ LET k == CacheOf(c)
           d == PushRelease(draft[c], Evicted(k, c, i))
       IN /\ cache' = [cache EXCEPT ![host[c]] = Added(k, c, i, is_lossy)]
          /\ pipe' = [pipe EXCEPT ![c] = IF Outdated(k, c) THEN @ \cup {"sync"} ELSE @]
          /\ draft' = [draft EXCEPT ![c] =
                IF ~CanAdd(k, c, i) THEN [d EXCEPT !.calls = @ + 1]
                ELSE [d EXCEPT !.calls = @ + 1,
                               !.items = Append(@, i),
                               !.ops = Append(@, ImageOp(IF is_lossy THEN "put_lossy"
                                                         ELSE "put", i))]]
    /\ UNCHANGED <<mode, used, host, serial, gen, data, wire, last, images>>

(* display_begin_send_message: the channels to wait for, then the list.    *)
WaitFor(until) == IF \A c \in Channels : until[c] = 0 THEN <<>>
                  ELSE <<[op |-> "wait", until |-> until]>>
FreeList(c) == WaitFor([draft[c].sync EXCEPT ![c] = 0])
               \o [j \in DOMAIN draft[c].freed |-> ImageOp("inval", draft[c].freed[j])]

(* Without a free list, or with it as sub-messages of the message itself   *)
(* (display_channel_send_free_list_legacy).                                *)
SendDrawable(c) ==
    /\ Composing(c)
    /\ draft[c].freed = <<>> \/ ~mode.mini
    /\ wire' = [wire EXCEPT ![c] =
            Append(@, [serial |-> serial[c],
                       ops |-> (IF draft[c].freed = <<>> THEN <<>> ELSE FreeList(c))
                               \o draft[c].ops])]
    /\ draft' = [draft EXCEPT ![c] = None]
    /\ UNCHANGED <<mode, used, host, cache, serial, gen, pipe, data, last, images>>

(* display_channel_send_free_list with a mini header: the list becomes an  *)
(* urgent message with the old serial ...                                  *)
SwitchToUrgent(c) ==
    /\ Composing(c)
    /\ draft[c].freed # <<>> /\ mode.mini
    /\ serial' = [serial EXCEPT ![c] = @ + 1]
    /\ draft' = [draft EXCEPT ![c].urgent = TRUE]
    /\ UNCHANGED <<mode, used, host, cache, gen, pipe, data, wire, last, images>>

(* ... the items of the message behind it are stamped with the new one,    *)
(* each under the lock (pixmap_cache_hit) ...                              *)
UpdateSerial(c) ==
    /\ draft[c].urgent /\ draft[c].items # <<>>
    /\ LET i == Head(draft[c].items)
       IN cache' = [cache EXCEPT ![host[c]] = IF Cached(@, i) THEN Stamped(@, c, i) ELSE @]
    /\ draft' = [draft EXCEPT ![c].items = Tail(@)]
    /\ UNCHANGED <<mode, used, host, serial, gen, pipe, data, wire, last, images>>

(* ... and both are sent.                                                  *)
SendUrgent(c) ==
    /\ draft[c].urgent /\ draft[c].items = <<>>
    /\ wire' = [wire EXCEPT ![c] = @ \o <<[serial |-> serial[c] - 1, ops |-> FreeList(c)],
                                          [serial |-> serial[c], ops |-> draft[c].ops]>>]
    /\ draft' = [draft EXCEPT ![c] = None]
    /\ UNCHANGED <<mode, used, host, cache, serial, gen, pipe, data, last, images>>

(* display_channel_marshall_pixmap_sync                                    *)
PixmapSync(c) ==
    /\ Serving(c) /\ ~draft[c].active /\ "sync" \in pipe[c]
    /\ LET k == CacheOf(c)
       IN /\ wire' = [wire EXCEPT ![c] = Append(@,
                [serial |-> serial[c] + 1,
                 ops |-> WaitFor(k.initiator)])]
          /\ gen' = [gen EXCEPT ![c] = k.generation]
    /\ pipe' = [pipe EXCEPT ![c] = @ \ {"sync"}]
    /\ serial' = [serial EXCEPT ![c] = @ + 1]
    /\ UNCHANGED <<mode, used, host, cache, draft, data, last, images>>

(* display_channel_marshall_reset_cache: behind what all the channels have *)
(* put in the cache.                                                       *)
PixmapReset(c) ==
    /\ Serving(c) /\ ~draft[c].active /\ "reset" \in pipe[c]
    /\ LET k == CacheOf(c)
           n == serial[c] + 1
       IN /\ cache' = [cache EXCEPT ![host[c]] = ResetCache(k, c, n)]
          /\ gen' = [gen EXCEPT ![c] = k.generation + 1]
          /\ wire' = [wire EXCEPT ![c] = Append(@,
                [serial |-> n,
                 ops |-> Append(WaitFor([k.sync EXCEPT ![c] = 0]), [op |-> "clear"])])]
          /\ serial' = [serial EXCEPT ![c] = n]
    /\ pipe' = [pipe EXCEPT ![c] = @ \ {"reset"}]
    /\ UNCHANGED <<mode, used, host, draft, data, last, images>>

(* display_channel_marshall_migrate_data: whoever freezes the cache will   *)
(* reset it.  The machine is stopped: no channel marshals a drawable.      *)
MigrateData(c) ==
    /\ Migrates /\ c \in mode.users /\ host[c] = "src"
    /\ used[c] < MaxItems
    /\ used' = [used EXCEPT ![c] = @ + 1]
    /\ \A d \in Channels : ~draft[d].active
    /\ data' = [data EXCEPT ![c] = [freezer |-> ~cache["src"].frozen,
                                    sync |-> cache["src"].sync]]
    /\ cache' = [cache EXCEPT !["src"] = Freeze(@)]
    /\ wire' = [wire EXCEPT ![c] = Append(@, [serial |-> serial[c] + 1,
                                              ops |-> <<[op |-> "migrate"]>>])]
    /\ serial' = [serial EXCEPT ![c] = @ + 1]
    /\ host' = [host EXCEPT ![c] = "moving"]
    /\ UNCHANGED <<mode, draft, gen, pipe, last, images>>

(* display_channel_handle_migrate_data on the target.                      *)
HandleMigrateData(c) ==
    /\ host[c] = "arrived"
    /\ cache' = [cache EXCEPT
            !["dst"].sync = [d \in Channels |-> Max({@[d], data[c].sync[d]})],
            !["dst"].size = IF data[c].freezer THEN Size ELSE @]
    /\ pipe' = [pipe EXCEPT ![c] = IF data[c].freezer THEN @ \cup {"reset"} ELSE @]
    /\ host' = [host EXCEPT ![c] = "dst"]
    /\ UNCHANGED <<mode, used, serial, draft, gen, data, wire, last, images>>

-----------------------------------------------------------------------------
(* The client: the coroutine of channel c handles its next message.        *)

NextOp(c) == Head(Head(wire[c]).ops)
HasOp(c, ops) == wire[c] # <<>> /\ Head(wire[c]).ops # <<>> /\ NextOp(c).op \in ops

(* spice_channel_recv_msg sets last_message_serial when all is handled.    *)
OpDone(c) ==
    LET m == Head(wire[c]) IN
    IF Len(m.ops) > 1
    THEN /\ wire' = [wire EXCEPT ![c] = <<[m EXCEPT !.ops = Tail(@)]>> \o Tail(@)]
         /\ UNCHANGED last
    ELSE /\ wire' = [wire EXCEPT ![c] = Tail(@)]
         /\ last' = [last EXCEPT ![c] = m.serial]

ServerUnchanged == UNCHANGED <<mode, used, cache, serial, draft, gen, pipe, data>>

(* A message without images: other draws, or images that are not cached.   *)
HandleOther(c) ==
    /\ wire[c] # <<>> /\ Head(wire[c]).ops = <<>>
    /\ OpDone(c)
    /\ ServerUnchanged /\ UNCHANGED <<host, images>>

(* ... and the message after it                                            *)
WaitOverNext(c) == \A d \in Channels : NextOp(c).until[d] = 0 \/ last[d] > NextOp(c).until[d]

(* wait_for_channel                                                        *)
WaitOver(c) == \A d \in Channels : last[d] >= NextOp(c).until[d]
HandleWait(c) ==
    /\ HasOp(c, {"wait"}) /\ WaitOver(c)
    /\ OpDone(c)
    /\ ServerUnchanged /\ UNCHANGED <<host, images>>

(* image_put, image_put_lossy, image_replace_lossy: all of them count.     *)
HandlePut(c) ==
    /\ HasOp(c, {"put", "put_lossy", "replace"})
    /\ images' = [images EXCEPT ![NextOp(c).id] =
                    [refs |-> @.refs + 1, lossy |-> NextOp(c).op = "put_lossy"]]
    /\ OpDone(c)
    /\ ServerUnchanged /\ UNCHANGED host

(* wait_image                                                              *)
ImageThere(c) == /\ images[NextOp(c).id].refs > 0
                 /\ NextOp(c).op = "get" \/ ~images[NextOp(c).id].lossy
HandleGet(c) ==
    /\ HasOp(c, {"get", "get_lossless"}) /\ ImageThere(c)
    /\ OpDone(c)
    /\ ServerUnchanged /\ UNCHANGED <<host, images>>

(* ... whether the image is there or not                                   *)
HandleInvalBlindly(c) ==
    /\ HasOp(c, {"inval"})
    /\ images' = [images EXCEPT ![NextOp(c).id].refs = @ - 1]
    /\ OpDone(c)
    /\ ServerUnchanged /\ UNCHANGED host

(* display_handle_inv_list and cache_remove                                *)
HandleInval(c) ==
    /\ HasOp(c, {"inval"})
    /\ images' = [images EXCEPT ![NextOp(c).id].refs = Max({@ - 1, 0})]
    /\ OpDone(c)
    /\ ServerUnchanged /\ UNCHANGED host

(* display_handle_inv_pixmap_all, after its wait                           *)
HandleInvalAll(c) ==
    /\ HasOp(c, {"clear"})
    /\ images' = [i \in Images |-> [images[i] EXCEPT !.refs = 0]]
    /\ OpDone(c)
    /\ ServerUnchanged /\ UNCHANGED host

(* MIGRATE_DATA: the client passes it on to the target.                    *)
ForwardMigrateData(c) ==
    /\ HasOp(c, {"migrate"})
    /\ host' = [host EXCEPT ![c] = "arrived"]
    /\ OpDone(c)
    /\ ServerUnchanged /\ UNCHANGED images

Client(c) ==
    \/ HandleOther(c) \/ HandleWait(c) \/ HandlePut(c) \/ HandleGet(c)
    \/ HandleInval(c) \/ HandleInvalAll(c) \/ ForwardMigrateData(c)

Worker(c) ==
    \/ StartDrawable(c)
    \/ \E i \in Images : IsBitmapLossy(c, i)
    \/ \E i \in Images, b \in BOOLEAN : FillFromCache(c, i, b)
    \/ \E i \in Images, b \in BOOLEAN : FillAndAdd(c, i, b)
    \/ SendDrawable(c) \/ SwitchToUrgent(c) \/ UpdateSerial(c) \/ SendUrgent(c)
    \/ PixmapSync(c) \/ PixmapReset(c)
    \/ MigrateData(c) \/ HandleMigrateData(c)

Next == \E c \in Channels : Worker(c) \/ Client(c)

Spec == Init /\ [][Next]_vars

-----------------------------------------------------------------------------
(* Nothing is being marshalled and no message waits in a pipe.             *)
Quiet == \A c \in Channels : Serving(c) /\ ~draft[c].active /\ pipe[c] = {}
CanHandle(c) == \/ wire[c] # <<>> /\ Head(wire[c]).ops = <<>>
                \/ HasOp(c, {"put", "put_lossy", "replace", "inval", "clear", "migrate"})
                \/ HasOp(c, {"wait"}) /\ WaitOver(c)
                \/ HasOp(c, {"get", "get_lossless"}) /\ ImageThere(c)
(* ... and everything is handled, all channels being served in one place.  *)
Delivered(h) == Quiet /\ \A c \in mode.users : wire[c] = <<>> /\ host[c] = h

(* The channels of a client never wait for each other, or for an image     *)
(* that nobody sends: when the workers have sent what they were            *)
(* marshalling and something is left to handle, some channel can handle    *)
(* it (wait_for_channel, wait_image).                                      *)
NoStandstill ==
    Quiet => \/ \A c \in Channels : wire[c] = <<>>
             \/ \E c \in Channels : CanHandle(c)

(* When everything is handled, the client has every image that the server  *)
(* takes to be cached, and lossless where the server thinks so: the next   *)
(* FROM_CACHE or FROM_CACHE_LOSSLESS is served (fill_bits).                 *)
NothingMissing ==
    \A h \in Hosts : Delivered(h) =>
        \A x \in Range(cache[h].lru) : /\ images[x.id].refs > 0
                                       /\ images[x.id].lossy => x.lossy

(* ... and nothing else: what the server evicted                           *)
(* (pixmap_cache_unlocked_add) the client has dropped, so that its cache   *)
(* stays within the size it asked for.  A replaced lossy image is counted  *)
(* twice by the client and stays; with mini headers and several channels   *)
(* see InvalFindsImage.                                                    *)
NothingLeft ==
    \A h \in Hosts : Delivered(h) /\ ~mode.jpeg /\ (mode.mini => Cardinality(mode.users) = 1) =>
        \A i \in Images : images[i].refs = IF Cached(cache[h], i) THEN 1 ELSE 0

(* An image is dropped after all the messages that put it or refer to it:  *)
(* the serials in WAIT_FOR_CHANNELS cover every use of the image, also by  *)
(* a message that an urgent INVAL_LIST has moved to the next serial        *)
(* (display_channel_send_free_list); cache_remove always finds its image.  *)
InvalFindsImage ==
    \A c \in Channels : HasOp(c, {"inval"}) => images[NextOp(c).id].refs > 0

(* The sizes of the cached images and the room left make up the size, and  *)
(* a frozen cache holds nothing (available).                                *)
SizeAccounted ==
    \A h \in Hosts : LET k == cache[h] IN
        /\ k.available >= 0 => k.available + Pixels(k.lru) = k.size
        /\ k.available < 0 => k.lru = <<>>
=============================================================================
