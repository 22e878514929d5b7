-------------------------- MODULE RedClient_proofs --------------------------
(***************************************************************************)
(* Proofs about RedClient, for any number of clients, channels and workers *)
(* and any kinds of use.                                                   *)
(*                                                                         *)
(* RccInv is what makes the synchronous DISCONNECT of red_client_destroy   *)
(* safe.  MigrationInv adds the count of the channels that wait for the    *)
(* data of the source, and the completions that are under way.  Both hold  *)
(* in the late and the torn modes too.  LifetimeInv is about the reference *)
(* count and what becomes of a client, in the modes that are InTime.       *)
(* AssertInv is about who is in the list, and shows that no assertion      *)
(* fails; ExpectInv adds what a migration target has linked and what is    *)
(* asked for it, and shows that no data of the source is unexpected.       *)
(***************************************************************************)
EXTENDS RedClient, SequenceParts_proofs

-----------------------------------------------------------------------------
(* Types. *)

Client ==
    [kind : Kinds, refs : Int, freed : BOOLEAN, listed : BOOLEAN, disconnecting : BOOLEAN,
     during : BOOLEAN, seamless : BOOLEAN, migrated : Int, waits : SUBSET Chans,
     ring : Seq(Chans), pending : Seq(Chans),
     chan : [Chans -> {"none", "on", "off", "gone"}], links : [Chans -> 0 .. MaxLinks],
     left : BOOLEAN, sent : SUBSET Chans, unexpected : BOOLEAN, completed : Nat]

\* What the main thread and a worker are in the middle of.
Destroying ==
    [client : Nat \ {0}, walk : Seq(Chans), step : {"next", "waits", "acked"},
     then : {"unref", "link"}]
Posting ==
    [client : Nat \ {0}, chan : Remote, type : {"complete", "latency"},
     step : {"ref", "post"}, seen : Int]

Requests == [type : {"connect", "migrate", "disconnect"}, client : Nat \ {0}, chan : Remote]
Reports  == [type : {"complete", "latency", "disconnect"}, client : Nat \ {0}, chan : {Main}]

\* The client the main thread destroys, and the channel it is at.
Busy   == main # Idle
Victim == Head(main.walk)

\* A channel without an rcc comes up at most once in chs.
Fresh(cl, chs) ==
    \A i, j \in DOMAIN chs : chs[i] = chs[j] /\ cl.chan[chs[i]] = "none" => i = j

\* The rccs of a client: those in its ring have not been destroyed, and none is there
\* twice.  A link that is pending has been counted, and is pending once.
RingOf(cl) ==
    /\ IsInjective(cl.ring) /\ ToSet(cl.ring) = {ch \in Chans : cl.chan[ch] \in {"on", "off"}}
    /\ cl.chan[Main] # "none"
    /\ \A ch \in ToSet(cl.pending) : ch # Main /\ cl.links[ch] > 0
    /\ Fresh(cl, cl.pending)

ThreadInv ==
    /\ mode \in Modes /\ dst \in BOOLEAN /\ aborted \in BOOLEAN /\ told \in 0 .. MaxLatency
    /\ Busy => main \in Destroying /\ main.client \in Ids
    /\ Busy /\ main.then = "link" => Len(clients) < Len(mode.kinds)
    /\ worker \in [Workers -> {Idle} \cup Posting]
    /\ \A w \in Workers : worker[w] # Idle =>
          worker[w].client \in Ids /\ Worker[worker[w].chan] = w

QueueInv ==
    /\ mq \in Seq(Reports) /\ \A i \in DOMAIN mq : mq[i].client \in Ids
    /\ wq \in [Workers -> Seq(Requests)]
    /\ \A w \in Workers : \A i \in DOMAIN wq[w] :
          wq[w][i].client \in Ids /\ Worker[wq[w][i].chan] = w

ClientInv ==
    /\ clients \in Seq(Client) /\ Len(clients) <= Len(mode.kinds) /\ mig \subseteq Ids
    /\ \A c \in Ids : RingOf(clients[c])

-----------------------------------------------------------------------------
(* The synchronous DISCONNECT. *)

\* The rcc of c and ch has not been destroyed.
Alive(c, ch) == clients[c].chan[ch] \in {"on", "off"}

\* The main thread walks channels that are in the ring, each once; it asks and waits
\* for workers only.
WalkInv ==
    Busy => /\ IsInjective(main.walk) /\ \A i \in DOMAIN main.walk : Alive(main.client, main.walk[i])
            /\ main.step # "next" => main.walk # <<>> /\ Victim \in Remote

\* A DISCONNECT is the one the main thread waits for, and it is the last message of
\* its queue.  Once it is acknowledged nothing of the worker is about that rcc.
AskInv ==
    /\ \A w \in Workers : \A i \in DOMAIN wq[w] : wq[w][i].type = "disconnect" =>
          /\ Busy /\ main.step = "waits" /\ i = Len(wq[w])
          /\ wq[w][i].client = main.client /\ wq[w][i].chan = Victim
    /\ Busy /\ main.step = "acked" =>
          /\ wq[Worker[Victim]] = <<>> /\ clients[main.client].chan[Victim] = "off"
          /\ worker[Worker[Victim]].client = main.client
                => worker[Worker[Victim]].chan # Victim

\* RccAlive, by position.
AliveInv ==
    /\ \A w \in Workers : \A i \in DOMAIN wq[w] :
          wq[w][i].type # "connect" => Alive(wq[w][i].client, wq[w][i].chan)
    /\ \A w \in Workers : worker[w] # Idle => Alive(worker[w].client, worker[w].chan)

-----------------------------------------------------------------------------
(* What the operators do to one client, and a message to the queues. *)

Fields ==
    {"kind", "refs", "freed", "listed", "disconnecting", "during", "seamless", "migrated",
     "waits", "ring", "pending", "chan", "links", "left", "sent", "unexpected", "completed"}

\* r differs from cl in the fields of F at most.
Only(r, cl, F) == \A f \in Fields \ F : r[f] = cl[f]

\* Client c becomes r, and the others stay.
Becomes(c, r) == clients' = [clients EXCEPT ![c] = r]

\* A client of the sequence has the type of one.
LEMMA ClientType ==
  ASSUME clients \in Seq(Client), NEW c \in Ids
  PROVE  clients[c] \in Client
BY DEF Ids

\* A step that changes one client.
LEMMA OneChanged ==
  ASSUME clients \in Seq(Client), NEW c \in Ids, NEW r \in Client, Becomes(c, r)
  PROVE  /\ clients' \in Seq(Client) /\ Len(clients') = Len(clients) /\ Ids' = Ids
         /\ clients'[c] = r /\ \A d \in Ids \ {c} : clients'[d] = clients[d]
BY DEF Ids, Becomes

\* A client that has just linked.
LEMMA NewClient ==
  ASSUME NEW kind \in Kinds
  PROVE  red_client_new(kind) \in Client /\ RingOf(red_client_new(kind))
<1>1. PICK r : r = red_client_new(kind)
  OBVIOUS
<1>2. r \in Client
  BY <1>1, ClientAssumption DEF red_client_new, Client, Chans
<1>3. /\ r.ring = <<Main>> /\ r.pending = <<>>
      /\ \A ch \in Chans : r.chan[ch] = IF ch = Main THEN "on" ELSE "none"
  BY <1>1 DEF red_client_new
<1>4. Main \in Chans
  BY DEF Chans
<1>5. IsInjective(r.ring) /\ ToSet(r.ring) = {Main}
  BY <1>3 DEF IsInjective, ToSet
<1>6. ToSet(r.pending) = {} /\ DOMAIN r.pending = {}
  BY <1>3 DEF ToSet
<1> QED
  BY <1>1, <1>2, <1>3, <1>4, <1>5, <1>6 DEF RingOf, Fresh

\* red_client_unref.
LEMMA UnrefEffect ==
  ASSUME NEW cl \in Client, NEW n \in Nat, NEW r, r = Unref(cl, n)
  PROVE  /\ r \in Client /\ Only(r, cl, {"refs", "freed"})
         /\ r.refs = cl.refs - n /\ r.freed = (cl.freed \/ cl.refs - n <= 0)
<1>1. PICK b \in BOOLEAN : b = (cl.freed \/ cl.refs - n <= 0)
  BY DEF Client
<1>2. PICK k \in Int : k = cl.refs - n
  BY DEF Client
<1>3. r = [cl EXCEPT !.refs = k, !.freed = b]
  BY <1>1, <1>2 DEF Unref
<1>4. r \in Client
  BY <1>3 DEF Client
<1>5. Only(r, cl, {"refs", "freed"}) /\ r.refs = k
  BY <1>3 DEF Client, Only, Fields
<1>6. r.freed = b
  BY <1>3 DEF Client
<1> QED
  BY <1>1, <1>2, <1>4, <1>5, <1>6

\* Whether it was the last reference.
LEMMA UnrefFreed ==
  ASSUME NEW cl \in Client, NEW n \in Nat, NEW r, r = Unref(cl, n)
  PROVE  r.freed = (cl.freed \/ cl.refs - n <= 0)
BY UnrefEffect

\* The channels of S that have no rcc yet get one, and wait if a migration is under way.
Made(cl, S) == {ch \in S : cl.chan[ch] = "none"}
Waiting(cl, S) == {ch \in Made(cl, S) \cap NeedData : cl.during /\ cl.seamless}

Creates(r, cl, S) ==
    /\ r \in Client /\ Only(r, cl, {"ring", "chan", "waits", "migrated"})
    /\ \A ch \in Chans : r.chan[ch] = IF ch \in Made(cl, S) THEN "on" ELSE cl.chan[ch]
    /\ r.waits = cl.waits \cup Waiting(cl, S)
    /\ r.migrated = cl.migrated + Cardinality(Waiting(cl, S))
    /\ RingOf(cl) => /\ IsInjective(r.ring)
                     /\ ToSet(r.ring) = ToSet(cl.ring) \cup Made(cl, S)

\* There are finitely many channels and workers.
LEMMA FiniteChans ==
  /\ IsFiniteSet(Chans) /\ IsFiniteSet(Workers)
  /\ \A S \in SUBSET Chans : IsFiniteSet(S) /\ Cardinality(S) \in Nat
<1>1. IsFiniteSet(Chans)
  BY ClientAssumption, FS_Union, FS_Singleton DEF Chans
<1>2. IsFiniteSet(Workers)
  <2>1. PICK f : f = [ch \in Remote |-> Worker[ch]]
    OBVIOUS
  <2>2. f \in Surjection(Remote, Workers)
    BY <2>1 DEF Surjection, Workers
  <2> QED
    BY <2>2, ClientAssumption, FS_Surjection
<1>3. \A S \in SUBSET Chans : IsFiniteSet(S) /\ Cardinality(S) \in Nat
  BY <1>1, FS_Subset, FS_CardinalityType
<1> QED
  BY <1>1, <1>2, <1>3

\* red_channel_client_create, of channels one after the other.
LEMMA CreateEffect ==
  ASSUME NEW cl \in Client, NEW chs \in Seq(Chans), Fresh(cl, chs), NEW r, r = Create(cl, chs)
  PROVE  Creates(r, cl, ToSet(chs))
<1>1. PICK U : U = {ch \in Chans : cl.chan[ch] = "none"}
  OBVIOUS
<1>2. PICK new \in Seq(Chans) : new = Kept(chs, U)
  BY KeptElements
<1>3. ToSet(chs) \subseteq Chans
  BY DEF ToSet
<1>4. ToSet(new) = Made(cl, ToSet(chs))
  <2>1. ToSet(new) = ToSet(chs) \cap U
    BY <1>2, KeptElements DEF ToSet, Range
  <2> QED
    BY <1>1, <1>3, <2>1 DEF Made
<1>5. IsInjective(new)
  <2>1. \A i, j \in DOMAIN chs : chs[i] = chs[j] /\ chs[i] \in U => i = j
    BY <1>1 DEF Fresh
  <2> QED
    BY <1>2, <2>1, KeptOnce
<1>6. PICK W : W = Waiting(cl, ToSet(chs))
  OBVIOUS
<1>7. W \subseteq Chans /\ Cardinality(W) \in Nat
  BY <1>3, <1>6, FiniteChans DEF Waiting, Made
<1>8. PICK k \in Int : k = cl.migrated + Cardinality(W)
  BY <1>7 DEF Client
<1>9. PICK ring \in Seq(Chans) : ring = Reverse(new) \o cl.ring
  BY ReverseElements, ConcatElements DEF Client
<1>10. PICK chan \in [Chans -> {"none", "on", "off", "gone"}] :
          chan = [ch \in Chans |-> IF ch \in ToSet(new) THEN "on" ELSE cl.chan[ch]]
  BY DEF Client
<1>11. r = [cl EXCEPT !.ring = ring, !.chan = chan, !.waits = @ \cup W, !.migrated = k]
  <2>1. W = {ch \in ToSet(new) \cap NeedData : cl.during /\ cl.seamless}
    BY <1>4, <1>6 DEF Waiting
  <2>2. r = [cl EXCEPT !.ring = Reverse(new) \o @,
                 !.chan = [ch \in Chans |-> IF ch \in ToSet(new) THEN "on" ELSE cl.chan[ch]],
                 !.waits = @ \cup W, !.migrated = @ + Cardinality(W)]
    BY <1>1, <1>2, <2>1, Zenon DEF Create
  <2> QED
    BY <1>8, <1>9, <1>10, <2>2
<1>12. cl.waits \cup W \in SUBSET Chans
  BY <1>7 DEF Client
<1>13. r \in Client
  BY <1>11, <1>12, ZenonT(60) DEF Client
<1>14. Only(r, cl, {"ring", "chan", "waits", "migrated"})
  BY <1>11 DEF Only, Fields, Client
<1>15. r.ring = ring /\ r.chan = chan /\ r.waits = cl.waits \cup W /\ r.migrated = k
  BY <1>11 DEF Client
<1>16. ASSUME RingOf(cl)
       PROVE  IsInjective(r.ring) /\ ToSet(r.ring) = ToSet(cl.ring) \cup Made(cl, ToSet(chs))
  <2>1. /\ Reverse(new) \in Seq(Chans) /\ ToSet(Reverse(new)) = ToSet(new)
        /\ IsInjective(Reverse(new))
    BY <1>5, ReverseElements
  <2>2. cl.ring \in Seq(Chans) /\ IsInjective(cl.ring)
    BY <1>16 DEF Client, RingOf
  <2>3. ToSet(new) \cap ToSet(cl.ring) = {}
    BY <1>4, <1>16 DEF RingOf, Made
  <2> QED
    BY <1>4, <1>9, <1>15, <2>1, <2>2, <2>3, ConcatElements
<1> QED
  BY <1>4, <1>6, <1>8, <1>10, <1>13, <1>14, <1>15, <1>16 DEF Creates

\* reds_channel_do_link creates the local channels among chs.
LEMMA DoLinkEffect ==
  ASSUME NEW cl \in Client, NEW chs \in Seq(Chans), Fresh(cl, chs), NEW r, r = DoLink(cl, chs)
  PROVE  Creates(r, cl, ToSet(chs) \ Remote)
<1>1. PICK L : L = Chans \ Remote
  OBVIOUS
<1>2. PICK k \in Seq(Chans) : k = Kept(chs, L)
  BY KeptElements
<1>3. ToSet(k) = ToSet(chs) \ Remote
  <2>1. ToSet(chs) \subseteq Chans
    BY DEF ToSet
  <2>2. ToSet(k) = ToSet(chs) \cap L
    BY <1>2, KeptElements DEF ToSet, Range
  <2> QED
    BY <1>1, <2>1, <2>2
<1>4. Fresh(cl, k)
  <2>1. PICK U : U = {ch \in Chans : cl.chan[ch] = "none"}
    OBVIOUS
  <2>2. \A i, j \in DOMAIN chs : chs[i] = chs[j] /\ chs[i] \in U => i = j
    BY <2>1 DEF Fresh
  <2>3. \A i, j \in DOMAIN k : k[i] = k[j] /\ k[i] \in U => i = j
    BY <1>2, <2>2, KeptOnce
  <2>4. \A i \in DOMAIN k : k[i] \in Chans
    BY <1>2
  <2> QED
    BY <2>1, <2>3, <2>4 DEF Fresh
<1>5. r = Create(cl, k)
  BY <1>1, <1>2 DEF DoLink
<1> QED
  BY <1>3, <1>4, <1>5, CreateEffect

\* What RingOf is about stays.
LEMMA RingKept ==
  ASSUME NEW cl \in Client, RingOf(cl), NEW r, NEW F, Only(r, cl, F),
         F \cap {"ring", "chan", "pending", "links"} = {}
  PROVE  RingOf(r)
<1>1. r.ring = cl.ring /\ r.chan = cl.chan /\ r.pending = cl.pending /\ r.links = cl.links
  BY DEF Only, Fields
<1> QED
  BY <1>1 DEF RingOf, Fresh

\* An rcc is created, with all that RingOf says.
LEMMA RingCreated ==
  ASSUME NEW cl \in Client, RingOf(cl), NEW S, NEW r, Creates(r, cl, S), S \subseteq Chans
  PROVE  RingOf(r)
<1>1. r.pending = cl.pending /\ r.links = cl.links
  BY DEF Creates, Only, Fields
<1>2. ToSet(r.ring) = {ch \in Chans : r.chan[ch] \in {"on", "off"}}
  BY DEF Creates, RingOf, Made
<1>3. \A ch \in Chans : r.chan[ch] = "none" => cl.chan[ch] = "none"
  BY DEF Creates
<1>4. \A i \in DOMAIN cl.pending : cl.pending[i] \in Chans
  BY DEF Client
<1>5. Main \in Chans
  BY DEF Chans
<1> QED
  BY <1>1, <1>2, <1>3, <1>4, <1>5 DEF RingOf, Fresh, Creates

\* A channel of a client is disconnected, or destroyed.
Off(cl, ch)  == [cl EXCEPT !.chan[ch] = "off"]
Gone(cl, ch) == [cl EXCEPT !.chan[ch] = "gone", !.ring = Kept(@, Chans \ {ch})]

\* An rcc is disconnected: it stays in the ring.
LEMMA OffEffect ==
  ASSUME NEW cl \in Client, NEW ch \in Chans, cl.chan[ch] \in {"on", "off"},
         NEW r, r = Off(cl, ch)
  PROVE  /\ r \in Client /\ Only(r, cl, {"chan"})
         /\ \A x \in Chans : r.chan[x] = IF x = ch THEN "off" ELSE cl.chan[x]
         /\ RingOf(cl) => RingOf(r)
<1>1. PICK h \in [Chans -> {"none", "on", "off", "gone"}] : h = [cl.chan EXCEPT ![ch] = "off"]
  BY DEF Client
<1>2. r = [cl EXCEPT !.chan = h]
  BY <1>1 DEF Off
<1>a. r \in Client /\ r.chan = h
  <2>1. r \in Client
    BY <1>1, <1>2 DEF Client
  <2>2. r.chan = h
    BY <1>2 DEF Client
  <2> QED
    BY <2>1, <2>2
<1>b. Only(r, cl, {"chan"})
  BY <1>2 DEF Client, Only, Fields
<1>3. r \in Client /\ Only(r, cl, {"chan"}) /\ r.chan = h
  BY <1>a, <1>b
<1>4. \A x \in Chans : r.chan[x] = IF x = ch THEN "off" ELSE cl.chan[x]
  BY <1>1, <1>3 DEF Client
<1>5. r.ring = cl.ring /\ r.pending = cl.pending /\ r.links = cl.links
  BY <1>3 DEF Only, Fields
<1>6. \A i \in DOMAIN cl.pending : cl.pending[i] \in Chans
  BY DEF Client
<1>7. Main \in Chans
  BY DEF Chans
<1> QED
  BY <1>3, <1>4, <1>5, <1>6, <1>7 DEF RingOf, Fresh

\* An rcc is destroyed: it leaves the ring.
LEMMA GoneEffect ==
  ASSUME NEW cl \in Client, NEW ch \in Chans,
         NEW r, r = Gone(cl, ch)
  PROVE  /\ r \in Client /\ Only(r, cl, {"chan", "ring"})
         /\ \A x \in Chans : r.chan[x] = IF x = ch THEN "gone" ELSE cl.chan[x]
         /\ ToSet(r.ring) = ToSet(cl.ring) \ {ch}
         /\ RingOf(cl) => RingOf(r)
<1>1. PICK h \in [Chans -> {"none", "on", "off", "gone"}] : h = [cl.chan EXCEPT ![ch] = "gone"]
  BY DEF Client
<1>2. PICK s \in Seq(Chans) : s = cl.ring
  BY DEF Client
<1>a. PICK D : D = Chans \ {ch}
  OBVIOUS
<1>3. PICK k \in Seq(Chans) : k = Kept(s, D)
  BY KeptElements
<1>4. r = [cl EXCEPT !.chan = h, !.ring = k]
  BY <1>1, <1>2, <1>a, <1>3 DEF Gone
<1>5. r \in Client /\ Only(r, cl, {"chan", "ring"}) /\ r.chan = h /\ r.ring = k
  BY <1>4 DEF Client, Only, Fields
<1>6. \A x \in Chans : r.chan[x] = IF x = ch THEN "gone" ELSE cl.chan[x]
  BY <1>1, <1>5 DEF Client
<1>7. r.pending = cl.pending /\ r.links = cl.links
  BY <1>5 DEF Only, Fields
<1>8. (IsInjective(s) => IsInjective(k)) /\ ToSet(k) = ToSet(s) \cap D
  BY <1>3, KeptElements DEF ToSet, Range
<1>b. ToSet(s) \subseteq Chans
  BY DEF ToSet
<1>9. ToSet(r.ring) = ToSet(cl.ring) \ {ch}
  BY <1>2, <1>a, <1>5, <1>8, <1>b
<1>10. \A i \in DOMAIN cl.pending : cl.pending[i] \in Chans
  BY DEF Client
<1>11. Main \in Chans
  BY DEF Chans
<1>12. ASSUME RingOf(cl) PROVE RingOf(r)
  <2>a. IsInjective(r.ring)
    BY <1>2, <1>5, <1>8, <1>12 DEF RingOf
  <2>b. ToSet(cl.ring) = {x \in Chans : cl.chan[x] \in {"on", "off"}}
    BY <1>12 DEF RingOf
  <2>1. ToSet(r.ring) = {x \in Chans : r.chan[x] \in {"on", "off"}}
    <3>1. PICK A, B : A = ToSet(cl.ring) /\ B = ToSet(r.ring)
      OBVIOUS
    <3>2. B = A \ {ch} /\ A = {x \in Chans : cl.chan[x] \in {"on", "off"}}
      BY <1>9, <2>b, <3>1
    <3>3. \A x \in Chans : x \in B <=> r.chan[x] \in {"on", "off"}
      BY <1>6, <3>2
    <3>4. B \subseteq Chans
      BY <3>2
    <3> QED
      BY <3>1, <3>3, <3>4
  <2>2. \A x \in Chans : r.chan[x] = "none" => cl.chan[x] = "none"
    BY <1>6
  <2>3. Fresh(r, r.pending)
    BY <1>7, <1>10, <1>12, <2>2 DEF RingOf, Fresh
  <2>4. r.chan[Main] # "none"
    BY <1>6, <1>11, <1>12 DEF RingOf
  <2>5. \A x \in ToSet(r.pending) : x # Main /\ r.links[x] > 0
    BY <1>7, <1>12 DEF RingOf
  <2> QED
    BY <2>a, <2>1, <2>3, <2>4, <2>5 DEF RingOf
<1> QED
  BY <1>5, <1>6, <1>9, <1>12

-----------------------------------------------------------------------------
(* What a message does to the queues. *)

\* Requests of type t for client c and channels of S are appended, at most n for a worker.
Grows(t, c, S, n) ==
    /\ wq' \in [Workers -> Seq(Requests)]
    /\ \A w \in Workers :
          /\ Len(wq[w]) <= Len(wq'[w]) /\ Len(wq'[w]) <= Len(wq[w]) + n
          /\ \A i \in DOMAIN wq[w] : i \in DOMAIN wq'[w] /\ wq'[w][i] = wq[w][i]
          /\ \A i \in DOMAIN wq'[w] \ DOMAIN wq[w] :
                /\ wq'[w][i].type = t /\ wq'[w][i].client = c
                /\ wq'[w][i].chan \in S /\ Worker[wq'[w][i].chan] = w

\* The elements of two sequences, one after the other.
LEMMA Joined ==
  ASSUME NEW S, NEW s \in Seq(S), NEW q \in Seq(S)
  PROVE  /\ Len(s \o q) = Len(s) + Len(q)
         /\ \A i \in 1 .. Len(s) + Len(q) :
               (s \o q)[i] = IF i <= Len(s) THEN s[i] ELSE q[i - Len(s)]
BY ConcatProperties

\* dispatcher_send_message.
LEMMA SentEffect ==
  ASSUME QueueInv, NEW t \in {"connect", "migrate", "disconnect"}, NEW c \in Nat \ {0},
         NEW chs \in Seq(Chans), wq' = Sent(t, c, chs)
  PROVE  Grows(t, c, ToSet(chs), Len(chs))
<1> SUFFICES ASSUME NEW w \in Workers
             PROVE  /\ wq'[w] \in Seq(Requests)
                    /\ Len(wq[w]) <= Len(wq'[w]) /\ Len(wq'[w]) <= Len(wq[w]) + Len(chs)
                    /\ \A i \in DOMAIN wq[w] : i \in DOMAIN wq'[w] /\ wq'[w][i] = wq[w][i]
                    /\ \A i \in DOMAIN wq'[w] \ DOMAIN wq[w] :
                          /\ wq'[w][i].type = t /\ wq'[w][i].client = c
                          /\ wq'[w][i].chan \in ToSet(chs) /\ Worker[wq'[w][i].chan] = w
  BY DEF Grows, Sent
<1>1. PICK S : S = {ch \in Remote : Worker[ch] = w}
  OBVIOUS
<1>2. PICK mine \in Seq(Chans) : mine = Kept(chs, S)
  BY KeptElements
<1>3. ToSet(mine) = ToSet(chs) \cap S /\ Len(mine) <= Len(chs)
  BY <1>2, KeptElements DEF ToSet, Range
<1>4. PICK n \in Nat : n = Len(mine) /\ DOMAIN mine = 1 .. n
  BY <1>2
<1>5. PICK q : q = [i \in 1 .. n |-> Msg(t, c, mine[i])]
  OBVIOUS
<1>6. \A i \in 1 .. n : mine[i] \in ToSet(chs) /\ mine[i] \in Remote /\ Worker[mine[i]] = w
  BY <1>1, <1>3, <1>4 DEF ToSet
<1>7. \A i \in 1 .. n : Msg(t, c, mine[i]) \in Requests
  BY <1>6 DEF Msg, Requests
<1>8. q \in Seq(Requests) /\ Len(q) = n
  BY <1>5, <1>7
<1>9. PICK s \in Seq(Requests) : s = wq[w]
  BY DEF QueueInv
<1>10. wq'[w] = s \o q
  BY <1>1, <1>2, <1>4, <1>5, <1>9 DEF Sent
<1>11. PICK r \in Seq(Requests) : r = s \o q
  BY <1>8, <1>9, ConcatProperties
<1>a. PICK l \in Nat : l = Len(s) /\ DOMAIN s = 1 .. l
  BY LenProperties
<1>12. /\ Len(r) = l + n /\ DOMAIN r = 1 .. l + n
       /\ \A i \in 1 .. l : r[i] = s[i]
       /\ \A i \in 1 .. l + n : i \notin 1 .. l => r[i] = q[i - l]
  <2>1. /\ Len(r) = l + n
        /\ \A i \in 1 .. l + n : r[i] = IF i <= l THEN s[i] ELSE q[i - l]
    <3>1. /\ Len(s \o q) = Len(s) + Len(q)
          /\ \A i \in 1 .. Len(s) + Len(q) :
                (s \o q)[i] = IF i <= Len(s) THEN s[i] ELSE q[i - Len(s)]
      BY <1>8, Joined, Zenon
    <3>2. l = Len(s) /\ n = Len(q) /\ r = s \o q
      BY <1>8, <1>a, <1>11
    <3> QED
      BY <3>1, <3>2, Zenon
  <2>2. DOMAIN r = 1 .. l + n
    BY <1>11, <2>1, LenProperties
  <2> QED
    BY <2>1, <2>2
<1>13. ASSUME NEW i \in 1 .. l + n, i \notin 1 .. l
       PROVE  /\ r[i].type = t /\ r[i].client = c
              /\ r[i].chan \in ToSet(chs) /\ Worker[r[i].chan] = w
  <2>1. PICK j \in 1 .. n : j = i - l
    BY <1>13
  <2>2. r[i] = Msg(t, c, mine[j])
    BY <1>5, <1>12, <1>13, <2>1
  <2> QED
    BY <1>6, <2>1, <2>2 DEF Msg
<1>14. Len(chs) \in Nat /\ n <= Len(chs) /\ l <= l + n
  BY <1>3, <1>4
<1>15. \A i \in DOMAIN s : i \in DOMAIN r /\ r[i] = s[i]
  BY <1>a, <1>12
<1>16. wq[w] = s /\ wq'[w] = r
  BY <1>9, <1>10, <1>11
<1>17. Len(s) <= Len(r) /\ Len(r) <= Len(s) + Len(chs)
  BY <1>a, <1>12, <1>14
<1>18. \A i \in DOMAIN r \ DOMAIN s :
          /\ r[i].type = t /\ r[i].client = c
          /\ r[i].chan \in ToSet(chs) /\ Worker[r[i].chan] = w
  BY <1>a, <1>12, <1>13
<1> QED
  BY <1>11, <1>15, <1>16, <1>17, <1>18

\* dispatcher_handle_single_read of worker w.
Shrinks(w) ==
    /\ wq' \in [Workers -> Seq(Requests)] /\ Len(wq'[w]) = Len(wq[w]) - 1
    /\ \A i \in DOMAIN wq'[w] : i + 1 \in DOMAIN wq[w] /\ wq'[w][i] = wq[w][i + 1]
    /\ \A v \in Workers \ {w} : wq'[v] = wq[v]

\* A worker reads the message at the head of its queue.
LEMMA ReadEffect ==
  ASSUME QueueInv, NEW w \in Workers, wq[w] # <<>>, wq' = [wq EXCEPT ![w] = Tail(@)]
  PROVE  /\ Shrinks(w) /\ Head(wq[w]) = wq[w][1] /\ 1 \in DOMAIN wq[w]
         /\ Head(wq[w]) \in Requests /\ Len(wq[w]) \in Nat
<1>1. PICK s \in Seq(Requests) : s = wq[w]
  BY DEF QueueInv
<1>2. PICK n \in Nat : n = Len(s) /\ DOMAIN s = 1 .. n /\ n > 0
  BY <1>1
<1>3. /\ Tail(s) \in Seq(Requests) /\ Len(Tail(s)) = n - 1 /\ DOMAIN Tail(s) = 1 .. n - 1
      /\ \A i \in 1 .. n - 1 : Tail(s)[i] = s[i + 1]
  BY <1>1, <1>2
<1>4. wq'[w] = Tail(s) /\ \A v \in Workers \ {w} : wq'[v] = wq[v]
  BY <1>1 DEF QueueInv
<1>5. wq' \in [Workers -> Seq(Requests)]
  BY <1>1, <1>3 DEF QueueInv
<1>6. \A i \in 1 .. n - 1 : i + 1 \in 1 .. n
  BY <1>2
<1> QED
  BY <1>1, <1>2, <1>3, <1>4, <1>5, <1>6 DEF Shrinks

\* The queue of the main thread.
LEMMA ReportEffect ==
  ASSUME QueueInv, NEW m \in Reports, mq' = Append(mq, m)
  PROVE  /\ mq' \in Seq(Reports) /\ \A i \in DOMAIN mq : i \in DOMAIN mq' /\ mq'[i] = mq[i]
         /\ \A i \in DOMAIN mq' \ DOMAIN mq : mq'[i] = m
BY DEF QueueInv

\* The main dispatcher reads the message at the head of its queue.
LEMMA MainReadEffect ==
  ASSUME QueueInv, mq # <<>>, mq' = Tail(mq)
  PROVE  /\ mq' \in Seq(Reports) /\ \A i \in DOMAIN mq' : i + 1 \in DOMAIN mq /\ mq'[i] = mq[i + 1]
         /\ Head(mq) = mq[1] /\ 1 \in DOMAIN mq /\ Head(mq) \in Reports
BY DEF QueueInv

-----------------------------------------------------------------------------
(* What the actions do to a client. *)

TypeInv == ThreadInv /\ QueueInv /\ ClientInv

\* What the actions below need of the types.
LEMMA Known ==
  ASSUME TypeInv, NEW c \in Ids
  PROVE  /\ clients[c] \in Client /\ RingOf(clients[c]) /\ c \in Nat \ {0}
         /\ Ids = 1 .. Len(clients) /\ Len(clients) \in Nat
         /\ mode.chans \subseteq Local \cup Remote /\ mode.kinds \in Seq(Kinds)
BY ClientAssumption DEF TypeInv, ThreadInv, ClientInv, Ids, Mode

\* Client c becomes one that differs from q by the rccs of the channels of S.
Links(c, q, S) ==
    /\ q \in Client /\ RingOf(q) /\ S \subseteq Chans \ {Main}
    /\ \E r \in Client : Becomes(c, r) /\ RingOf(r) /\ Creates(r, q, S)

\* reds_client_disconnect.
LEMMA DisconnectEffect ==
  ASSUME TypeInv, NEW c \in Ids, NEW then, Disconnect(c, then)
  PROVE  \E r \in Client :
            /\ Becomes(c, r) /\ RingOf(r)
            /\ Only(r, clients[c], {"disconnecting", "listed", "pending"})
            /\ ~r.listed /\ r.disconnecting /\ r.pending = <<>>
<1>1. PICK cl \in Client : cl = clients[c] /\ RingOf(cl)
  BY Known
<1>a. PICK e \in Seq(Chans) : e = <<>>
  BY EmptySeq
<1>2. PICK r : r = [cl EXCEPT !.disconnecting = TRUE, !.listed = FALSE, !.pending = e]
  OBVIOUS
<1>3. r \in Client
  BY <1>2 DEF Client
<1>4. Only(r, cl, {"disconnecting", "listed", "pending"}) /\ r.pending = <<>>
  BY <1>a, <1>2 DEF Client, Only, Fields
<1>5. r.disconnecting = TRUE /\ r.listed = FALSE
  BY <1>2 DEF Client
<1>6. Becomes(c, r)
  BY <1>1, <1>a, <1>2 DEF Disconnect, Becomes
<1>7. RingOf(r)
  <2>1. r.ring = cl.ring /\ r.chan = cl.chan /\ r.links = cl.links
    BY <1>4 DEF Only, Fields
  <2>2. ToSet(r.pending) = {} /\ DOMAIN r.pending = {}
    BY <1>4 DEF ToSet
  <2> QED
    BY <1>1, <2>1, <2>2 DEF RingOf, Fresh
<1> QED
  BY <1>1, <1>3, <1>4, <1>5, <1>6, <1>7

\* Nothing is created.
LEMMA CreatesNone ==
  ASSUME NEW r \in Client
  PROVE  Creates(r, r, {})
<1>1. Made(r, {}) = {} /\ Waiting(r, {}) = {}
  BY DEF Made, Waiting
<1>2. Cardinality({}) = 0 /\ r.migrated + 0 = r.migrated
  BY FS_EmptySet DEF Client
<1>3. Only(r, r, {"ring", "chan", "waits", "migrated"})
  BY DEF Only
<1> QED
  BY <1>1, <1>2, <1>3 DEF Creates, RingOf

\* A link is kept for later, or the channel is created or asked for.
LEMMA OtherLinkEffect ==
  ASSUME TypeInv, NEW c \in Ids, NEW ch \in mode.chans, OtherLink(c, ch)
  PROVE  \E q :
            /\ Only(q, clients[c], {"links", "pending"})
            /\ \A x \in Chans : x # ch => q.links[x] = clients[c].links[x]
            /\ \/ /\ clients[c].during /\ ~dst
                  /\ Links(c, q, {}) /\ UNCHANGED wq
                  /\ ToSet(q.pending) = {ch} \cup ToSet(clients[c].pending)
               \/ /\ ~(clients[c].during /\ ~dst)
                  /\ Links(c, q, {ch} \ Remote) /\ Grows("connect", c, {ch}, 1)
                  /\ q.pending = clients[c].pending
<1>1. PICK cl \in Client : cl = clients[c] /\ RingOf(cl)
  BY Known
<1>2. ch \in Chans /\ ch # Main /\ <<ch>> \in Seq(Chans) /\ ToSet(<<ch>>) = {ch}
  BY Known, ClientAssumption DEF Chans, ToSet
<1>3. PICK k \in 0 .. MaxLinks : k = cl.links[ch] + 1 /\ k > 0
  BY <1>1, <1>2, ClientAssumption DEF OtherLink, Client
<1>4. PICK ln \in [Chans -> 0 .. MaxLinks] : ln = [cl.links EXCEPT ![ch] = k]
  BY <1>2 DEF Client
<1>5. \A x \in Chans : ln[x] = IF x = ch THEN k ELSE cl.links[x]
  BY <1>2, <1>4 DEF Client
<1>6. PICK q : q = [cl EXCEPT !.links = ln]
  OBVIOUS
<1>7. q = [clients[c] EXCEPT !.links[ch] = @ + 1]
  BY <1>1, <1>3, <1>4, <1>6
<1>8. q \in Client /\ Only(q, cl, {"links"}) /\ q.links = ln
  BY <1>6 DEF Client, Only, Fields
<1>9. cl.links[ch] = 0 \/ cl.chan[ch] = "off"
  BY <1>1 DEF OtherLink
<1>10. ToSet(cl.pending) \subseteq Chans /\ cl.pending \in Seq(Chans)
  BY DEF Client, ToSet
<1>11. \A x \in ToSet(cl.pending) : x # Main /\ ln[x] > 0
  BY <1>1, <1>3, <1>5, <1>10 DEF RingOf
<1>12. CASE clients[c].during /\ ~dst
  <2>1. PICK p \in Seq(Chans) : p = <<ch>> \o cl.pending
    BY <1>2, <1>10, ConcatElements
  <2>2. PICK r : r = [q EXCEPT !.pending = p]
    OBVIOUS
  <2>3. r \in Client /\ Only(r, q, {"pending"}) /\ r.pending = p
    BY <1>8, <2>2 DEF Client, Only, Fields
  <2>4. Only(r, cl, {"links", "pending"})
    BY <1>8, <2>3 DEF Only, Fields
  <2>5. Becomes(c, r) /\ UNCHANGED wq
    <3>1. r = [q EXCEPT !.pending = <<ch>> \o @]
      BY <1>1, <1>8, <2>1, <2>2 DEF Only, Fields, Client
    <3> QED
      BY <1>7, <1>12, <3>1 DEF OtherLink, Becomes
  <2>6. r.ring = cl.ring /\ r.chan = cl.chan /\ r.links = ln
    BY <1>8, <2>3 DEF Only, Fields
  <2>a. PICK a \in Seq(Chans), s \in Seq(Chans) : a = <<ch>> /\ s = cl.pending
    BY <1>2, <1>10
  <2>b. p = a \o s /\ ToSet(a) = {ch}
    BY <1>2, <2>1, <2>a
  <2>c. ToSet(p) = ToSet(a) \cup ToSet(s)
    BY <2>b, ConcatElements
  <2>7. ToSet(p) = {ch} \cup ToSet(cl.pending)
    BY <2>a, <2>b, <2>c
  <2>8. \A x \in ToSet(p) : x # Main /\ r.links[x] > 0
    BY <1>2, <1>3, <1>5, <1>11, <2>6, <2>7
  <2>9. Fresh(r, p)
    <3>1. s = cl.pending
      BY <2>a
    <3>2. PICK n \in Nat : n = Len(s) /\ DOMAIN s = 1 .. n
      BY <3>1
    <3>3. /\ DOMAIN p = 1 .. n + 1 /\ p[1] = ch
          /\ \A i \in 1 .. n + 1 : i # 1 => i - 1 \in 1 .. n /\ p[i] = s[i - 1]
      BY <2>1, <3>1, <3>2
    <3>4. \A i \in 1 .. n : s[i] \in ToSet(cl.pending)
      BY <3>1, <3>2 DEF ToSet
    <3>5. ASSUME cl.chan[ch] = "none" PROVE ch \notin ToSet(cl.pending)
      BY <1>1, <1>9, <3>5 DEF RingOf
    <3>a. Fresh(cl, s)
      BY <1>1, <3>1 DEF RingOf
    <3>6. \A i, j \in 1 .. n : s[i] = s[j] /\ cl.chan[s[i]] = "none" => i = j
      BY <3>2, <3>a DEF Fresh
    <3> SUFFICES ASSUME NEW i \in 1 .. n + 1, NEW j \in 1 .. n + 1, p[i] = p[j],
                        cl.chan[p[i]] = "none"
                 PROVE  i = j
      BY <2>6, <3>3 DEF Fresh
    <3>7. CASE i # 1 /\ j # 1
      <4>1. PICK k1 \in 1 .. n, k2 \in 1 .. n : k1 = i - 1 /\ k2 = j - 1
        BY <3>3, <3>7
      <4>2. p[i] = s[k1] /\ p[j] = s[k2]
        BY <3>3, <3>7, <4>1
      <4>3. k1 = k2
        BY <3>6, <4>2
      <4> QED
        BY <4>1, <4>3
    <3>8. CASE i = 1 /\ j # 1
      BY <3>3, <3>4, <3>5, <3>8
    <3>9. CASE j = 1 /\ i # 1
      BY <3>3, <3>4, <3>5, <3>9
    <3> QED
      BY <3>7, <3>8, <3>9
  <2>10. RingOf(r)
    BY <1>1, <2>3, <2>6, <2>8, <2>9 DEF RingOf
  <2> QED
    BY <1>1, <1>5, <1>12, <2>3, <2>4, <2>5, <2>6, <2>7, <2>10, CreatesNone DEF Links
<1>13. CASE ~(clients[c].during /\ ~dst)
  <2>1. q.ring = cl.ring /\ q.chan = cl.chan /\ q.pending = cl.pending
    BY <1>8 DEF Only, Fields
  <2>2. RingOf(q)
    BY <1>1, <1>8, <1>11, <2>1 DEF RingOf, Fresh
  <2>3. PICK r : r = DoLink(q, <<ch>>)
    OBVIOUS
  <2>4. Becomes(c, r)
    BY <1>7, <1>13, <2>3 DEF OtherLink, Becomes
  <2>5. Fresh(q, <<ch>>)
    BY DEF Fresh
  <2>6. Creates(r, q, {ch} \ Remote)
    BY <1>2, <1>8, <2>3, <2>5, DoLinkEffect
  <2>a. {ch} \ Remote \subseteq Chans
    BY <1>2
  <2>7. RingOf(r) /\ r \in Client
    <3>1. RingOf(r)
      BY <1>8, <2>2, <2>6, <2>a, RingCreated
    <3> QED
      BY <2>6, <3>1 DEF Creates
  <2>8. wq' = Sent("connect", c, <<ch>>)
    BY <1>13 DEF OtherLink
  <2>9. Len(<<ch>>) = 1
    OBVIOUS
  <2>10. Grows("connect", c, {ch}, 1)
    BY <1>2, <2>8, <2>9, Known, SentEffect DEF TypeInv
  <2>11. Only(q, cl, {"links", "pending"})
    BY <1>8 DEF Only
  <2> QED
    BY <1>1, <1>2, <1>5, <1>8, <1>13, <2>1, <2>2, <2>4, <2>6, <2>7, <2>10, <2>11 DEF Links
<1> QED
  BY <1>12, <1>13

\* reds_link_mig_target_channels.
LEMMA LinkPendingEffect ==
  ASSUME TypeInv, NEW c \in Ids, NEW cl \in Client, RingOf(cl), cl.pending = clients[c].pending,
         LinkPending(c, cl)
  PROVE  /\ \E q : /\ Only(q, cl, {"pending"}) /\ q.pending = <<>>
                   /\ Links(c, q, ToSet(cl.pending) \ Remote)
         /\ \E n \in Nat : Grows("connect", c, ToSet(cl.pending), n)
         /\ mig' = mig \ {c}
<1>1. cl.pending \in Seq(Chans)
  BY DEF Client
<1>2. PICK d : d = DoLink(cl, cl.pending)
  OBVIOUS
<1>3. PICK S : S = ToSet(cl.pending) \ Remote
  OBVIOUS
<1>4. Creates(d, cl, S)
  BY <1>1, <1>2, <1>3, DoLinkEffect DEF RingOf
<1>a. PICK e \in Seq(Chans) : e = <<>>
  BY EmptySeq
<1>5. PICK q : q = [cl EXCEPT !.pending = e]
  OBVIOUS
<1>6. q \in Client /\ Only(q, cl, {"pending"}) /\ q.pending = <<>>
  BY <1>a, <1>5 DEF Client, Only, Fields
<1>7. PICK r : r = [d EXCEPT !.pending = e]
  OBVIOUS
<1>8. d \in Client
  BY <1>4 DEF Creates
<1>9. r \in Client /\ Only(r, d, {"pending"}) /\ r.pending = <<>>
  BY <1>a, <1>7, <1>8 DEF Client, Only, Fields
<1>10. /\ q.chan = cl.chan /\ q.ring = cl.ring /\ q.waits = cl.waits /\ q.migrated = cl.migrated
       /\ q.links = cl.links
  BY <1>6 DEF Only, Fields
<1>11. q.during = cl.during /\ q.seamless = cl.seamless
  BY <1>6 DEF Only, Fields
<1>12. r.chan = d.chan /\ r.ring = d.ring /\ r.waits = d.waits /\ r.migrated = d.migrated
  BY <1>9 DEF Only, Fields
<1>13. Made(q, S) = Made(cl, S) /\ Waiting(q, S) = Waiting(cl, S)
  BY <1>10, <1>11 DEF Made, Waiting
<1>14. DOMAIN q.pending = {} /\ ToSet(q.pending) = {}
  BY <1>6 DEF ToSet
<1>15. RingOf(q)
  BY <1>10, <1>14 DEF RingOf, Fresh
<1>16. Only(r, q, {"ring", "chan", "waits", "migrated"})
  BY <1>4, <1>6, <1>9 DEF Creates, Only, Fields
<1>17. Creates(r, q, S)
  BY <1>4, <1>9, <1>10, <1>12, <1>13, <1>16 DEF Creates
<1>18. S \subseteq Chans \ {Main}
  <2>1. ToSet(cl.pending) \subseteq Chans
    BY <1>1 DEF ToSet
  <2>2. Main \notin ToSet(cl.pending)
    BY DEF RingOf
  <2> QED
    BY <1>3, <2>1, <2>2
<1>19. RingOf(r)
  BY <1>6, <1>15, <1>17, <1>18, RingCreated
<1>20. Becomes(c, r)
  BY <1>2, <1>a, <1>7 DEF LinkPending, Becomes
<1>21. Grows("connect", c, ToSet(cl.pending), Len(cl.pending))
  BY <1>1, Known, SentEffect DEF TypeInv, LinkPending
<1>22. Len(cl.pending) \in Nat
  BY <1>1
<1> QED
  BY <1>3, <1>6, <1>9, <1>15, <1>17, <1>18, <1>19, <1>20, <1>21, <1>22 DEF Links, LinkPending

\* red_client_set_migration_seamless with the pending links, or the refusal.
LEMMA DstDoSeamlessEffect ==
  ASSUME TypeInv, NEW c \in Ids, DstDoSeamless(c), NEW W, W = ToSet(clients[c].ring) \cap NeedData
  PROVE  \/ /\ \E q : /\ Only(q, clients[c], {"pending", "seamless", "waits", "migrated"})
                      /\ q.pending = <<>> /\ q.seamless /\ q.waits = W
                      /\ q.migrated = clients[c].migrated + Cardinality(W)
                      /\ Links(c, q, ToSet(clients[c].pending) \ Remote)
            /\ \E n \in Nat : Grows("connect", c, ToSet(clients[c].pending), n)
            /\ mig' = mig \ {c} /\ dst'
         \/ /\ \E r \in Client : /\ Becomes(c, r) /\ RingOf(r)
                                 /\ Only(r, clients[c], {"kind"}) /\ r.kind = "semi"
            /\ UNCHANGED <<wq, mig>> /\ ~dst'
<1>1. PICK cl \in Client : cl = clients[c] /\ RingOf(cl)
  BY Known
<1>2. CASE LinkPending(c, SetSeamless(clients[c])) /\ dst' = TRUE
  <2>1. W \in SUBSET Chans /\ Cardinality(W) \in Nat
    <3>1. W \subseteq Chans
      BY ClientAssumption
    <3> QED
      BY <3>1, FiniteChans
  <2>2. PICK k \in Int : k = cl.migrated + Cardinality(W)
    BY <2>1 DEF Client
  <2>3. PICK s : s = [cl EXCEPT !.seamless = TRUE, !.waits = W, !.migrated = k]
    OBVIOUS
  <2>4. s = SetSeamless(clients[c])
    BY <1>1, <2>2, <2>3 DEF SetSeamless
  <2>5. s \in Client
    BY <2>1, <2>3 DEF Client
  <2>6. Only(s, cl, {"seamless", "waits", "migrated"}) /\ s.waits = W /\ s.migrated = k
    BY <2>3 DEF Client, Only, Fields
  <2>7. s.seamless = TRUE
    BY <2>3 DEF Client
  <2>8. RingOf(s)
    BY <1>1, <2>6, RingKept
  <2>9. s.pending = clients[c].pending
    BY <1>1, <2>6 DEF Only, Fields
  <2>10. /\ \E q : /\ Only(q, s, {"pending"}) /\ q.pending = <<>>
                   /\ Links(c, q, ToSet(s.pending) \ Remote)
         /\ \E n \in Nat : Grows("connect", c, ToSet(s.pending), n)
         /\ mig' = mig \ {c}
    BY <1>2, <2>4, <2>5, <2>8, <2>9, LinkPendingEffect
  <2>11. PICK q : /\ Only(q, s, {"pending"}) /\ q.pending = <<>>
                  /\ Links(c, q, ToSet(s.pending) \ Remote)
    BY <2>10
  <2>12. q.waits = s.waits /\ q.migrated = s.migrated
    BY <2>11 DEF Only, Fields
  <2>13. q.seamless = s.seamless
    BY <2>11 DEF Only, Fields
  <2>14. Only(q, cl, {"pending", "seamless", "waits", "migrated"})
    BY <2>6, <2>11 DEF Only, Fields
  <2> QED
    BY <1>1, <1>2, <2>2, <2>6, <2>7, <2>9, <2>10, <2>11, <2>12, <2>13, <2>14
<1>3. CASE /\ clients' = [clients EXCEPT ![c].kind = "semi"]
           /\ dst' = FALSE /\ UNCHANGED <<wq, mig>>
  <2>1. PICK r : r = [cl EXCEPT !.kind = "semi"]
    OBVIOUS
  <2>2. r \in Client /\ Only(r, cl, {"kind"}) /\ r.kind = "semi"
    BY <2>1 DEF Client, Only, Fields, Kinds
  <2>3. Becomes(c, r)
    BY <1>1, <1>3, <2>1 DEF Becomes
  <2> QED
    BY <1>1, <1>3, <2>2, <2>3, RingKept
<1> QED
  BY <1>2, <1>3 DEF DstDoSeamless

\* red_client_semi_seamless_migrate_complete.
LEMMA MigrateEndEffect ==
  ASSUME TypeInv, NEW c \in Ids, MigrateEnd(c)
  PROVE  /\ \E q : /\ Only(q, clients[c], {"pending", "during"}) /\ q.pending = <<>> /\ ~q.during
                   /\ Links(c, q, ToSet(clients[c].pending) \ Remote)
         /\ \E n \in Nat : Grows("connect", c, ToSet(clients[c].pending), n)
         /\ mig' = mig \ {c}
<1>1. PICK cl \in Client : cl = clients[c] /\ RingOf(cl)
  BY Known
<1>2. PICK s : s = [cl EXCEPT !.during = FALSE]
  OBVIOUS
<1>3. s \in Client /\ Only(s, cl, {"during"})
  BY <1>2 DEF Client, Only, Fields
<1>4. s.during = FALSE
  BY <1>2 DEF Client
<1>5. RingOf(s)
  BY <1>1, <1>3, RingKept
<1>6. s.pending = clients[c].pending
  BY <1>1, <1>3 DEF Only, Fields
<1>7. LinkPending(c, s)
  BY <1>1, <1>2 DEF MigrateEnd
<1>8. /\ \E q : /\ Only(q, s, {"pending"}) /\ q.pending = <<>>
                /\ Links(c, q, ToSet(s.pending) \ Remote)
      /\ \E n \in Nat : Grows("connect", c, ToSet(s.pending), n)
      /\ mig' = mig \ {c}
  BY <1>3, <1>5, <1>6, <1>7, LinkPendingEffect
<1>9. PICK q : /\ Only(q, s, {"pending"}) /\ q.pending = <<>>
               /\ Links(c, q, ToSet(s.pending) \ Remote)
  BY <1>8
<1>10. q.during = s.during
  BY <1>9 DEF Only, Fields
<1>11. Only(q, cl, {"pending", "during"})
  BY <1>3, <1>9 DEF Only, Fields
<1> QED
  BY <1>1, <1>4, <1>6, <1>8, <1>9, <1>10, <1>11

\* red_client_migrate.
LEMMA MigrateEffect ==
  ASSUME TypeInv, NEW c \in Ids, Migrate(c)
  PROVE  /\ \E r \in Client : Becomes(c, r) /\ RingOf(r) /\ Only(r, clients[c], {"left"})
         /\ \E n \in Nat : Grows("migrate", c, {ch \in Chans : clients[c].chan[ch] = "on"}, n)
<1>1. PICK cl \in Client : cl = clients[c] /\ RingOf(cl)
  BY Known
<1>2. PICK r : r = [cl EXCEPT !.left = TRUE]
  OBVIOUS
<1>3. r \in Client /\ Only(r, cl, {"left"})
  BY <1>2 DEF Client, Only, Fields
<1>4. Becomes(c, r)
  BY <1>1, <1>2 DEF Becomes, Migrate
<1>5. PICK on : on = {ch \in Chans : clients[c].chan[ch] = "on"}
  OBVIOUS
<1>6. PICK s \in Seq(Chans) : s = clients[c].ring
  BY <1>1 DEF Client
<1>7. PICK k \in Seq(Chans) : k = Kept(s, on)
  BY KeptElements
<1>8. ToSet(k) \subseteq on /\ Len(k) \in Nat
  <2>1. ToSet(k) = ToSet(s) \cap on
    BY <1>7, KeptElements DEF ToSet, Range
  <2> QED
    BY <1>7, <2>1
<1>9. wq' = Sent("migrate", c, k)
  BY <1>5, <1>6, <1>7 DEF Migrate
<1>10. Grows("migrate", c, ToSet(k), Len(k))
  BY <1>7, <1>9, Known, SentEffect DEF TypeInv
<1>11. Grows("migrate", c, on, Len(k))
  BY <1>8, <1>10 DEF Grows
<1> QED
  BY <1>1, <1>3, <1>4, <1>5, <1>8, <1>11, RingKept

\* red_channel_client_disconnect.
LEMMA DropEffect ==
  ASSUME TypeInv, NEW c \in Ids, NEW cl \in Client, RingOf(cl), NEW ch \in Chans,
         cl.chan[ch] = "on", Drop(c, cl, ch)
  PROVE  \E r \in Client :
            /\ Becomes(c, r) /\ RingOf(r) /\ Only(r, cl, {"chan", "refs"})
            /\ \A x \in Chans : r.chan[x] = IF x = ch THEN "off" ELSE cl.chan[x]
            /\ \/ /\ ch = Main /\ ~cl.disconnecting /\ Settled(c) /\ r.refs = cl.refs + 1
                  /\ mq' = Append(mq, Msg("disconnect", c, Main))
               \/ /\ ~(ch = Main /\ ~cl.disconnecting) /\ r.refs = cl.refs /\ UNCHANGED mq
<1>1. PICK off : off = Off(cl, ch)
  OBVIOUS
<1>a. cl.chan[ch] \in {"on", "off"}
  OBVIOUS
<1>2. /\ off \in Client /\ Only(off, cl, {"chan"}) /\ RingOf(off)
      /\ \A x \in Chans : off.chan[x] = IF x = ch THEN "off" ELSE cl.chan[x]
  BY <1>1, <1>a, OffEffect
<1>3. off.refs = cl.refs
  BY <1>2 DEF Only, Fields
<1>4. CASE ch = Main /\ ~cl.disconnecting
  <2>1. PICK k \in Int : k = off.refs + 1
    BY <1>2 DEF Client
  <2>2. PICK r : r = [off EXCEPT !.refs = k]
    OBVIOUS
  <2>3. r \in Client /\ Only(r, off, {"refs"}) /\ r.refs = k
    BY <1>2, <2>2 DEF Client, Only, Fields
  <2>4. Becomes(c, r) /\ Settled(c) /\ mq' = Append(mq, Msg("disconnect", c, Main))
    BY <1>1, <1>4, <2>1, <2>2 DEF Drop, Off, Ref, Becomes
  <2>5. RingOf(r)
    BY <1>2, <2>3, RingKept
  <2>6. Only(r, cl, {"chan", "refs"}) /\ r.chan = off.chan
    BY <1>2, <2>3 DEF Only, Fields
  <2> QED
    BY <1>2, <1>3, <1>4, <2>1, <2>3, <2>4, <2>5, <2>6
<1>5. CASE ~(ch = Main /\ ~cl.disconnecting)
  <2>1. Becomes(c, off) /\ mq' = mq
    BY <1>1, <1>5 DEF Drop, Off, Becomes
  <2>2. Only(off, cl, {"chan", "refs"})
    BY <1>2 DEF Only
  <2> QED
    BY <1>2, <1>3, <1>5, <2>1, <2>2
<1> QED
  BY <1>4, <1>5

\* red_channel_handle_migrate_data on a channel that waits: it is not the last one, the
\* last one is a worker's, or the main thread's.
DataArrives(c, ch, r) ==
    /\ r \in Client /\ RingOf(r) /\ r.sent = clients[c].sent \cup {ch}
    /\ r.waits = clients[c].waits \ {ch} /\ r.migrated = clients[c].migrated - 1
    /\ UNCHANGED mq
    /\ \/ /\ r.migrated # 0 /\ Only(r, clients[c], {"sent", "waits", "migrated"})
          /\ UNCHANGED worker
       \/ /\ r.migrated = 0 /\ ~r.during /\ ~r.seamless
          /\ \/ /\ ch \in Remote /\ Settled(c) /\ StartPost(c, ch, "complete")
                /\ Only(r, clients[c], {"sent", "waits", "migrated", "during", "seamless"})
             \/ /\ ch \notin Remote /\ UNCHANGED worker
                /\ r.completed = clients[c].completed + One(clients[c].listed)
                /\ Only(r, clients[c], {"sent", "waits", "migrated", "during", "seamless",
                                        "completed"})

\* red_channel_handle_migrate_data: the channel waits for the data, or is disconnected.
LEMMA MigrateDataEffect ==
  ASSUME TypeInv, NEW c \in Ids, NEW ch \in Chans, MigrateData(c, ch)
  PROVE  \/ /\ ch \in clients[c].waits /\ Unlocked(c)
            /\ \E r : Becomes(c, r) /\ DataArrives(c, ch, r)
         \/ /\ ch \notin clients[c].waits /\ UNCHANGED worker
            /\ \E q \in Client : /\ RingOf(q) /\ Only(q, clients[c], {"sent", "unexpected"})
                                 /\ q.sent = clients[c].sent \cup {ch} /\ q.unexpected
                                 /\ Drop(c, q, ch)
<1>1. PICK cl \in Client : cl = clients[c] /\ RingOf(cl)
  BY Known
<1>2. PICK snt \in SUBSET Chans : snt = cl.sent \cup {ch}
  BY DEF Client
<1>3. PICK q : q = [cl EXCEPT !.sent = snt]
  OBVIOUS
<1>4. q = [clients[c] EXCEPT !.sent = @ \cup {ch}]
  BY <1>1, <1>2, <1>3
<1>5. q \in Client /\ Only(q, cl, {"sent"}) /\ q.sent = snt
  BY <1>3 DEF Client, Only, Fields
<1>6. /\ q.waits = cl.waits /\ q.migrated = cl.migrated /\ q.completed = cl.completed
      /\ q.listed = cl.listed
  BY <1>5 DEF Only, Fields
<1>7. CASE ch \in cl.waits
  <2>1. SeamlessDone(c, q, ch)
    BY <1>4, <1>6, <1>7 DEF MigrateData
  <2>a. PICK k \in Int : k = cl.migrated - 1
    BY DEF Client
  <2>2. PICK wt \in SUBSET Chans : wt = cl.waits \ {ch}
    BY DEF Client
  <2>3. PICK d : d = [q EXCEPT !.waits = wt, !.migrated = k]
    OBVIOUS
  <2>4. d = [q EXCEPT !.waits = @ \ {ch}, !.migrated = @ - 1]
    BY <1>6, <2>a, <2>2, <2>3
  <2>5. d \in Client /\ Only(d, q, {"waits", "migrated"}) /\ d.waits = wt /\ d.migrated = k
    BY <1>5, <2>3 DEF Client, Only, Fields
  <2>6. d.sent = snt /\ Only(d, cl, {"sent", "waits", "migrated"})
    BY <1>5, <2>5 DEF Only, Fields
  <2>7. Unlocked(c)
    BY <2>1 DEF SeamlessDone
  <2>8. CASE k # 0
    <3>1. Becomes(c, d) /\ UNCHANGED <<worker, mq>>
      BY <2>1, <2>4, <2>5, <2>8 DEF SeamlessDone, Becomes
    <3>2. RingOf(d)
      BY <1>1, <2>6, RingKept
    <3>3. DataArrives(c, ch, d)
      BY <1>1, <1>2, <2>a, <2>2, <2>5, <2>6, <2>8, <3>1, <3>2 DEF DataArrives
    <3> QED
      BY <1>1, <1>7, <2>7, <3>1, <3>3
  <2>9. CASE k = 0
    <3>1. PICK e : e = [d EXCEPT !.during = FALSE, !.seamless = FALSE]
      OBVIOUS
    <3>2. DstComplete(c, e, ch)
      BY <2>1, <2>4, <2>5, <2>9, <3>1 DEF SeamlessDone
    <3>3. e \in Client /\ Only(e, d, {"during", "seamless"})
      BY <2>5, <3>1 DEF Client, Only, Fields
    <3>4. e.during = FALSE /\ e.seamless = FALSE
      BY <2>5, <3>1 DEF Client
    <3>5. /\ e.sent = snt /\ e.waits = wt /\ e.migrated = k
          /\ Only(e, cl, {"sent", "waits", "migrated", "during", "seamless"})
      BY <2>5, <2>6, <3>3 DEF Only, Fields
    <3>6. RingOf(e)
      BY <1>1, <3>5, RingKept
    <3>7. UNCHANGED mq
      BY <3>2 DEF DstComplete
    <3>8. CASE ch \in Remote
      <4>1. Becomes(c, e) /\ Settled(c) /\ StartPost(c, ch, "complete")
        BY <3>2, <3>8 DEF DstComplete, Becomes
      <4>2. DataArrives(c, ch, e)
        BY <1>1, <1>2, <2>a, <2>2, <2>9, <3>3, <3>4, <3>5, <3>6, <3>7, <3>8, <4>1 DEF DataArrives
      <4> QED
        BY <1>1, <1>7, <2>7, <4>1, <4>2
    <3>9. CASE ch \notin Remote
      <4>1. e.completed = cl.completed
        BY <3>5 DEF Only, Fields
      <4>2. e.listed = cl.listed
        BY <3>5 DEF Only, Fields
      <4>3. PICK n \in Nat : n = cl.completed + One(cl.listed)
        BY DEF Client, One
      <4>4. PICK r : r = [e EXCEPT !.completed = n]
        OBVIOUS
      <4>5. r \in Client /\ Only(r, e, {"completed"}) /\ r.completed = n
        BY <3>3, <4>4 DEF Client, Only, Fields
      <4>6. r = Complete(e)
        <5>1. CASE cl.listed
          BY <4>1, <4>2, <4>3, <4>4, <5>1 DEF Complete, One
        <5>2. CASE ~cl.listed
          <6>1. n = cl.completed
            BY <4>3, <5>2 DEF One, Client
          <6>2. r = e
            BY <3>3, <4>1, <4>4, <6>1 DEF Client
          <6> QED
            BY <4>2, <5>2, <6>2 DEF Complete
        <5> QED
          BY <5>1, <5>2
      <4>7. Becomes(c, r) /\ UNCHANGED worker
        BY <3>2, <3>9, <4>6 DEF DstComplete, Becomes
      <4>8. r.sent = snt /\ r.waits = wt /\ r.migrated = k
        BY <3>5, <4>5 DEF Only, Fields
      <4>9. r.during = FALSE /\ r.seamless = FALSE
        BY <3>4, <4>5 DEF Only, Fields
      <4>10. Only(r, cl, {"sent", "waits", "migrated", "during", "seamless", "completed"})
        BY <3>5, <4>5 DEF Only, Fields
      <4>11. RingOf(r)
        BY <1>1, <4>10, RingKept
      <4>12. DataArrives(c, ch, r)
        BY <1>1, <1>2, <2>a, <2>2, <2>9, <3>7, <3>9, <4>3, <4>5, <4>7, <4>8, <4>9, <4>10, <4>11
           DEF DataArrives
      <4> QED
        BY <1>1, <1>7, <2>7, <4>7, <4>12
    <3> QED
      BY <3>8, <3>9
  <2> QED
    BY <2>8, <2>9
<1>8. CASE ch \notin cl.waits
  <2>1. PICK u : u = [q EXCEPT !.unexpected = TRUE]
    OBVIOUS
  <2>2. u \in Client /\ Only(u, q, {"unexpected"})
    BY <1>5, <2>1 DEF Client, Only, Fields
  <2>3. u.unexpected = TRUE
    BY <1>5, <2>1 DEF Client
  <2>4. u.sent = snt /\ Only(u, cl, {"sent", "unexpected"})
    BY <1>5, <2>2 DEF Only, Fields
  <2>5. Drop(c, u, ch) /\ UNCHANGED worker
    BY <1>4, <1>6, <1>8, <2>1 DEF MigrateData
  <2>6. RingOf(u)
    BY <1>1, <2>4, RingKept
  <2> QED
    BY <1>1, <1>2, <1>8, <2>2, <2>3, <2>4, <2>5, <2>6
<1> QED
  BY <1>1, <1>7, <1>8

\* Worker w goes from one post to the next, or to idle.
Posts(w, p) == worker' = [worker EXCEPT ![w] = p]

\* The first half of red_client_ref.
LEMMA StartPostEffect ==
  ASSUME TypeInv, NEW c \in Ids, NEW ch \in Remote, NEW t \in {"complete", "latency"},
         StartPost(c, ch, t)
  PROVE  \E p \in Posting : /\ Posts(Worker[ch], p) /\ p.client = c /\ p.chan = ch /\ p.type = t
                            /\ p.step = "ref" /\ p.seen = clients[c].refs
<1>1. PICK k \in Int : k = clients[c].refs
  BY Known DEF Client
<1>2. PICK p : p = [client |-> c, chan |-> ch, type |-> t, step |-> "ref", seen |-> k]
  OBVIOUS
<1>3. p \in Posting
  BY <1>2, Known DEF Posting
<1>4. Posts(Worker[ch], p)
  BY <1>1, <1>2 DEF Posts, StartPost
<1> QED
  BY <1>1, <1>2, <1>3, <1>4

\* A step of one worker.
LEMMA PostsEffect ==
  ASSUME TypeInv, NEW w \in Workers, NEW p \in {Idle} \cup Posting, Posts(w, p)
  PROVE  /\ worker' \in [Workers -> {Idle} \cup Posting] /\ worker'[w] = p
         /\ \A v \in Workers \ {w} : worker'[v] = worker[v]
BY DEF TypeInv, ThreadInv, Posts

\* A worker that is idle is about no client.
LEMMA IdleWorker ==
  ASSUME TypeInv, NEW w \in Workers
  PROVE  /\ worker[w] = Idle <=> worker[w].client = 0
         /\ worker[w] # Idle => /\ worker[w] \in Posting /\ worker[w].client \in Ids
                                /\ worker[w].chan \in Remote /\ worker[w].chan \in Chans
                                /\ Worker[worker[w].chan] = w
<1>1. worker[w] \in {Idle} \cup Posting
  BY DEF TypeInv, ThreadInv
<1>2. worker[w] \in Posting => worker[w].client # 0 /\ worker[w].chan \in Remote
  BY DEF Posting
<1>3. Idle.client = 0
  BY DEF Idle
<1> QED
  BY <1>1, <1>2, <1>3 DEF TypeInv, ThreadInv, Chans

\* The second half of red_client_ref.
LEMMA WorkerRefEffect ==
  ASSUME TypeInv, NEW w \in Workers, WorkerRef(w)
  PROVE  LET c == worker[w].client
         IN  /\ \E r \in Client : /\ Becomes(c, r) /\ RingOf(r) /\ Only(r, clients[c], {"refs"})
                                  /\ r.refs = worker[w].seen + 1
             /\ \E p \in Posting : /\ Posts(w, p) /\ p.client = c /\ p.chan = worker[w].chan
                                   /\ p.type = worker[w].type /\ p.step = "post"
<1>1. worker[w] \in Posting /\ worker[w].client \in Ids
  BY IdleWorker DEF WorkerRef
<1>2. PICK c \in Ids : c = worker[w].client
  BY <1>1
<1>3. PICK cl \in Client : cl = clients[c] /\ RingOf(cl)
  BY Known
<1>4. PICK k \in Int : k = worker[w].seen + 1
  BY <1>1 DEF Posting
<1>5. PICK r : r = [cl EXCEPT !.refs = k]
  OBVIOUS
<1>6. r \in Client /\ Only(r, cl, {"refs"}) /\ r.refs = k
  BY <1>5 DEF Client, Only, Fields
<1>7. Becomes(c, r)
  BY <1>2, <1>3, <1>4, <1>5 DEF WorkerRef, Becomes
<1>8. RingOf(r)
  BY <1>3, <1>6, RingKept
<1>9. PICK p : p = [worker[w] EXCEPT !.step = "post"]
  OBVIOUS
<1>10. /\ p \in Posting /\ p.client = c /\ p.chan = worker[w].chan /\ p.type = worker[w].type
       /\ p.step = "post"
  BY <1>1, <1>2, <1>9 DEF Posting
<1>11. Posts(w, p)
  BY <1>9 DEF WorkerRef, Posts
<1> QED
  BY <1>2, <1>3, <1>4, <1>6, <1>7, <1>8, <1>10, <1>11

\* A worker creates an rcc.
LEMMA ConnectEffect ==
  ASSUME TypeInv, NEW c \in Ids, NEW ch \in Remote, Becomes(c, Create(clients[c], <<ch>>))
  PROVE  Links(c, clients[c], {ch})
<1>1. PICK cl \in Client : cl = clients[c] /\ RingOf(cl)
  BY Known
<1>2. PICK r : r = Create(cl, <<ch>>)
  OBVIOUS
<1>3. ch \in Chans /\ ch # Main /\ <<ch>> \in Seq(Chans) /\ ToSet(<<ch>>) = {ch}
  BY ClientAssumption DEF Chans, ToSet
<1>4. Fresh(cl, <<ch>>)
  BY DEF Fresh
<1>5. Creates(r, cl, {ch})
  BY <1>2, <1>3, <1>4, CreateEffect
<1>6. {ch} \subseteq Chans \ {Main} /\ {ch} \subseteq Chans
  BY <1>3
<1>7. RingOf(r)
  BY <1>1, <1>5, <1>6, RingCreated
<1>8. r \in Client
  BY <1>5 DEF Creates
<1> QED
  BY <1>1, <1>2, <1>5, <1>6, <1>7, <1>8 DEF Links

\* A worker disconnects an rcc.
LEMMA DisconnectedEffect ==
  ASSUME TypeInv, NEW c \in Ids, NEW ch \in Chans, Alive(c, ch),
         clients' = [clients EXCEPT ![c].chan[ch] = "off"]
  PROVE  \E r \in Client : /\ Becomes(c, r) /\ RingOf(r) /\ Only(r, clients[c], {"chan"})
                           /\ \A x \in Chans : r.chan[x] = IF x = ch THEN "off"
                                                           ELSE clients[c].chan[x]
<1>1. PICK cl \in Client : cl = clients[c] /\ RingOf(cl)
  BY Known
<1>2. PICK r : r = Off(cl, ch)
  OBVIOUS
<1>3. cl.chan[ch] \in {"on", "off"}
  BY <1>1 DEF Alive
<1>4. /\ r \in Client /\ Only(r, cl, {"chan"}) /\ RingOf(r)
      /\ \A x \in Chans : r.chan[x] = IF x = ch THEN "off" ELSE cl.chan[x]
  BY <1>1, <1>2, <1>3, OffEffect
<1>5. Becomes(c, r)
  BY <1>1, <1>2 DEF Becomes, Off
<1> QED
  BY <1>1, <1>4, <1>5

\* A message of the main thread's queue is handled, but for the DISCONNECT that counts.
LEMMA MainHandleEffect ==
  ASSUME TypeInv, MainHandle, NEW m, m = Head(mq)
  PROVE  /\ m \in Reports /\ m = mq[1] /\ 1 \in DOMAIN mq /\ m.client \in Ids
         /\ main = Idle /\ Settled(m.client)
         /\ mq' \in Seq(Reports) /\ \A i \in DOMAIN mq' : i + 1 \in DOMAIN mq /\ mq'[i] = mq[i + 1]
         /\ \/ /\ m.type = "disconnect" /\ ~clients[m.client].disconnecting
               /\ Disconnect(m.client, "unref")
            \/ /\ m.type = "disconnect" => clients[m.client].disconnecting
               /\ UNCHANGED <<main, mig>>
               /\ \E q \in Client : \E r :
                     /\ Only(q, clients[m.client], {"completed"}) /\ RingOf(q)
                     /\ q.completed = clients[m.client].completed
                           + One(m.type = "complete" /\ clients[m.client].listed)
                     /\ r = Unref(q, 1) /\ Becomes(m.client, r)
<1>1. /\ m \in Reports /\ m = mq[1] /\ 1 \in DOMAIN mq
      /\ mq' \in Seq(Reports) /\ \A i \in DOMAIN mq' : i + 1 \in DOMAIN mq /\ mq'[i] = mq[i + 1]
  BY MainReadEffect DEF MainHandle, TypeInv
<1>2. PICK c \in Ids : c = m.client
  BY <1>1 DEF TypeInv, QueueInv
<1>3. PICK cl \in Client : cl = clients[c] /\ RingOf(cl)
  BY Known
<1>4. CASE m.type = "complete"
  <2>1. Becomes(c, Unref(Complete(cl), 1)) /\ UNCHANGED <<main, mig>>
    BY <1>2, <1>3, <1>4 DEF MainHandle, Becomes
  <2>2. PICK n \in Nat : n = cl.completed + One(cl.listed)
    BY DEF Client, One
  <2>3. PICK q : q = [cl EXCEPT !.completed = n]
    OBVIOUS
  <2>4. q \in Client /\ Only(q, cl, {"completed"}) /\ q.completed = n
    BY <2>3 DEF Client, Only, Fields
  <2>5. q = Complete(cl)
    <3>1. CASE cl.listed
      BY <2>2, <2>3, <3>1 DEF Complete, One
    <3>2. CASE ~cl.listed
      <4>1. n = cl.completed
        BY <2>2, <3>2 DEF One, Client
      <4>2. q = cl
        BY <2>3, <4>1 DEF Client
      <4> QED
        BY <3>2, <4>2 DEF Complete
    <3> QED
      BY <3>1, <3>2
  <2>6. RingOf(q)
    BY <1>3, <2>4, RingKept
  <2>7. One(m.type = "complete" /\ cl.listed) = One(cl.listed)
    BY <1>4 DEF One
  <2> QED
    BY <1>1, <1>2, <1>3, <1>4, <2>1, <2>2, <2>4, <2>5, <2>6, <2>7 DEF MainHandle
<1>5. CASE m.type = "latency" \/ (m.type = "disconnect" /\ cl.disconnecting)
  <2>1. Becomes(c, Unref(cl, 1)) /\ UNCHANGED <<main, mig>>
    BY <1>2, <1>3, <1>5 DEF MainHandle, Becomes
  <2>2. cl.completed = cl.completed + One(m.type = "complete" /\ cl.listed)
    BY <1>5 DEF One, Client
  <2>3. Only(cl, cl, {"completed"})
    BY DEF Only
  <2> QED
    BY <1>1, <1>2, <1>3, <1>5, <2>1, <2>2, <2>3 DEF MainHandle
<1>6. CASE m.type = "disconnect" /\ ~cl.disconnecting
  <2>1. Disconnect(c, "unref")
    BY <1>2, <1>3, <1>6 DEF MainHandle
  <2> QED
    BY <1>1, <1>2, <1>3, <1>6, <2>1 DEF MainHandle
<1> QED
  BY <1>1, <1>4, <1>5, <1>6 DEF Reports

-----------------------------------------------------------------------------
(* What the actions do to the walk of the main thread. *)

\* The main thread while it destroys a client.
LEMMA BusyMain ==
  ASSUME TypeInv, main # Idle
  PROVE  /\ main \in Destroying /\ main.client \in Ids /\ main.walk \in Seq(Chans)
         /\ main.client # 0
         /\ main.walk # <<>> => /\ Victim = main.walk[1] /\ Victim \in Chans
                                /\ 1 \in DOMAIN main.walk
<1>1. main \in Destroying /\ main.client \in Ids
  BY DEF TypeInv, ThreadInv, Busy
<1>2. PICK s \in Seq(Chans) : s = main.walk
  BY <1>1 DEF Destroying
<1>3. s # <<>> => Head(s) = s[1] /\ Head(s) \in Chans /\ 1 \in DOMAIN s
  BY <1>2
<1> QED
  BY <1>1, <1>2, <1>3 DEF Victim, Destroying

\* red_client_destroy starts.
LEMMA WalkStarts ==
  ASSUME TypeInv, NEW c \in Ids, NEW then \in {"unref", "link"}, Disconnect(c, then)
  PROVE  /\ main' \in Destroying /\ main' # Idle /\ main'.client = c
         /\ main'.walk = clients[c].ring /\ main'.step = "next" /\ main'.then = then
<1>1. PICK s \in Seq(Chans) : s = clients[c].ring
  BY Known DEF Client
<1>2. main' = [client |-> c, walk |-> s, step |-> "next", then |-> then]
  BY <1>1 DEF Disconnect
<1>3. main' \in Destroying
  BY <1>1, <1>2, Known DEF Destroying
<1>4. main'.client # 0
  BY <1>3 DEF Destroying
<1> QED
  BY <1>1, <1>2, <1>3, <1>4 DEF Idle

\* It asks a worker ...
LEMMA AskEffect ==
  ASSUME TypeInv, AskDisconnect
  PROVE  /\ main' \in Destroying /\ main' # Idle /\ main'.client = main.client
         /\ main'.walk = main.walk /\ main'.step = "waits" /\ main'.then = main.then
         /\ Grows("disconnect", main.client, {Victim}, 1)
<1>1. /\ main \in Destroying /\ main.client \in Ids /\ Victim \in Chans
  BY BusyMain DEF AskDisconnect
<1>2. main' = [main EXCEPT !.step = "waits"]
  BY DEF AskDisconnect
<1>3. /\ main' \in Destroying /\ main'.client = main.client
      /\ main'.walk = main.walk /\ main'.step = "waits" /\ main'.then = main.then
  BY <1>1, <1>2 DEF Destroying
<1>4. main'.client # 0
  BY <1>3 DEF Destroying
<1>5. <<Victim>> \in Seq(Chans) /\ ToSet(<<Victim>>) = {Victim} /\ Len(<<Victim>>) = 1
  BY <1>1 DEF ToSet
<1>6. wq' = Sent("disconnect", main.client, <<Victim>>)
  BY DEF AskDisconnect, Victim
<1>7. Grows("disconnect", main.client, {Victim}, 1)
  <2>1. PICK c \in Nat \ {0} : c = main.client
    BY <1>1 DEF Destroying
  <2> QED
    BY <1>5, <1>6, <2>1, SentEffect DEF TypeInv
<1> QED
  BY <1>3, <1>4, <1>7 DEF Idle

\* ... which acknowledges ...
LEMMA AckEffect ==
  ASSUME TypeInv, Busy, main' = [main EXCEPT !.step = "acked"]
  PROVE  /\ main' \in Destroying /\ main' # Idle /\ main'.client = main.client
         /\ main'.walk = main.walk /\ main'.step = "acked" /\ main'.then = main.then
<1>1. main \in Destroying
  BY BusyMain DEF Busy
<1>2. /\ main' \in Destroying /\ main'.client = main.client
      /\ main'.walk = main.walk /\ main'.step = "acked" /\ main'.then = main.then
  BY <1>1 DEF Destroying
<1>3. main'.client # 0
  BY <1>2 DEF Destroying
<1> QED
  BY <1>2, <1>3 DEF Idle

\* ... and destroys the rcc.
LEMMA DestroyRccEffect ==
  ASSUME TypeInv, DestroyRcc
  PROVE  /\ main' \in Destroying /\ main' # Idle /\ main'.client = main.client
         /\ main'.step = "next" /\ main'.then = main.then
         /\ main'.walk \in Seq(Chans) /\ Len(main'.walk) = Len(main.walk) - 1
         /\ \A i \in DOMAIN main'.walk : /\ i + 1 \in DOMAIN main.walk
                                         /\ main'.walk[i] = main.walk[i + 1]
         /\ \A i \in DOMAIN main.walk : i # 1 => i - 1 \in DOMAIN main'.walk
         /\ \E r \in Client :
               /\ Becomes(main.client, r) /\ RingOf(r)
               /\ Only(r, clients[main.client], {"chan", "ring"})
               /\ ToSet(r.ring) = ToSet(clients[main.client].ring) \ {Victim}
               /\ \A x \in Chans : r.chan[x] = IF x = Victim THEN "gone"
                                               ELSE clients[main.client].chan[x]
<1>1. main \in Destroying /\ main.client \in Ids /\ Victim \in Chans /\ main.walk # <<>>
  BY BusyMain DEF DestroyRcc
<1>2. PICK s \in Seq(Chans) : s = main.walk /\ s # <<>>
  BY <1>1 DEF Destroying
<1>3. PICK n \in Nat : n = Len(s) /\ DOMAIN s = 1 .. n /\ n > 0
  BY <1>2
<1>4. PICK t \in Seq(Chans) : /\ t = Tail(s) /\ Len(t) = n - 1 /\ DOMAIN t = 1 .. n - 1
                              /\ \A i \in 1 .. n - 1 : t[i] = s[i + 1]
  <2>1. /\ Tail(s) \in Seq(Chans) /\ Len(Tail(s)) = n - 1 /\ DOMAIN Tail(s) = 1 .. n - 1
        /\ \A i \in 1 .. n - 1 : Tail(s)[i] = s[i + 1]
    BY <1>2, <1>3
  <2> QED
    BY <2>1
<1>5. main' = [main EXCEPT !.walk = t, !.step = "next"]
  BY <1>2, <1>4 DEF DestroyRcc
<1>6. /\ main' \in Destroying /\ main'.client = main.client /\ main'.walk = t
      /\ main'.step = "next" /\ main'.then = main.then
  BY <1>1, <1>5 DEF Destroying
<1>7. main' # Idle
  <2>1. main'.client # 0
    BY <1>6 DEF Destroying
  <2> QED
    BY <2>1 DEF Idle
<1>8. /\ \A i \in DOMAIN main'.walk : i + 1 \in DOMAIN main.walk /\ main'.walk[i] = main.walk[i + 1]
      /\ \A i \in DOMAIN main.walk : i # 1 => i - 1 \in DOMAIN main'.walk
      /\ Len(main'.walk) = Len(main.walk) - 1
  <2>1. \A i \in 1 .. n - 1 : i + 1 \in 1 .. n
    BY <1>3
  <2>2. \A i \in 1 .. n : i # 1 => i - 1 \in 1 .. n - 1
    BY <1>3
  <2> QED
    BY <1>2, <1>3, <1>4, <1>6, <2>1, <2>2
<1>9. PICK c \in Ids : c = main.client
  BY <1>1
<1>10. PICK cl \in Client : cl = clients[c] /\ RingOf(cl)
  BY Known
<1>a. PICK ch \in Chans : ch = Victim
  BY <1>1
<1>11. PICK r : r = Gone(cl, ch)
  OBVIOUS
<1>b. /\ r \in Client /\ Only(r, cl, {"chan", "ring"}) /\ RingOf(r)
      /\ \A x \in Chans : r.chan[x] = IF x = ch THEN "gone" ELSE cl.chan[x]
      /\ ToSet(r.ring) = ToSet(cl.ring) \ {ch}
  <2>1. r \in Client
    BY <1>11, GoneEffect
  <2>2. Only(r, cl, {"chan", "ring"}) /\ (RingOf(cl) => RingOf(r))
    BY <1>11, GoneEffect
  <2>3. \A x \in Chans : r.chan[x] = IF x = ch THEN "gone" ELSE cl.chan[x]
    BY <1>11, GoneEffect
  <2>4. ToSet(r.ring) = ToSet(cl.ring) \ {ch}
    BY <1>11, GoneEffect
  <2> QED
    BY <1>10, <2>1, <2>2, <2>3, <2>4
<1>12. /\ r \in Client /\ Only(r, cl, {"chan", "ring"}) /\ RingOf(r)
       /\ \A x \in Chans : r.chan[x] = IF x = Victim THEN "gone" ELSE cl.chan[x]
       /\ ToSet(r.ring) = ToSet(cl.ring) \ {Victim}
  BY <1>a, <1>b
<1>13. Becomes(c, r)
  BY <1>9, <1>10, <1>a, <1>11 DEF DestroyRcc, Victim, Becomes, Gone
<1> QED
  BY <1>4, <1>6, <1>7, <1>8, <1>9, <1>10, <1>12, <1>13

\* A client is added.
Adds(cls, r) ==
    /\ Ids' = Ids \cup {Len(clients) + 1} /\ Len(clients) + 1 \notin Ids
    /\ Len(clients') = Len(clients) + 1 /\ clients' \in Seq(Client)
    /\ clients'[Len(clients) + 1] = r /\ \A d \in Ids : clients'[d] = cls[d]

\* reds_handle_main_link: the client that is admitted is new, and is in
\* mig_target_clients if it migrates.
LEMMA AdmitEffect ==
  ASSUME TypeInv, Len(clients) < Len(mode.kinds),
         NEW cls \in Seq(Client), Len(cls) = Len(clients), Admit(cls)
  PROVE  \E kind \in Kinds :
            /\ kind = mode.kinds[Len(clients) + 1] /\ Adds(cls, red_client_new(kind))
            /\ mig' = IF kind = "fresh" THEN mig ELSE mig \cup {Len(clients) + 1}
<1>1. PICK n \in Nat : n = Len(clients) /\ Ids = 1 .. n
  BY DEF TypeInv, ClientInv, Ids
<1>2. mode.kinds \in Seq(Kinds)
  BY ClientAssumption DEF TypeInv, ThreadInv, Mode
<1>3. PICK kind \in Kinds : kind = mode.kinds[n + 1]
  BY <1>1, <1>2
<1>4. PICK r \in Client : r = red_client_new(kind)
  BY NewClient
<1>5. clients' = Append(cls, r) /\ mig' = IF kind = "fresh" THEN mig ELSE mig \cup {n + 1}
  BY <1>1, <1>3, <1>4 DEF Admit
<1>6. /\ clients' \in Seq(Client) /\ Len(clients') = n + 1 /\ DOMAIN clients' = 1 .. n + 1
      /\ clients'[n + 1] = r /\ \A d \in 1 .. n : clients'[d] = cls[d]
  BY <1>1, <1>4, <1>5
<1>7. Ids' = Ids \cup {n + 1} /\ n + 1 \notin Ids
  <2>1. Ids' = 1 .. n + 1
    BY <1>6 DEF Ids
  <2> QED
    BY <1>1, <2>1
<1> QED
  BY <1>1, <1>3, <1>4, <1>5, <1>6, <1>7 DEF Adds

-----------------------------------------------------------------------------
(* What a step leaves as it was. *)

\* The rcc of c and ch is there after the step.
Lives(c, ch) == clients'[c].chan[ch] \in {"on", "off"}

\* The clients are still there, an rcc is not destroyed, and one that is off stays off.
Persists ==
    /\ Ids \subseteq Ids'
    /\ \A c \in Ids : \A ch \in Chans :
          /\ Alive(c, ch) => Lives(c, ch)
          /\ clients[c].chan[ch] = "off" => clients'[c].chan[ch] = "off"

\* The steps of one worker: none, to idle, or to a post about a client.
WorkerSteps ==
    \/ UNCHANGED worker
    \/ \E w \in Workers : \/ Posts(w, Idle)
                          \/ \E p \in Posting : /\ Posts(w, p) /\ p.client \in Ids
                                                /\ Worker[p.chan] = w

\* The steps of the queues.
RequestSteps ==
    \/ UNCHANGED wq
    \/ \E w \in Workers : Shrinks(w)
    \/ \E t \in {"connect", "migrate", "disconnect"}, c \in Ids, S \in SUBSET Chans, n \in Nat :
          Grows(t, c, S, n)
ReportSteps ==
    /\ mq' \in Seq(Reports)
    /\ \/ UNCHANGED mq
       \/ \A i \in DOMAIN mq' : i + 1 \in DOMAIN mq /\ mq'[i] = mq[i + 1]
       \/ \E m \in Reports : m.client \in Ids /\ mq' = Append(mq, m)

\* A step that changes one client, keeping its ring in order, keeps the clients in order.
LEMMA ClientsFrame ==
  ASSUME TypeInv, UNCHANGED mode, mig' \subseteq mig,
         NEW c \in Ids, NEW r \in Client, Becomes(c, r), RingOf(r)
  PROVE  /\ ClientInv' /\ Ids' = Ids /\ Len(clients') = Len(clients)
         /\ clients'[c] = r /\ \A d \in Ids \ {c} : clients'[d] = clients[d]
<1>1. /\ clients' \in Seq(Client) /\ Len(clients') = Len(clients) /\ Ids' = Ids
      /\ clients'[c] = r /\ \A d \in Ids \ {c} : clients'[d] = clients[d]
  BY OneChanged DEF TypeInv, ClientInv
<1>2. \A d \in Ids' : RingOf(clients'[d])
  BY <1>1 DEF TypeInv, ClientInv
<1> QED
  BY <1>1, <1>2 DEF TypeInv, ClientInv, RingOf, Fresh

\* What the threads are in the middle of keeps its type.
LEMMA ThreadFrame ==
  ASSUME TypeInv, UNCHANGED <<mode, main>>, dst' \in BOOLEAN, aborted' \in BOOLEAN,
         told' \in 0 .. MaxLatency, Ids \subseteq Ids', Len(clients') = Len(clients), WorkerSteps
  PROVE  ThreadInv'
<1>1. worker' \in [Workers -> {Idle} \cup Posting]
  BY PostsEffect DEF TypeInv, ThreadInv, WorkerSteps
<1>2. ASSUME NEW v \in Workers, worker'[v] # Idle
      PROVE  worker'[v].client \in Ids /\ Worker[worker'[v].chan] = v
  <2>1. CASE worker'[v] = worker[v]
    BY <1>2, <2>1 DEF TypeInv, ThreadInv
  <2>2. CASE worker'[v] # worker[v]
    <3>1. PICK w \in Workers : \/ Posts(w, Idle)
                               \/ \E p \in Posting : /\ Posts(w, p) /\ p.client \in Ids
                                                     /\ Worker[p.chan] = w
      BY <2>2 DEF WorkerSteps
    <3>2. CASE Posts(w, Idle)
      BY <1>2, <2>2, <3>2, PostsEffect
    <3>3. CASE \E p \in Posting : Posts(w, p) /\ p.client \in Ids /\ Worker[p.chan] = w
      <4>1. PICK p \in Posting : Posts(w, p) /\ p.client \in Ids /\ Worker[p.chan] = w
        BY <3>3
      <4>2. worker'[w] = p /\ \A u \in Workers \ {w} : worker'[u] = worker[u]
        BY <4>1, PostsEffect
      <4> QED
        BY <2>2, <4>1, <4>2
    <3> QED
      BY <3>1, <3>2, <3>3
  <2> QED
    BY <2>1, <2>2
<1>3. Busy' => main' \in Destroying /\ main'.client \in Ids'
  BY DEF TypeInv, ThreadInv, Busy
<1>4. Busy' /\ main'.then = "link" => Len(clients') < Len(mode'.kinds)
  BY DEF TypeInv, ThreadInv, Busy
<1> QED
  BY <1>1, <1>2, <1>3, <1>4 DEF TypeInv, ThreadInv

\* The queues keep their type when messages are read, and posted for clients there are.
LEMMA QueueFrame ==
  ASSUME TypeInv, Ids \subseteq Ids', RequestSteps, ReportSteps
  PROVE  QueueInv'
<1>1. \A i \in DOMAIN mq' : mq'[i].client \in Ids
  <2>1. CASE \E m \in Reports : m.client \in Ids /\ mq' = Append(mq, m)
    <3>1. PICK m \in Reports : m.client \in Ids /\ mq' = Append(mq, m)
      BY <2>1
    <3>2. /\ \A i \in DOMAIN mq : i \in DOMAIN mq' /\ mq'[i] = mq[i]
          /\ \A i \in DOMAIN mq' \ DOMAIN mq : mq'[i] = m
      BY <3>1, ReportEffect DEF TypeInv
    <3> QED
      BY <3>1, <3>2 DEF TypeInv, QueueInv
  <2>2. CASE \A i \in DOMAIN mq' : i + 1 \in DOMAIN mq /\ mq'[i] = mq[i + 1]
    BY <2>2 DEF TypeInv, QueueInv
  <2> QED
    BY <2>1, <2>2 DEF ReportSteps, TypeInv, QueueInv
<1>2. /\ wq' \in [Workers -> Seq(Requests)]
      /\ \A w \in Workers : \A i \in DOMAIN wq'[w] :
            wq'[w][i].client \in Ids /\ Worker[wq'[w][i].chan] = w
  <2>1. CASE UNCHANGED wq
    BY <2>1 DEF TypeInv, QueueInv
  <2>2. CASE \E w \in Workers : Shrinks(w)
    <3>1. PICK w \in Workers : Shrinks(w)
      BY <2>2
    <3>2. \A i \in DOMAIN wq'[w] : wq'[w][i].client \in Ids /\ Worker[wq'[w][i].chan] = w
      BY <3>1 DEF TypeInv, QueueInv, Shrinks
    <3> QED
      BY <3>1, <3>2 DEF TypeInv, QueueInv, Shrinks
  <2>3. CASE \E t \in {"connect", "migrate", "disconnect"}, c \in Ids, S \in SUBSET Chans, n \in Nat :
                Grows(t, c, S, n)
    BY <2>3 DEF TypeInv, QueueInv, Grows
  <2> QED
    BY <2>1, <2>2, <2>3 DEF RequestSteps
<1> QED
  BY <1>1, <1>2 DEF QueueInv, ReportSteps

-----------------------------------------------------------------------------
(* The synchronous DISCONNECT is kept by every step. *)

RccInv == TypeInv /\ WalkInv /\ AskInv /\ AliveInv

\* What a worker does is about an rcc that it was about before, or that is connected.
WorkersAlive ==
    \A w \in Workers :
        \/ worker'[w] = Idle
        \/ /\ worker[w] # Idle
           /\ worker'[w].client = worker[w].client /\ worker'[w].chan = worker[w].chan
        \/ /\ worker'[w].client \in Ids /\ worker'[w].chan \in Chans
           /\ clients[worker'[w].client].chan[worker'[w].chan] = "on"

\* What is asked of a worker is about an rcc that is there, or will be.
RequestsAlive ==
    \/ UNCHANGED wq
    \/ /\ main = Idle
       /\ \E t \in {"connect", "migrate"}, c \in Ids, S \in SUBSET Chans, n \in Nat :
             /\ Grows(t, c, S, n)
             /\ t = "migrate" => \A ch \in S : Alive(c, ch)

\* A step that destroys no rcc and leaves the main thread where it is keeps the three
\* parts about the synchronous DISCONNECT.
LEMMA RccFrame ==
  ASSUME RccInv, Persists, WorkersAlive, RequestsAlive, UNCHANGED main
  PROVE  (WalkInv /\ AskInv /\ AliveInv)'
<1>1. WalkInv'
  <2>1. ASSUME Busy, NEW i \in DOMAIN main.walk
        PROVE  Lives(main.client, main.walk[i])
    <3>1. main.client \in Ids /\ main.walk[i] \in Chans
      BY <2>1, BusyMain DEF RccInv, Busy
    <3> QED
      BY <2>1, <3>1 DEF RccInv, WalkInv, Persists
  <2> QED
    BY <2>1 DEF RccInv, WalkInv, Busy, Victim, Alive, Lives
<1>2. \A w \in Workers : \A i \in DOMAIN wq'[w] :
         /\ wq'[w][i].type = "disconnect" => wq' = wq
         /\ wq'[w][i].type # "connect" => Lives(wq'[w][i].client, wq'[w][i].chan)
  <2>1. ASSUME NEW w \in Workers, NEW i \in DOMAIN wq[w]
        PROVE  /\ wq[w][i].type = "disconnect" => wq' = wq
               /\ wq[w][i].type # "connect" => Lives(wq[w][i].client, wq[w][i].chan)
    <3>1. wq[w][i].client \in Ids /\ wq[w][i].chan \in Chans
      <4>1. wq[w] \in Seq(Requests) /\ wq[w][i].client \in Ids
        BY DEF RccInv, TypeInv, QueueInv
      <4>2. wq[w][i] \in Requests
        BY <4>1
      <4> QED
        BY <4>1, <4>2 DEF Requests, Chans
    <3>2. wq[w][i].type # "connect" => Alive(wq[w][i].client, wq[w][i].chan)
      BY DEF RccInv, AliveInv
    <3>3. wq[w][i].type = "disconnect" => main # Idle
      BY DEF RccInv, AskInv, Busy
    <3> QED
      BY <3>1, <3>2, <3>3 DEF Persists, RequestsAlive
  <2>2. CASE UNCHANGED wq
    BY <2>1, <2>2
  <2>3. CASE \E t \in {"connect", "migrate"}, c \in Ids, S \in SUBSET Chans, n \in Nat :
                Grows(t, c, S, n) /\ (t = "migrate" => \A ch \in S : Alive(c, ch))
    <3>1. PICK t \in {"connect", "migrate"}, c \in Ids, S \in SUBSET Chans, n \in Nat :
                Grows(t, c, S, n) /\ (t = "migrate" => \A ch \in S : Alive(c, ch))
      BY <2>3
    <3>2. ASSUME NEW w \in Workers, NEW i \in DOMAIN wq'[w], i \notin DOMAIN wq[w]
          PROVE  /\ wq'[w][i].type # "disconnect"
                 /\ wq'[w][i].type # "connect" => Lives(wq'[w][i].client, wq'[w][i].chan)
      <4>1. wq'[w][i].type = t /\ wq'[w][i].client = c /\ wq'[w][i].chan \in S
        BY <3>1, <3>2 DEF Grows
      <4> QED
        BY <3>1, <4>1 DEF Persists
    <3>3. \A w \in Workers : \A i \in DOMAIN wq[w] : wq'[w][i] = wq[w][i]
      BY <3>1 DEF Grows
    <3> QED
      BY <2>1, <3>2, <3>3
  <2> QED
    BY <2>2, <2>3 DEF RequestsAlive
<1>3. ASSUME NEW w \in Workers, worker'[w] # Idle
      PROVE  Lives(worker'[w].client, worker'[w].chan)
  <2>1. CASE worker[w] # Idle /\ worker'[w].client = worker[w].client
             /\ worker'[w].chan = worker[w].chan
    <3>1. worker[w].client \in Ids /\ worker[w].chan \in Chans
      BY <2>1, IdleWorker DEF RccInv
    <3> QED
      BY <2>1, <3>1 DEF RccInv, AliveInv, Persists
  <2>2. CASE /\ worker'[w].client \in Ids /\ worker'[w].chan \in Chans
             /\ clients[worker'[w].client].chan[worker'[w].chan] = "on"
    <3>1. Alive(worker'[w].client, worker'[w].chan)
      BY <2>2 DEF Alive
    <3> QED
      BY <2>2, <3>1 DEF Persists
  <2> QED
    BY <1>3, <2>1, <2>2 DEF WorkersAlive
<1>4. AliveInv'
  BY <1>2, <1>3 DEF AliveInv, Alive, Lives
<1>5. AskInv'
  <2>1. \A w \in Workers : \A i \in DOMAIN wq'[w] : wq'[w][i].type = "disconnect" =>
          /\ Busy' /\ main'.step = "waits" /\ i = Len(wq'[w])
          /\ wq'[w][i].client = main'.client /\ wq'[w][i].chan = Victim'
    BY <1>2 DEF RccInv, AskInv, Busy, Victim
  <2>2. ASSUME Busy, main.step = "acked"
        PROVE  /\ wq'[Worker[Victim]] = <<>> /\ clients'[main.client].chan[Victim] = "off"
               /\ worker'[Worker[Victim]].client = main.client
                     => worker'[Worker[Victim]].chan # Victim
    <3>1. /\ main.client \in Ids /\ main.client # 0 /\ main.walk # <<>>
          /\ Victim \in Chans /\ Victim \in Remote /\ Worker[Victim] \in Workers
      BY <2>2, BusyMain DEF RccInv, WalkInv, Busy, Workers
    <3>2. /\ wq[Worker[Victim]] = <<>> /\ clients[main.client].chan[Victim] = "off"
          /\ worker[Worker[Victim]].client = main.client => worker[Worker[Victim]].chan # Victim
      BY <2>2 DEF RccInv, AskInv
    <3>3. wq' = wq
      BY <2>2 DEF RequestsAlive, Busy
    <3>4. clients'[main.client].chan[Victim] = "off"
      BY <3>1, <3>2 DEF Persists
    <3>5. PICK w \in Workers : w = Worker[Victim]
      BY <3>1
    <3>6. worker'[w].client = main.client => worker'[w].chan # Victim
      <4>1. CASE worker'[w] = Idle
        BY <3>1, <4>1 DEF Idle
      <4>2. CASE worker'[w].client = worker[w].client /\ worker'[w].chan = worker[w].chan
        BY <3>2, <3>5, <4>2
      <4>3. CASE clients[worker'[w].client].chan[worker'[w].chan] = "on"
        BY <3>2, <4>3
      <4> QED
        BY <4>1, <4>2, <4>3 DEF WorkersAlive
    <3> QED
      BY <3>2, <3>3, <3>4, <3>5, <3>6
  <2> QED
    BY <2>1, <2>2 DEF AskInv, Busy, Victim
<1> QED
  BY <1>1, <1>4, <1>5

\* The channels of one client change so that Persists says.
LEMMA ClientPersists ==
  ASSUME TypeInv, UNCHANGED mode, mig' \subseteq mig,
         NEW c \in Ids, NEW r \in Client, Becomes(c, r), RingOf(r),
         \A ch \in Chans : \/ r.chan[ch] = clients[c].chan[ch]
                           \/ clients[c].chan[ch] = "none"
                           \/ r.chan[ch] = "off"
  PROVE  ClientInv' /\ Persists /\ Ids' = Ids /\ Len(clients') = Len(clients)
<1>1. /\ ClientInv' /\ Ids' = Ids /\ Len(clients') = Len(clients)
      /\ clients'[c] = r /\ \A d \in Ids \ {c} : clients'[d] = clients[d]
  BY ClientsFrame
<1>2. ASSUME NEW d \in Ids, NEW ch \in Chans
      PROVE  /\ Alive(d, ch) => Lives(d, ch)
             /\ clients[d].chan[ch] = "off" => clients'[d].chan[ch] = "off"
  <2>1. CASE d = c
    BY <1>1, <2>1 DEF Alive, Lives
  <2>2. CASE d # c
    BY <1>1, <2>2 DEF Alive, Lives
  <2> QED
    BY <2>1, <2>2
<1> QED
  BY <1>1, <1>2 DEF Persists

\* A step that leaves the rccs of a client as they were destroys none.
LEMMA SamePersists ==
  ASSUME TypeInv, UNCHANGED mode, mig' \subseteq mig,
         NEW c \in Ids, NEW r \in Client, Becomes(c, r), RingOf(r),
         r.chan = clients[c].chan
  PROVE  ClientInv' /\ Persists /\ Ids' = Ids /\ Len(clients') = Len(clients)
BY ClientPersists

\* Linking channels destroys no rcc.
LEMMA LinksPersists ==
  ASSUME TypeInv, UNCHANGED mode, mig' \subseteq mig,
         NEW c \in Ids, NEW q, NEW S, Links(c, q, S), q.chan = clients[c].chan
  PROVE  ClientInv' /\ Persists /\ Ids' = Ids /\ Len(clients') = Len(clients)
<1>1. PICK r \in Client : Becomes(c, r) /\ RingOf(r) /\ Creates(r, q, S)
  BY DEF Links
<1>2. \A ch \in Chans : \/ r.chan[ch] = clients[c].chan[ch]
                        \/ clients[c].chan[ch] = "none"
  BY <1>1 DEF Creates, Made
<1> QED
  BY <1>1, <1>2, ClientPersists

\* A step in which the main thread goes on with what it is in the middle of.
LEMMA RccFrameStep ==
  ASSUME RccInv, UNCHANGED <<mode, main>>, dst' \in BOOLEAN, aborted' \in BOOLEAN,
         told' \in 0 .. MaxLatency, ClientInv', Persists, Len(clients') = Len(clients),
         WorkerSteps, WorkersAlive, RequestsAlive, ReportSteps
  PROVE  RccInv'
<1>1. RequestSteps
  BY DEF RequestsAlive, RequestSteps
<1>2. Ids \subseteq Ids'
  BY DEF Persists
<1>3. ThreadInv' /\ QueueInv'
  BY <1>1, <1>2, ThreadFrame, QueueFrame DEF RccInv
<1> QED
  BY <1>3, RccFrame DEF RccInv, TypeInv

\* Nothing happens to the threads or the queues.
LEMMA StillThreads ==
  ASSUME TypeInv
  PROVE  /\ UNCHANGED worker => WorkerSteps /\ WorkersAlive
         /\ UNCHANGED wq => RequestsAlive
         /\ UNCHANGED mq => ReportSteps
<1>1. UNCHANGED worker => WorkersAlive
  BY DEF WorkersAlive
<1>2. UNCHANGED mq => ReportSteps
  BY DEF ReportSteps, TypeInv, QueueInv
<1> QED
  BY <1>1, <1>2 DEF WorkerSteps, RequestsAlive

\* The flags and the bound keep their types.
LEMMA Flags ==
  ASSUME TypeInv
  PROVE  dst \in BOOLEAN /\ aborted \in BOOLEAN /\ told \in 0 .. MaxLatency
BY DEF TypeInv, ThreadInv

\* Each action keeps RccInv.  MIGRATE_DST_DO_SEAMLESS creates rccs and sends CONNECTs.
LEMMA RccDstDoSeamless ==
  ASSUME RccInv, NEW c \in Ids, DstDoSeamless(c)
  PROVE  RccInv'
<1>1. TypeInv
  BY DEF RccInv
<1>2. /\ main = Idle /\ UNCHANGED <<mode, main, worker, mq, told>>
      /\ dst' \in BOOLEAN /\ aborted' \in BOOLEAN
  BY <1>1, Flags DEF DstDoSeamless
<1>3. PICK W : W = ToSet(clients[c].ring) \cap NeedData
  OBVIOUS
<1>4. ToSet(clients[c].pending) \in SUBSET Chans
  BY <1>1, Known DEF Client, ToSet
<1>5. CASE /\ \E q : /\ Only(q, clients[c], {"pending", "seamless", "waits", "migrated"})
                     /\ q.pending = <<>> /\ q.seamless /\ q.waits = W
                     /\ q.migrated = clients[c].migrated + Cardinality(W)
                     /\ Links(c, q, ToSet(clients[c].pending) \ Remote)
           /\ \E n \in Nat : Grows("connect", c, ToSet(clients[c].pending), n)
           /\ mig' = mig \ {c} /\ dst'
  <2>1. PICK q : /\ Only(q, clients[c], {"pending", "seamless", "waits", "migrated"})
                 /\ Links(c, q, ToSet(clients[c].pending) \ Remote)
    BY <1>5
  <2>2. q.chan = clients[c].chan
    BY <2>1 DEF Only, Fields
  <2>3. mig' \subseteq mig
    BY <1>5
  <2>4. ClientInv' /\ Persists /\ Len(clients') = Len(clients)
    BY <1>1, <1>2, <2>1, <2>2, <2>3, LinksPersists
  <2>5. RequestsAlive
    BY <1>2, <1>4, <1>5 DEF RequestsAlive
  <2> QED
    BY <1>1, <1>2, <2>4, <2>5, Flags, StillThreads, RccFrameStep
<1>6. CASE /\ \E r \in Client : /\ Becomes(c, r) /\ RingOf(r)
                                /\ Only(r, clients[c], {"kind"}) /\ r.kind = "semi"
           /\ UNCHANGED <<wq, mig>> /\ ~dst'
  <2>1. PICK r \in Client : Becomes(c, r) /\ RingOf(r) /\ Only(r, clients[c], {"kind"})
    BY <1>6
  <2>2. r.chan = clients[c].chan
    BY <2>1 DEF Only, Fields
  <2>3. ClientInv' /\ Persists /\ Len(clients') = Len(clients)
    BY <1>1, <1>2, <1>6, <2>1, <2>2, SamePersists
  <2> QED
    BY <1>1, <1>2, <1>6, <2>3, Flags, StillThreads, RccFrameStep
<1> QED
  BY <1>1, <1>3, <1>5, <1>6, DstDoSeamlessEffect

\* MIGRATE_END does the same for a semi-seamless migration.
LEMMA RccMigrateEnd ==
  ASSUME RccInv, NEW c \in Ids, MigrateEnd(c)
  PROVE  RccInv'
<1>1. TypeInv
  BY DEF RccInv
<1>2. main = Idle /\ UNCHANGED <<mode, dst, main, worker, mq, told>> /\ aborted' \in BOOLEAN
  BY <1>1, Flags DEF MigrateEnd
<1>3. ToSet(clients[c].pending) \in SUBSET Chans
  BY <1>1, Known DEF Client, ToSet
<1>4. PICK q : /\ Only(q, clients[c], {"pending", "during"})
               /\ Links(c, q, ToSet(clients[c].pending) \ Remote)
  BY <1>1, MigrateEndEffect
<1>5. q.chan = clients[c].chan
  BY <1>4 DEF Only, Fields
<1>6. (\E n \in Nat : Grows("connect", c, ToSet(clients[c].pending), n)) /\ mig' = mig \ {c}
  BY <1>1, MigrateEndEffect
<1>7. mig' \subseteq mig
  BY <1>6
<1>8. ClientInv' /\ Persists /\ Len(clients') = Len(clients)
  BY <1>1, <1>2, <1>4, <1>5, <1>7, LinksPersists
<1>9. RequestsAlive
  BY <1>2, <1>3, <1>6 DEF RequestsAlive
<1> QED
  BY <1>1, <1>2, <1>8, <1>9, Flags, StillThreads, RccFrameStep

\* red_client_migrate sends MIGRATE for the rccs in the ring, which are alive.
LEMMA RccMigrate ==
  ASSUME RccInv, NEW c \in Ids, Migrate(c)
  PROVE  RccInv'
<1>1. TypeInv
  BY DEF RccInv
<1>2. main = Idle /\ UNCHANGED <<mode, mig, dst, main, worker, mq, told, aborted>>
  BY DEF Migrate
<1>3. PICK r \in Client : Becomes(c, r) /\ RingOf(r) /\ Only(r, clients[c], {"left"})
  BY <1>1, MigrateEffect
<1>4. r.chan = clients[c].chan
  BY <1>3 DEF Only, Fields
<1>5. ClientInv' /\ Persists /\ Len(clients') = Len(clients)
  BY <1>1, <1>2, <1>3, <1>4, SamePersists
<1>6. PICK on : on = {ch \in Chans : clients[c].chan[ch] = "on"}
  OBVIOUS
<1>7. PICK n \in Nat : Grows("migrate", c, on, n)
  BY <1>1, <1>6, MigrateEffect
<1>8. on \in SUBSET Chans /\ \A ch \in on : Alive(c, ch)
  BY <1>6 DEF Alive
<1>9. RequestsAlive
  BY <1>2, <1>7, <1>8 DEF RequestsAlive
<1> QED
  BY <1>1, <1>2, <1>5, <1>9, Flags, StillThreads, RccFrameStep

\* reds_handle_other_links.
LEMMA RccOtherLink ==
  ASSUME RccInv, NEW c \in Ids, NEW ch \in mode.chans, OtherLink(c, ch)
  PROVE  RccInv'
<1>1. TypeInv
  BY DEF RccInv
<1>2. main = Idle /\ UNCHANGED <<mode, mig, dst, main, worker, mq, told>> /\ aborted' \in BOOLEAN
  BY <1>1, Flags DEF OtherLink
<1>3. {ch} \in SUBSET Chans
  BY <1>1, Known DEF Chans
<1>4. PICK q : /\ Only(q, clients[c], {"links", "pending"})
               /\ \/ Links(c, q, {}) /\ UNCHANGED wq
                  \/ Links(c, q, {ch} \ Remote) /\ Grows("connect", c, {ch}, 1)
  BY <1>1, OtherLinkEffect
<1>5. q.chan = clients[c].chan
  BY <1>4 DEF Only, Fields
<1>6. PICK S : Links(c, q, S)
  BY <1>4
<1>7. ClientInv' /\ Persists /\ Len(clients') = Len(clients)
  BY <1>1, <1>2, <1>5, <1>6, LinksPersists
<1>8. RequestsAlive
  BY <1>2, <1>3, <1>4 DEF RequestsAlive
<1> QED
  BY <1>1, <1>2, <1>7, <1>8, Flags, StillThreads, RccFrameStep

\* A post about a connected rcc starts.
LEMMA PostStarts ==
  ASSUME TypeInv, NEW c \in Ids, NEW ch \in Remote, NEW t \in {"complete", "latency"},
         StartPost(c, ch, t), clients[c].chan[ch] = "on"
  PROVE  WorkerSteps /\ WorkersAlive
<1>1. PICK p \in Posting : Posts(Worker[ch], p) /\ p.client = c /\ p.chan = ch
  BY StartPostEffect
<1>2. PICK w \in Workers : w = Worker[ch]
  BY DEF Workers
<1>3. worker'[w] = p /\ \A v \in Workers \ {w} : worker'[v] = worker[v]
  BY <1>1, <1>2, PostsEffect
<1>4. WorkerSteps
  BY <1>1, <1>2 DEF WorkerSteps
<1>5. WorkersAlive
  BY <1>1, <1>3 DEF WorkersAlive, Chans
<1> QED
  BY <1>4, <1>5

\* A worker starts to report a latency for an rcc that is connected.
LEMMA RccLatency ==
  ASSUME RccInv, NEW c \in Ids, NEW ch \in mode.chans, Latency(c, ch)
  PROVE  RccInv'
<1>1. TypeInv
  BY DEF RccInv
<1>2. /\ UNCHANGED <<mode, clients, mig, dst, main, wq, mq, aborted>>
      /\ ch \in Remote /\ clients[c].chan[ch] = "on" /\ StartPost(c, ch, "latency")
  BY DEF Latency
<1>3. told' \in 0 .. MaxLatency
  BY <1>1, Flags, ClientAssumption DEF Latency
<1>4. WorkerSteps /\ WorkersAlive
  BY <1>1, <1>2, PostStarts
<1>5. ClientInv' /\ Persists /\ Len(clients') = Len(clients)
  BY <1>1, <1>2 DEF TypeInv, ClientInv, RingOf, Fresh, Persists, Ids, Alive, Lives
<1> QED
  BY <1>1, <1>2, <1>3, <1>4, <1>5, Flags, StillThreads, RccFrameStep

\* A connection is lost.
LEMMA RccDrop ==
  ASSUME RccInv, NEW c \in Ids, NEW cl \in Client, RingOf(cl), cl.chan = clients[c].chan,
         NEW ch \in Chans, cl.chan[ch] = "on", Drop(c, cl, ch),
         UNCHANGED <<mode, mig, dst, main, worker, wq, told, aborted>>
  PROVE  RccInv'
<1>1. TypeInv
  BY DEF RccInv
<1>2. PICK r \in Client :
            /\ Becomes(c, r) /\ RingOf(r)
            /\ \A x \in Chans : r.chan[x] = IF x = ch THEN "off" ELSE cl.chan[x]
            /\ \/ mq' = Append(mq, Msg("disconnect", c, Main))
               \/ UNCHANGED mq
  BY <1>1, DropEffect
<1>3. \A x \in Chans : r.chan[x] = clients[c].chan[x] \/ r.chan[x] = "off"
  BY <1>2
<1>4. ClientInv' /\ Persists /\ Len(clients') = Len(clients)
  BY <1>1, <1>2, <1>3, ClientPersists
<1>5. ReportSteps
  <2>1. CASE mq' = Append(mq, Msg("disconnect", c, Main))
    <3>1. PICK m \in Reports : m = Msg("disconnect", c, Main)
      BY <1>1, Known DEF Msg, Reports
    <3>2. m.client = c
      BY <3>1 DEF Msg
    <3>3. mq' \in Seq(Reports)
      BY <1>1, <2>1, <3>1 DEF TypeInv, QueueInv
    <3> QED
      BY <2>1, <3>1, <3>2, <3>3 DEF ReportSteps
  <2> QED
    BY <1>1, <1>2, <2>1, StillThreads
<1> QED
  BY <1>1, <1>4, <1>5, Flags, StillThreads, RccFrameStep

\* A connection that is lost leaves its rcc in the ring.
LEMMA RccLose ==
  ASSUME RccInv, NEW c \in Ids, NEW ch \in Chans, Lose(c, ch)
  PROVE  RccInv'
BY Known, RccDrop DEF Lose, RccInv

\* The data of the source.
LEMMA RccMigrateData ==
  ASSUME RccInv, NEW c \in Ids, NEW ch \in Chans, MigrateData(c, ch)
  PROVE  RccInv'
<1>1. TypeInv
  BY DEF RccInv
<1>2. UNCHANGED <<mode, mig, dst, main, wq, told, aborted>> /\ clients[c].chan[ch] = "on"
  BY DEF MigrateData
<1>3. CASE \E r : Becomes(c, r) /\ DataArrives(c, ch, r)
  <2>1. PICK r : Becomes(c, r) /\ DataArrives(c, ch, r)
    BY <1>3
  <2>2. r \in Client /\ RingOf(r) /\ UNCHANGED mq
    BY <2>1 DEF DataArrives
  <2>3. r.chan = clients[c].chan
    BY <2>1 DEF DataArrives, Only, Fields
  <2>4. ClientInv' /\ Persists /\ Len(clients') = Len(clients)
    BY <1>1, <1>2, <2>1, <2>2, <2>3, SamePersists
  <2>5. UNCHANGED worker \/ (ch \in Remote /\ StartPost(c, ch, "complete"))
    BY <2>1 DEF DataArrives
  <2>6. WorkerSteps /\ WorkersAlive
    BY <1>1, <1>2, <2>5, StillThreads, PostStarts
  <2> QED
    BY <1>1, <1>2, <2>2, <2>4, <2>6, Flags, StillThreads, RccFrameStep
<1>4. CASE /\ UNCHANGED worker
           /\ \E q \in Client : /\ RingOf(q) /\ Only(q, clients[c], {"sent", "unexpected"})
                                /\ Drop(c, q, ch)
  <2>1. PICK q \in Client : /\ RingOf(q) /\ Only(q, clients[c], {"sent", "unexpected"})
                            /\ Drop(c, q, ch)
    BY <1>4
  <2>2. q.chan = clients[c].chan
    BY <2>1 DEF Only, Fields
  <2> QED
    BY <1>2, <1>4, <2>1, <2>2, RccDrop
<1> QED
  BY <1>1, <1>3, <1>4, MigrateDataEffect

\* The second half of red_client_ref.
LEMMA RccWorkerRef ==
  ASSUME RccInv, NEW w \in Workers, WorkerRef(w)
  PROVE  RccInv'
<1>1. TypeInv
  BY DEF RccInv
<1>2. UNCHANGED <<mode, mig, dst, main, wq, mq, told, aborted>> /\ worker[w] # Idle
  BY DEF WorkerRef
<1>3. PICK c \in Ids : c = worker[w].client
  BY <1>1, <1>2, IdleWorker
<1>4. PICK r \in Client : Becomes(c, r) /\ RingOf(r) /\ Only(r, clients[c], {"refs"})
  BY <1>1, <1>3, WorkerRefEffect
<1>5. PICK p \in Posting : Posts(w, p) /\ p.client = c /\ p.chan = worker[w].chan
  BY <1>1, <1>3, WorkerRefEffect
<1>6. r.chan = clients[c].chan
  BY <1>4 DEF Only, Fields
<1>7. ClientInv' /\ Persists /\ Len(clients') = Len(clients)
  BY <1>1, <1>2, <1>4, <1>6, SamePersists
<1>8. Worker[worker[w].chan] = w
  BY <1>1, <1>2, IdleWorker
<1>9. WorkerSteps
  BY <1>5, <1>8 DEF WorkerSteps
<1>10. worker'[w] = p /\ \A v \in Workers \ {w} : worker'[v] = worker[v]
  BY <1>1, <1>5, PostsEffect
<1>11. WorkersAlive
  BY <1>2, <1>3, <1>5, <1>10 DEF WorkersAlive
<1> QED
  BY <1>1, <1>2, <1>7, <1>9, <1>11, Flags, StillThreads, RccFrameStep

\* The worker is idle again, and its message is in the queue of the main dispatcher.
LEMMA WorkerPostEffect ==
  ASSUME TypeInv, NEW w \in Workers, WorkerPost(w)
  PROVE  /\ WorkerSteps /\ Posts(w, Idle) /\ ReportSteps
         /\ worker'[w] = Idle /\ \A v \in Workers \ {w} : worker'[v] = worker[v]
         /\ \E m \in Reports : /\ m.type = worker[w].type /\ m.client = worker[w].client
                               /\ mq' = Append(mq, m)
<1>1. worker[w] \in Posting /\ worker[w].client \in Ids
  BY IdleWorker DEF WorkerPost
<1>2. PICK m \in Reports : m = Msg(worker[w].type, worker[w].client, Main)
  BY <1>1 DEF Msg, Reports, Posting
<1>3. m.type = worker[w].type /\ m.client = worker[w].client
  BY <1>2 DEF Msg
<1>4. mq' = Append(mq, m) /\ mq' \in Seq(Reports)
  BY <1>2 DEF WorkerPost, TypeInv, QueueInv
<1>5. ReportSteps
  BY <1>1, <1>3, <1>4 DEF ReportSteps
<1>6. Posts(w, Idle)
  BY DEF WorkerPost, Posts
<1> QED
  BY <1>3, <1>4, <1>5, <1>6, PostsEffect DEF WorkerSteps

\* Posting to the main dispatcher.
LEMMA RccWorkerPost ==
  ASSUME RccInv, NEW w \in Workers, WorkerPost(w)
  PROVE  RccInv'
<1>1. TypeInv
  BY DEF RccInv
<1>2. UNCHANGED <<mode, clients, mig, dst, main, wq, told, aborted>>
  BY DEF WorkerPost
<1>3. /\ WorkerSteps /\ ReportSteps
      /\ worker'[w] = Idle /\ \A v \in Workers \ {w} : worker'[v] = worker[v]
  BY <1>1, WorkerPostEffect
<1>4. WorkersAlive
  BY <1>3 DEF WorkersAlive
<1>5. ClientInv' /\ Persists /\ Len(clients') = Len(clients)
  BY <1>1, <1>2 DEF TypeInv, ClientInv, RingOf, Fresh, Persists, Ids, Alive, Lives
<1> QED
  BY <1>1, <1>2, <1>3, <1>4, <1>5, Flags, StillThreads, RccFrameStep

\* The head of a worker's queue.
LEMMA WorkerHead ==
  ASSUME RccInv, NEW w \in Workers, wq[w] # <<>>, wq' = [wq EXCEPT ![w] = Tail(@)]
  PROVE  /\ Shrinks(w) /\ Head(wq[w]) = wq[w][1] /\ 1 \in DOMAIN wq[w] /\ Len(wq[w]) \in Nat
         /\ Head(wq[w]) \in Requests /\ Head(wq[w]).client \in Ids
         /\ Head(wq[w]).chan \in Remote /\ Head(wq[w]).chan \in Chans
         /\ Worker[Head(wq[w]).chan] = w
<1>1. /\ Shrinks(w) /\ Head(wq[w]) = wq[w][1] /\ 1 \in DOMAIN wq[w] /\ Len(wq[w]) \in Nat
      /\ Head(wq[w]) \in Requests
  BY ReadEffect DEF RccInv, TypeInv
<1>2. wq[w][1].client \in Ids /\ Worker[wq[w][1].chan] = w
  BY <1>1 DEF RccInv, TypeInv, QueueInv
<1>3. Head(wq[w]).chan \in Remote
  BY <1>1 DEF Requests
<1> QED
  BY <1>1, <1>2, <1>3 DEF Chans

\* A worker handles a message that is not a DISCONNECT.
LEMMA RccHandled ==
  ASSUME RccInv, NEW w \in Workers, Shrinks(w), wq[w][1].type # "disconnect",
         ClientInv', Persists, Len(clients') = Len(clients),
         UNCHANGED <<mode, dst, main, worker, mq, told, aborted>>
  PROVE  RccInv'
<1>1. TypeInv
  BY DEF RccInv
<1>2. Ids \subseteq Ids'
  BY DEF Persists
<1>3. RequestSteps
  BY DEF RequestSteps
<1>4. ThreadInv' /\ QueueInv'
  BY <1>1, <1>2, <1>3, Flags, StillThreads, ThreadFrame, QueueFrame
<1>a. \A v \in Workers : wq[v] \in Seq(Requests) /\ wq'[v] \in Seq(Requests)
  BY <1>1 DEF TypeInv, QueueInv, Shrinks
<1>5. WalkInv' /\ (\A v \in Workers : worker'[v] # Idle => Lives(worker'[v].client, worker'[v].chan))
  <2>1. ASSUME Busy, NEW i \in DOMAIN main.walk
        PROVE  Lives(main.client, main.walk[i])
    <3>1. main.client \in Ids /\ main.walk[i] \in Chans
      BY <1>1, <2>1, BusyMain DEF Busy
    <3> QED
      BY <2>1, <3>1 DEF RccInv, WalkInv, Persists
  <2>2. WalkInv'
    BY <2>1 DEF RccInv, WalkInv, Busy, Victim, Alive, Lives
  <2>3. \A v \in Workers : worker[v] # Idle => Lives(worker[v].client, worker[v].chan)
    BY <1>1, IdleWorker DEF RccInv, AliveInv, Persists
  <2> QED
    BY <2>2, <2>3
<1>6. ASSUME NEW v \in Workers, NEW i \in DOMAIN wq'[v]
      PROVE  \E j \in DOMAIN wq[v] : /\ wq'[v][i] = wq[v][j] /\ j - Len(wq[v]) = i - Len(wq'[v])
                                     /\ wq[v][j].client \in Ids /\ wq[v][j].chan \in Chans
  <2>1. \A j \in DOMAIN wq[v] : wq[v][j].client \in Ids /\ wq[v][j].chan \in Chans
    <3>1. \A j \in DOMAIN wq[v] : wq[v][j] \in Requests
      BY <1>a
    <3> QED
      BY <1>1, <3>1 DEF TypeInv, QueueInv, Requests, Chans
  <2>2. i \in Nat /\ Len(wq[v]) \in Nat /\ Len(wq'[v]) \in Nat
    BY <1>a
  <2>3. CASE v = w
    <3>1. /\ i + 1 \in DOMAIN wq[v] /\ wq'[v][i] = wq[v][i + 1] /\ Len(wq'[v]) = Len(wq[v]) - 1
      BY <2>3 DEF Shrinks
    <3>2. (i + 1) - Len(wq[v]) = i - Len(wq'[v])
      BY <2>2, <3>1
    <3> QED
      BY <2>1, <3>1, <3>2
  <2>4. CASE v # w
    BY <2>1, <2>4 DEF Shrinks
  <2> QED
    BY <2>3, <2>4
<1>7. AliveInv'
  <2>1. ASSUME NEW v \in Workers, NEW i \in DOMAIN wq'[v], wq'[v][i].type # "connect"
        PROVE  Lives(wq'[v][i].client, wq'[v][i].chan)
    BY <1>6, <2>1 DEF RccInv, AliveInv, Persists
  <2> QED
    BY <1>5, <2>1 DEF AliveInv, Alive, Lives
<1>8. AskInv'
  <2>1. ASSUME NEW v \in Workers, NEW i \in DOMAIN wq'[v], wq'[v][i].type = "disconnect"
        PROVE  /\ Busy /\ main.step = "waits" /\ i = Len(wq'[v])
               /\ wq'[v][i].client = main.client /\ wq'[v][i].chan = Victim
    <3>1. PICK j \in DOMAIN wq[v] : wq'[v][i] = wq[v][j] /\ j - Len(wq[v]) = i - Len(wq'[v])
      BY <1>6
    <3>2. /\ Busy /\ main.step = "waits" /\ j = Len(wq[v])
          /\ wq[v][j].client = main.client /\ wq[v][j].chan = Victim
      BY <2>1, <3>1 DEF RccInv, AskInv
    <3>3. i \in Nat /\ Len(wq[v]) \in Nat /\ Len(wq'[v]) \in Nat
      BY <1>a
    <3>4. i = Len(wq'[v])
      BY <3>1, <3>2, <3>3
    <3> QED
      BY <3>1, <3>2, <3>4
  <2>2. ASSUME Busy, main.step = "acked"
        PROVE  /\ wq'[Worker[Victim]] = <<>> /\ clients'[main.client].chan[Victim] = "off"
               /\ worker[Worker[Victim]].client = main.client
                     => worker[Worker[Victim]].chan # Victim
    <3>1. /\ main.client \in Ids /\ main.walk # <<>>
          /\ Victim \in Chans /\ Victim \in Remote /\ Worker[Victim] \in Workers
      BY <1>1, <2>2, BusyMain DEF RccInv, WalkInv, Busy, Workers
    <3>2. /\ wq[Worker[Victim]] = <<>> /\ clients[main.client].chan[Victim] = "off"
          /\ worker[Worker[Victim]].client = main.client => worker[Worker[Victim]].chan # Victim
      BY <2>2 DEF RccInv, AskInv
    <3>3. clients'[main.client].chan[Victim] = "off"
      BY <3>1, <3>2 DEF Persists
    <3>4. Worker[Victim] # w
      <4>1. Len(wq'[w]) \in Nat /\ Len(wq'[w]) = Len(wq[w]) - 1
        BY <1>a DEF Shrinks
      <4>2. CASE wq[w] = <<>>
        <5>1. Len(wq[w]) = 0
          BY <4>2
        <5> QED
          BY <4>1, <5>1
      <4> QED
        BY <3>2, <4>2
    <3> QED
      BY <3>1, <3>2, <3>3, <3>4 DEF Shrinks
  <2> QED
    BY <2>1, <2>2 DEF AskInv, Busy, Victim
<1> QED
  BY <1>4, <1>5, <1>7, <1>8 DEF RccInv, TypeInv

\* The handlers of a worker: a DISCONNECT is acknowledged when it was the last message
\* of the queue and the worker is idle.
LEMMA RccWorkerHandle ==
  ASSUME RccInv, NEW w \in Workers, WorkerHandle(w)
  PROVE  RccInv'
<1>1. TypeInv /\ wq[w] # <<>> /\ wq' = [wq EXCEPT ![w] = Tail(@)]
  BY DEF RccInv, WorkerHandle
<1>2. UNCHANGED <<mode, mig, dst, worker, mq, told, aborted>> /\ worker[w] = Idle
  BY DEF WorkerHandle
<1>3. PICK m \in Requests : /\ m = Head(wq[w]) /\ m = wq[w][1] /\ m.client \in Ids
                            /\ m.chan \in Remote /\ m.chan \in Chans /\ Worker[m.chan] = w
  BY <1>1, WorkerHead
<1>4. Shrinks(w) /\ 1 \in DOMAIN wq[w] /\ Len(wq[w]) \in Nat
  BY <1>1, WorkerHead
<1>5. Handle(w, m)
  BY <1>3 DEF WorkerHandle
<1>6. CASE m.type = "connect"
  <2>1. Becomes(m.client, Create(clients[m.client], <<m.chan>>)) /\ UNCHANGED main
    BY <1>5, <1>6 DEF Handle, Becomes
  <2>2. Links(m.client, clients[m.client], {m.chan})
    BY <1>1, <1>3, <2>1, ConnectEffect
  <2>3. ClientInv' /\ Persists /\ Len(clients') = Len(clients)
    BY <1>1, <1>2, <1>3, <2>2, LinksPersists
  <2> QED
    BY <1>2, <1>3, <1>4, <1>6, <2>1, <2>3, RccHandled
<1>7. CASE m.type = "migrate"
  <2>1. UNCHANGED <<clients, main>>
    BY <1>5, <1>7 DEF Handle
  <2>2. ClientInv' /\ Persists /\ Len(clients') = Len(clients)
    BY <1>1, <1>2, <2>1 DEF TypeInv, ClientInv, RingOf, Fresh, Persists, Ids, Alive, Lives
  <2> QED
    BY <1>2, <1>3, <1>4, <1>7, <2>1, <2>2, RccHandled
<1>8. CASE m.type = "disconnect"
  <2>1. /\ clients' = [clients EXCEPT ![m.client].chan[m.chan] = "off"]
        /\ main' = [main EXCEPT !.step = "acked"]
    BY <1>5, <1>8 DEF Handle
  <2>2. /\ Busy /\ main.step = "waits" /\ Len(wq[w]) = 1
        /\ m.client = main.client /\ m.chan = Victim
    BY <1>3, <1>4, <1>8, ZenonT(30) DEF RccInv, AskInv
  <2>3. Alive(m.client, m.chan)
    BY <1>3, <1>4, <1>8 DEF RccInv, AliveInv
  <2>4. PICK r \in Client : /\ Becomes(m.client, r) /\ RingOf(r)
                            /\ \A x \in Chans : r.chan[x] = IF x = m.chan THEN "off"
                                                            ELSE clients[m.client].chan[x]
    BY <1>1, <1>3, <2>1, <2>3, DisconnectedEffect, ZenonT(60)
  <2>5. ClientInv' /\ Persists /\ Ids' = Ids /\ Len(clients') = Len(clients)
    BY <1>1, <1>2, <1>3, <2>4, ClientPersists
  <2>a. clients'[m.client] = r
    BY <1>1, <1>2, <1>3, <2>4, ClientsFrame
  <2>6. /\ main' \in Destroying /\ main' # Idle /\ main'.client = main.client
        /\ main'.walk = main.walk /\ main'.step = "acked" /\ main'.then = main.then
    BY <1>1, <2>1, <2>2, AckEffect
  <2>7. ThreadInv'
    BY <1>1, <1>2, <2>2, <2>5, <2>6 DEF TypeInv, ThreadInv, Busy
  <2>8. QueueInv'
    <3>1. RequestSteps
      BY <1>4 DEF RequestSteps
    <3> QED
      BY <1>1, <1>2, <2>5, <3>1, StillThreads, QueueFrame
  <2>9. main.client \in Ids /\ main.walk \in Seq(Chans) /\ main.walk # <<>> /\ Victim \in Remote
    BY <1>1, <2>2, BusyMain DEF RccInv, WalkInv, Busy
  <2>10. WalkInv'
    <3>1. ASSUME NEW i \in DOMAIN main.walk
          PROVE  Lives(main.client, main.walk[i])
      <4>1. main.walk[i] \in Chans /\ Alive(main.client, main.walk[i])
        BY <2>2, <2>9 DEF RccInv, WalkInv
      <4> QED
        BY <2>5, <2>9, <4>1 DEF Persists
    <3>2. Busy' /\ Victim' = Victim
      BY <2>6 DEF Busy, Victim
    <3> QED
      BY <2>2, <2>6, <2>9, <3>1, <3>2 DEF RccInv, WalkInv, Alive, Lives
  <2>11. wq'[w] = <<>> /\ \A v \in Workers \ {w} : wq'[v] = wq[v]
    <3>1. wq'[w] \in Seq(Requests) /\ Len(wq'[w]) = 0
      BY <1>4, <2>2 DEF Shrinks
    <3> QED
      BY <1>4, <3>1, EmptySeq DEF Shrinks
  <2>12. AliveInv'
    <3>1. ASSUME NEW v \in Workers, NEW i \in DOMAIN wq'[v], wq'[v][i].type # "connect"
          PROVE  Lives(wq'[v][i].client, wq'[v][i].chan)
      <4>1. v # w
        BY <2>11
      <4>2. wq'[v] = wq[v] /\ wq[v] \in Seq(Requests)
        BY <1>1, <2>11, <4>1 DEF TypeInv, QueueInv
      <4>3. wq[v][i] \in Requests
        BY <4>2
      <4>4. wq[v][i].client \in Ids /\ wq[v][i].chan \in Chans
        BY <1>1, <4>2, <4>3 DEF TypeInv, QueueInv, Requests, Chans
      <4> QED
        BY <2>5, <3>1, <4>2, <4>4 DEF RccInv, AliveInv, Persists
    <3>2. \A v \in Workers : worker[v] # Idle => Lives(worker[v].client, worker[v].chan)
      BY <1>1, <2>5, IdleWorker DEF RccInv, AliveInv, Persists
    <3> QED
      BY <1>2, <3>1, <3>2 DEF AliveInv, Alive, Lives
  <2>13. AskInv'
    <3>1. ASSUME NEW v \in Workers, NEW i \in DOMAIN wq'[v]
          PROVE  wq'[v][i].type # "disconnect"
      <4>1. v # w
        BY <2>11
      <4>2. wq'[v] = wq[v]
        BY <2>11, <4>1
      <4>3. wq[v][i].type = "disconnect" => wq[v][i].chan = Victim
        BY <4>2 DEF RccInv, AskInv
      <4>4. Worker[wq[v][i].chan] = v
        BY <1>1, <4>2 DEF TypeInv, QueueInv
      <4> QED
        BY <1>3, <2>2, <4>1, <4>2, <4>3, <4>4
    <3>2. Busy' /\ Victim' = Victim /\ Worker[Victim] = w /\ main'.client = m.client
      BY <1>3, <2>2, <2>6 DEF Busy, Victim
    <3>3. clients'[m.client].chan[Victim] = "off"
      BY <1>3, <2>2, <2>4, <2>a
    <3>4. worker'[w].client # main'.client
      BY <1>1, <1>2, <1>3, <3>2, IdleWorker, Known
    <3> QED
      BY <2>11, <3>1, <3>2, <3>3, <3>4 DEF AskInv
  <2> QED
    BY <2>5, <2>7, <2>8, <2>10, <2>12, <2>13 DEF RccInv, TypeInv
<1> QED
  BY <1>3, <1>6, <1>7, <1>8 DEF Requests

\* A main thread that does not wait for a worker has asked none.
LEMMA NotAsked ==
  ASSUME RccInv, main = Idle \/ main.step = "next"
  PROVE  \A w \in Workers : \A i \in DOMAIN wq[w] : wq[w][i].type # "disconnect"
BY DEF RccInv, AskInv, Busy

\* What the queues and the workers are about stays, whatever the main thread does.
LEMMA AliveFrame ==
  ASSUME RccInv, Persists, UNCHANGED <<worker, wq>>
  PROVE  AliveInv'
<1>1. ASSUME NEW v \in Workers, NEW i \in DOMAIN wq[v], wq[v][i].type # "connect"
      PROVE  Lives(wq[v][i].client, wq[v][i].chan)
  <2>1. wq[v] \in Seq(Requests)
    BY DEF RccInv, TypeInv, QueueInv
  <2>2. wq[v][i] \in Requests
    BY <2>1
  <2>3. wq[v][i].client \in Ids /\ wq[v][i].chan \in Chans
    BY <2>2 DEF RccInv, TypeInv, QueueInv, Requests, Chans
  <2> QED
    BY <1>1, <2>3 DEF RccInv, AliveInv, Persists
<1>2. \A v \in Workers : worker[v] # Idle => Lives(worker[v].client, worker[v].chan)
  BY IdleWorker DEF RccInv, AliveInv, Persists
<1> QED
  BY <1>1, <1>2 DEF AliveInv, Alive, Lives

\* The channels of the ring are those that are there.
LEMMA RingAlive ==
  ASSUME NEW cl \in Client, RingOf(cl), NEW i \in DOMAIN cl.ring
  PROVE  cl.ring[i] \in Chans /\ cl.chan[cl.ring[i]] \in {"on", "off"}
<1>1. cl.ring[i] \in ToSet(cl.ring)
  BY DEF ToSet
<1> QED
  BY <1>1 DEF RingOf

\* reds_client_disconnect: the walk begins with the ring, whose rccs are alive.
LEMMA RccDisconnect ==
  ASSUME RccInv, NEW c \in Ids, NEW then \in {"unref", "link"}, Disconnect(c, then), main = Idle,
         then = "link" => Len(clients) < Len(mode.kinds),
         ReportSteps, UNCHANGED <<mode, dst, worker, wq, told, aborted>>
  PROVE  RccInv'
<1>1. TypeInv
  BY DEF RccInv
<1>2. PICK cl \in Client : cl = clients[c] /\ RingOf(cl)
  BY <1>1, Known
<1>3. PICK r \in Client : /\ Becomes(c, r) /\ RingOf(r)
                          /\ Only(r, cl, {"disconnecting", "listed", "pending"})
  BY <1>1, <1>2, DisconnectEffect
<1>4. r.chan = cl.chan /\ r.ring = cl.ring
  BY <1>3 DEF Only, Fields
<1>5. mig' \subseteq mig
  BY DEF Disconnect
<1>6. ClientInv' /\ Persists /\ Ids' = Ids /\ Len(clients') = Len(clients)
  BY <1>1, <1>2, <1>3, <1>4, <1>5, SamePersists
<1>7. clients'[c] = r
  BY <1>1, <1>3, <1>5, ClientsFrame
<1>8. /\ main' \in Destroying /\ main' # Idle /\ main'.client = c
      /\ main'.walk = r.ring /\ main'.step = "next" /\ main'.then = then
  BY <1>1, <1>2, <1>4, WalkStarts
<1>9. ThreadInv'
  BY <1>1, <1>6, <1>8 DEF TypeInv, ThreadInv, Busy
<1>10. QueueInv'
  BY <1>1, <1>6, QueueFrame DEF RequestSteps
<1>11. AliveInv'
  BY <1>6, AliveFrame
<1>12. AskInv'
  BY <1>8, NotAsked DEF AskInv
<1>13. WalkInv'
  <2>1. \A i \in DOMAIN r.ring : r.chan[r.ring[i]] \in {"on", "off"}
    BY <1>3, RingAlive
  <2>2. IsInjective(r.ring)
    BY <1>3 DEF RingOf
  <2> QED
    BY <1>7, <1>8, <2>1, <2>2 DEF WalkInv, Alive
<1> QED
  BY <1>6, <1>9, <1>10, <1>11, <1>12, <1>13 DEF RccInv, TypeInv

\* The main dispatcher.
LEMMA RccMainHandle ==
  ASSUME RccInv, MainHandle
  PROVE  RccInv'
<1>1. TypeInv /\ UNCHANGED <<mode, dst, worker, wq, told, aborted>>
  BY DEF RccInv, MainHandle
<1>2. PICK m : m = Head(mq)
  OBVIOUS
<1>3. /\ m \in Reports /\ m.client \in Ids /\ main = Idle /\ mq' \in Seq(Reports)
      /\ \A i \in DOMAIN mq' : i + 1 \in DOMAIN mq /\ mq'[i] = mq[i + 1]
  BY <1>1, <1>2, MainHandleEffect
<1>4. ReportSteps
  BY <1>3 DEF ReportSteps
<1>5. CASE Disconnect(m.client, "unref")
  BY <1>1, <1>3, <1>4, <1>5, RccDisconnect
<1>6. CASE /\ UNCHANGED <<main, mig>>
           /\ \E q \in Client : \E r :
                 /\ Only(q, clients[m.client], {"completed"}) /\ RingOf(q)
                 /\ r = Unref(q, 1) /\ Becomes(m.client, r)
  <2>1. PICK q, r : /\ q \in Client /\ Only(q, clients[m.client], {"completed"}) /\ RingOf(q)
                    /\ r = Unref(q, 1) /\ Becomes(m.client, r)
    BY <1>6
  <2>2. r \in Client /\ Only(r, q, {"refs", "freed"})
    BY <2>1, UnrefEffect
  <2>3. RingOf(r)
    BY <2>1, <2>2, RingKept
  <2>4. r.chan = clients[m.client].chan
    BY <2>1, <2>2 DEF Only, Fields
  <2>5. ClientInv' /\ Persists /\ Len(clients') = Len(clients)
    BY <1>1, <1>3, <1>6, <2>1, <2>2, <2>3, <2>4, SamePersists
  <2> QED
    BY <1>1, <1>4, <1>6, <2>5, Flags, StillThreads, RccFrameStep
<1> QED
  BY <1>1, <1>2, <1>5, <1>6, MainHandleEffect

\* The DISCONNECT is the last message of the queue, since the main thread waits for it.
LEMMA RccAskDisconnect ==
  ASSUME RccInv, AskDisconnect
  PROVE  RccInv'
<1>1. TypeInv /\ UNCHANGED <<mode, clients, mig, dst, worker, mq, told, aborted>>
  BY DEF RccInv, AskDisconnect
<1>2. Busy /\ main.step = "next" /\ main.walk # <<>> /\ Victim \in Remote
  BY DEF AskDisconnect, Busy, Victim
<1>3. /\ main' \in Destroying /\ main' # Idle /\ main'.client = main.client
      /\ main'.walk = main.walk /\ main'.step = "waits" /\ main'.then = main.then
      /\ Grows("disconnect", main.client, {Victim}, 1)
  BY <1>1, AskEffect
<1>4. /\ main.client \in Ids /\ Victim \in Chans /\ Victim = main.walk[1]
      /\ 1 \in DOMAIN main.walk
  BY <1>1, <1>2, BusyMain DEF Busy
<1>5. ClientInv' /\ Ids' = Ids
  BY <1>1 DEF TypeInv, ClientInv, RingOf, Fresh, Ids
<1>6. ThreadInv'
  BY <1>1, <1>2, <1>3, <1>5 DEF TypeInv, ThreadInv, Busy
<1>7. QueueInv'
  <2>1. {Victim} \in SUBSET Chans
    BY <1>4
  <2>2. RequestSteps
    BY <1>3, <1>4, <2>1 DEF RequestSteps
  <2> QED
    BY <1>1, <1>5, <2>2, StillThreads, QueueFrame
<1>8. Busy' /\ Victim' = Victim
  BY <1>3 DEF Busy, Victim
<1>9. WalkInv'
  BY <1>1, <1>2, <1>3, <1>8 DEF RccInv, WalkInv, Alive
<1>10. ASSUME NEW w \in Workers, NEW i \in DOMAIN wq'[w], i \notin DOMAIN wq[w]
       PROVE  /\ wq'[w][i].client = main.client /\ wq'[w][i].chan = Victim /\ i = Len(wq'[w])
              /\ Alive(wq'[w][i].client, wq'[w][i].chan)
  <2>1. /\ wq'[w][i].client = main.client /\ wq'[w][i].chan = Victim
        /\ Len(wq'[w]) <= Len(wq[w]) + 1
    BY <1>3, <1>10 DEF Grows
  <2>2. wq[w] \in Seq(Requests) /\ wq'[w] \in Seq(Requests)
    BY <1>1, <1>7 DEF TypeInv, QueueInv
  <2>3. i = Len(wq'[w])
    BY <1>10, <2>1, <2>2
  <2>4. Alive(main.client, Victim)
    BY <1>2, <1>4 DEF RccInv, WalkInv
  <2> QED
    BY <2>1, <2>3, <2>4
<1>11. \A w \in Workers : \A i \in DOMAIN wq[w] : wq'[w][i] = wq[w][i] /\ wq[w][i].type # "disconnect"
  BY <1>2, <1>3, NotAsked DEF Grows
<1>12. AliveInv'
  <2>1. \A w \in Workers : \A i \in DOMAIN wq'[w] :
           wq'[w][i].type # "connect" => Alive(wq'[w][i].client, wq'[w][i].chan)
    BY <1>10, <1>11 DEF RccInv, AliveInv
  <2> QED
    BY <1>1, <2>1 DEF RccInv, AliveInv, Alive
<1>13. AskInv'
  BY <1>3, <1>8, <1>10, <1>11 DEF AskInv
<1> QED
  BY <1>5, <1>6, <1>7, <1>9, <1>12, <1>13 DEF RccInv, TypeInv

\* An rcc is destroyed when nothing of the worker is about it.
LEMMA RccDestroyRcc ==
  ASSUME RccInv, DestroyRcc
  PROVE  RccInv'
<1>1. TypeInv /\ UNCHANGED <<mode, mig, dst, worker, wq, mq, told>> /\ aborted' \in BOOLEAN
  BY DEF RccInv, DestroyRcc
<1>2. Busy /\ main.walk # <<>> /\ (Victim \in Remote => main.step = "acked")
  BY DEF DestroyRcc, Busy, Victim
<1>3. /\ main' \in Destroying /\ main' # Idle /\ main'.client = main.client
      /\ main'.step = "next" /\ main'.then = main.then /\ main'.walk \in Seq(Chans)
      /\ \A i \in DOMAIN main'.walk : i + 1 \in DOMAIN main.walk /\ main'.walk[i] = main.walk[i + 1]
  BY <1>1, DestroyRccEffect
<1>4. PICK c \in Ids : c = main.client
  BY <1>1, <1>2, BusyMain DEF Busy
<1>5. PICK r \in Client : /\ Becomes(c, r) /\ RingOf(r)
                          /\ \A x \in Chans : r.chan[x] = IF x = Victim THEN "gone"
                                                          ELSE clients[c].chan[x]
  BY <1>1, <1>4, DestroyRccEffect
<1>6. /\ ClientInv' /\ Ids' = Ids /\ Len(clients') = Len(clients)
      /\ clients'[c] = r /\ \A d \in Ids \ {c} : clients'[d] = clients[d]
  BY <1>1, <1>5, ClientsFrame
<1>7. ThreadInv'
  BY <1>1, <1>2, <1>3, <1>6 DEF TypeInv, ThreadInv, Busy
<1>8. QueueInv'
  BY <1>1, <1>6, StillThreads, QueueFrame DEF RequestSteps
<1>9. /\ Victim = main.walk[1] /\ Victim \in Chans /\ 1 \in DOMAIN main.walk
      /\ main.walk \in Seq(Chans)
  BY <1>1, <1>2, BusyMain DEF Busy
<1>10. \A d \in Ids : \A ch \in Chans : Alive(d, ch) /\ ~(d = c /\ ch = Victim) => Lives(d, ch)
  BY <1>5, <1>6 DEF Alive, Lives
<1>11. ASSUME Victim \in Remote
       PROVE  /\ main.step = "acked" /\ wq[Worker[Victim]] = <<>>
              /\ worker[Worker[Victim]].client = c => worker[Worker[Victim]].chan # Victim
  BY <1>2, <1>4, <1>11 DEF RccInv, AskInv
<1>12. AliveInv'
  <2>1. ASSUME NEW v \in Workers, NEW i \in DOMAIN wq[v], wq[v][i].type # "connect"
        PROVE  Lives(wq[v][i].client, wq[v][i].chan)
    <3>1. wq[v] \in Seq(Requests)
      BY <1>1 DEF TypeInv, QueueInv
    <3>2. wq[v][i] \in Requests
      BY <3>1
    <3>3. /\ wq[v][i].client \in Ids /\ wq[v][i].chan \in Chans /\ wq[v][i].chan \in Remote
          /\ Worker[wq[v][i].chan] = v
      BY <1>1, <3>2 DEF TypeInv, QueueInv, Requests, Chans
    <3>4. Alive(wq[v][i].client, wq[v][i].chan)
      BY <2>1 DEF RccInv, AliveInv
    <3>5. wq[v][i].chan # Victim
      BY <1>11, <3>3
    <3> QED
      BY <1>10, <3>3, <3>4, <3>5
  <2>2. ASSUME NEW v \in Workers, worker[v] # Idle
        PROVE  Lives(worker[v].client, worker[v].chan)
    <3>1. /\ worker[v].client \in Ids /\ worker[v].chan \in Chans /\ worker[v].chan \in Remote
          /\ Worker[worker[v].chan] = v
      BY <1>1, <2>2, IdleWorker
    <3>2. Alive(worker[v].client, worker[v].chan)
      BY <2>2 DEF RccInv, AliveInv
    <3>3. ~(worker[v].client = c /\ worker[v].chan = Victim)
      BY <1>11, <3>1
    <3> QED
      BY <1>10, <3>1, <3>2, <3>3
  <2> QED
    BY <1>1, <2>1, <2>2 DEF AliveInv, Alive, Lives
<1>13. AskInv'
  <2>1. \A w \in Workers : \A i \in DOMAIN wq[w] : wq[w][i].type # "disconnect"
    <3> SUFFICES ASSUME NEW w \in Workers, NEW i \in DOMAIN wq[w], wq[w][i].type = "disconnect"
                 PROVE  FALSE
      OBVIOUS
    <3>1. main.step = "waits"
      BY DEF RccInv, AskInv
    <3>2. Victim \in Remote
      BY <1>2, <3>1 DEF RccInv, WalkInv
    <3> QED
      BY <1>11, <3>1, <3>2
  <2> QED
    BY <1>1, <1>3, <2>1 DEF AskInv
<1>14. WalkInv'
  <2>1. PICK s \in Seq(Chans), t \in Seq(Chans) : s = main.walk /\ t = main'.walk
    BY <1>3, <1>9
  <2>2. IsInjective(s) /\ \A i \in DOMAIN s : Alive(c, s[i])
    BY <1>2, <1>4, <2>1 DEF RccInv, WalkInv
  <2>3. \A i \in DOMAIN t : i + 1 \in DOMAIN s /\ t[i] = s[i + 1] /\ i \in Nat /\ i > 0
    BY <1>3, <2>1
  <2>4. IsInjective(t)
    <3>1. ASSUME NEW i \in DOMAIN t, NEW j \in DOMAIN t, t[i] = t[j]
          PROVE  i = j
      <4>1. i + 1 = j + 1
        BY <2>2, <2>3, <3>1 DEF IsInjective
      <4> QED
        BY <2>3, <4>1
    <3> QED
      BY <3>1 DEF IsInjective
  <2>5. ASSUME NEW i \in DOMAIN t PROVE Lives(c, t[i])
    <3>1. i + 1 \in DOMAIN s /\ i + 1 # 1 /\ 1 \in DOMAIN s
      BY <1>9, <2>1, <2>3
    <3>2. s[i + 1] # s[1]
      BY <2>2, <3>1 DEF IsInjective
    <3> QED
      BY <1>9, <1>10, <2>1, <2>2, <2>3, <3>1, <3>2
  <2> QED
    BY <1>3, <1>4, <2>1, <2>4, <2>5 DEF WalkInv, Alive, Lives
<1> QED
  BY <1>6, <1>7, <1>8, <1>12, <1>13, <1>14 DEF RccInv, TypeInv

\* A client is added: all that RccInv says stays, and the main thread is idle.
LEMMA RccAdmit ==
  ASSUME RccInv, Len(clients) < Len(mode.kinds), main = Idle \/ main.walk = <<>>,
         NEW cls \in Seq(Client), Len(cls) = Len(clients), Admit(cls),
         \A d \in Ids : RingOf(cls[d]) /\ cls[d].chan = clients[d].chan,
         main' = Idle, UNCHANGED <<mode, dst, worker, wq, mq, told, aborted>>
  PROVE  RccInv'
<1>1. TypeInv
  BY DEF RccInv
<1>2. PICK kind \in Kinds :
            /\ Adds(cls, red_client_new(kind))
            /\ mig' = IF kind = "fresh" THEN mig ELSE mig \cup {Len(clients) + 1}
  BY <1>1, AdmitEffect
<1>3. RingOf(red_client_new(kind))
  BY NewClient
<1>4. Ids \subseteq Ids'
  BY <1>2 DEF Adds
<1>5. Persists
  BY <1>2, <1>4 DEF Adds, Persists, Alive, Lives
<1>6. \A d \in Ids' : RingOf(clients'[d])
  BY <1>2, <1>3 DEF Adds
<1>7. Len(clients') <= Len(mode.kinds)
  <2>1. Len(clients) \in Nat /\ Len(mode.kinds) \in Nat
    BY <1>1, ClientAssumption DEF TypeInv, ThreadInv, ClientInv, Mode
  <2> QED
    BY <1>2, <2>1 DEF Adds
<1>8. mig' \subseteq Ids'
  BY <1>1, <1>2 DEF TypeInv, ClientInv, Adds
<1>9. ClientInv'
  BY <1>2, <1>6, <1>7, <1>8 DEF Adds, ClientInv, RingOf, Fresh
<1>10. ThreadInv'
  BY <1>1, <1>4 DEF TypeInv, ThreadInv, Busy
<1>11. QueueInv'
  BY <1>1, <1>4, StillThreads, QueueFrame DEF RequestSteps
<1>12. AliveInv'
  BY <1>5, AliveFrame
<1>13. \A w \in Workers : \A i \in DOMAIN wq[w] : wq[w][i].type # "disconnect"
  BY NotAsked DEF RccInv, WalkInv, Busy, TypeInv, ThreadInv, Destroying
<1> QED
  BY <1>9, <1>10, <1>11, <1>12, <1>13 DEF RccInv, TypeInv, WalkInv, AskInv, Busy

\* reds_handle_main_link.
LEMMA RccMainLink ==
  ASSUME RccInv, MainLink
  PROVE  RccInv'
<1>1. TypeInv /\ main = Idle /\ Len(clients) < Len(mode.kinds)
      /\ UNCHANGED <<mode, dst, worker, wq, mq, told, aborted>>
  BY DEF RccInv, MainLink
<1>2. CASE \E c \in Ids : Disconnect(c, "link")
  BY <1>1, <1>2, StillThreads, RccDisconnect
<1>3. CASE Admit(clients) /\ UNCHANGED main
  <2>1. clients \in Seq(Client) /\ \A d \in Ids : RingOf(clients[d])
    BY <1>1 DEF TypeInv, ClientInv
  <2> QED
    BY <1>1, <1>3, <2>1, RccAdmit
<1> QED
  BY <1>2, <1>3 DEF MainLink

\* A client is replaced before another one is added.
Replaced(cls, c, r) == cls = [clients EXCEPT ![c] = r]

\* A sequence of clients in which one is another.
LEMMA ReplacedEffect ==
  ASSUME clients \in Seq(Client), NEW c \in Ids, NEW r \in Client, NEW cls, Replaced(cls, c, r)
  PROVE  /\ cls \in Seq(Client) /\ Len(cls) = Len(clients)
         /\ cls[c] = r /\ \A d \in Ids \ {c} : cls[d] = clients[d]
BY DEF Ids, Replaced

\* The client that has been destroyed loses its references.
Releases(cls, n) == cls = [clients EXCEPT ![main.client] = Unref(@, n)]

\* red_client_unref at the end of red_client_destroy leaves the rccs as they are.
LEMMA Released ==
  ASSUME TypeInv, main # Idle, NEW n \in Nat, NEW cls, Releases(cls, n)
  PROVE  LET c == main.client
         IN  /\ cls \in Seq(Client) /\ Len(cls) = Len(clients) /\ c \in Ids
             /\ \A d \in Ids \ {c} : cls[d] = clients[d]
             /\ \E r \in Client : /\ cls = [clients EXCEPT ![c] = r]
                                  /\ cls[c] = r /\ r = Unref(clients[c], n) /\ RingOf(r)
                                  /\ r.chan = clients[c].chan
<1>1. PICK c \in Ids : c = main.client
  BY BusyMain
<1>2. PICK cl \in Client : cl = clients[c] /\ RingOf(cl)
  BY Known
<1>3. PICK r : r = Unref(cl, n)
  OBVIOUS
<1>4. r \in Client /\ Only(r, cl, {"refs", "freed"})
  BY <1>3, UnrefEffect
<1>5. RingOf(r)
  BY <1>2, <1>4, RingKept
<1>6. r.chan = cl.chan
  BY <1>4 DEF Only, Fields
<1>7. cls = [clients EXCEPT ![c] = r]
  BY <1>1, <1>2, <1>3 DEF Releases
<1>8. cls \in Seq(Client) /\ Len(cls) = Len(clients) /\ cls[c] = r
      /\ \A d \in Ids \ {c} : cls[d] = clients[d]
  <2>1. Replaced(cls, c, r) /\ clients \in Seq(Client)
    BY <1>7 DEF Replaced, TypeInv, ClientInv
  <2> QED
    BY <1>4, <2>1, ReplacedEffect
<1> QED
  BY <1>1, <1>2, <1>3, <1>4, <1>5, <1>6, <1>7, <1>8

\* The end of red_client_destroy.
LEMMA RccDestroyEnd ==
  ASSUME RccInv, DestroyEnd
  PROVE  RccInv'
<1>1. /\ TypeInv /\ main # Idle /\ main' = Idle /\ main.walk = <<>>
      /\ UNCHANGED <<mode, dst, worker, wq, mq, told, aborted>>
  BY DEF RccInv, DestroyEnd
<1>2. CASE clients' = [clients EXCEPT ![main.client] = Unref(@, 2)] /\ UNCHANGED mig
  <2>1. PICK r \in Client : /\ Becomes(main.client, r) /\ RingOf(r)
                            /\ r.chan = clients[main.client].chan
    <3>1. PICK cls : cls = clients'
      OBVIOUS
    <3>2. Releases(cls, 2)
      BY <1>2, <3>1 DEF Releases
    <3>3. PICK r \in Client : /\ cls = [clients EXCEPT ![main.client] = r] /\ RingOf(r)
                              /\ r.chan = clients[main.client].chan
      BY <1>1, <3>2, Released, SMTT(30)
    <3>4. Becomes(main.client, r)
      BY <3>1, <3>3 DEF Becomes
    <3> QED
      BY <3>3, <3>4
  <2>2. main.client \in Ids
    BY <1>1, BusyMain
  <2>3. ClientInv' /\ Persists /\ Ids' = Ids
    BY <1>1, <1>2, <2>1, <2>2, SamePersists
  <2>4. ThreadInv'
    BY <1>1, <2>3 DEF TypeInv, ThreadInv, Busy
  <2>5. QueueInv'
    BY <1>1, <2>3, StillThreads, QueueFrame DEF RequestSteps
  <2>6. AliveInv'
    BY <1>1, <2>3, AliveFrame
  <2>7. \A w \in Workers : \A i \in DOMAIN wq[w] : wq[w][i].type # "disconnect"
    BY <1>1, NotAsked DEF RccInv, WalkInv, Busy, TypeInv, ThreadInv, Destroying
  <2> QED
    BY <1>1, <2>3, <2>4, <2>5, <2>6, <2>7 DEF RccInv, TypeInv, WalkInv, AskInv, Busy
<1>3. CASE main.then = "link" /\ Admit([clients EXCEPT ![main.client] = Unref(@, 1)])
  <2>1. PICK cls : Releases(cls, 1) /\ Admit(cls)
    BY <1>3 DEF Releases
  <2>2. /\ cls \in Seq(Client) /\ Len(cls) = Len(clients)
        /\ \A d \in Ids \ {main.client} : cls[d] = clients[d]
        /\ RingOf(cls[main.client]) /\ cls[main.client].chan = clients[main.client].chan
    <3>1. PICK r \in Client : /\ cls[main.client] = r /\ RingOf(r)
                              /\ r.chan = clients[main.client].chan
      BY <1>1, <2>1, Released
    <3>2. /\ cls \in Seq(Client) /\ Len(cls) = Len(clients)
      BY <1>1, <2>1, Released
    <3>3. \A d \in Ids \ {main.client} : cls[d] = clients[d]
      BY <1>1, <2>1, Released, ZenonT(30)
    <3> QED
      BY <3>1, <3>2, <3>3
  <2>3. \A d \in Ids : RingOf(cls[d]) /\ cls[d].chan = clients[d].chan
    BY <1>1, <2>2 DEF TypeInv, ClientInv
  <2>4. Len(clients) < Len(mode.kinds)
    BY <1>1, <1>3 DEF TypeInv, ThreadInv, Busy
  <2> QED
    BY <1>1, <1>3, <2>1, <2>2, <2>3, <2>4, RccAdmit
<1> QED
  BY <1>2, <1>3 DEF DestroyEnd

-----------------------------------------------------------------------------
\* RccInv holds at first and after every step.
LEMMA RccInit == Init => RccInv
<1> SUFFICES ASSUME Init PROVE RccInv
  OBVIOUS
<1>1. Ids = {} /\ clients = <<>> /\ Len(clients) = 0
  BY DEF Init, Ids
<1>2. mode.kinds \in Seq(Kinds)
  BY ClientAssumption DEF Init, Mode
<1>3. clients \in Seq(Client) /\ 0 <= Len(mode.kinds)
  BY <1>1, <1>2
<1>4. ClientInv
  BY <1>1, <1>3 DEF ClientInv, Init
<1>5. main = Idle /\ \A w \in Workers : worker[w] = Idle /\ wq[w] = <<>>
  BY DEF Init
<1>6. ThreadInv
  <2>1. mode \in Modes /\ dst \in BOOLEAN /\ aborted \in BOOLEAN /\ told \in 0 .. MaxLatency
    <3>1. told = 0 /\ MaxLatency \in Nat
      BY ClientAssumption DEF Init
    <3>2. mode \in Modes /\ dst = FALSE /\ aborted = FALSE
      BY DEF Init
    <3>3. told \in 0 .. MaxLatency
      BY <3>1
    <3>4. dst \in BOOLEAN /\ aborted \in BOOLEAN
      BY <3>2
    <3> QED
      BY <3>2, <3>3, <3>4
  <2>2. worker \in [Workers -> {Idle} \cup Posting]
    BY DEF Init
  <2> QED
    BY <1>5, <2>1, <2>2 DEF ThreadInv, Busy
<1>7. QueueInv
  BY <1>5 DEF QueueInv, Init
<1> QED
  BY <1>4, <1>5, <1>6, <1>7 DEF RccInv, TypeInv, WalkInv, AskInv, AliveInv, Busy

\* The channels that a client links are channels.
LEMMA ChansOf ==
  ASSUME TypeInv
  PROVE  {Main} \cup mode.chans \subseteq Chans
BY ClientAssumption DEF TypeInv, ThreadInv, Mode, Chans

\* RccInv is inductive.
LEMMA RccNext == RccInv /\ [Next]_vars => RccInv'
<1> SUFFICES ASSUME RccInv, [Next]_vars PROVE RccInv'
  OBVIOUS
<1>a. {Main} \cup mode.chans \subseteq Chans
  BY ChansOf DEF RccInv
<1>1. CASE MainLink
  BY <1>1, RccMainLink
<1>2. CASE MainHandle
  BY <1>2, RccMainHandle
<1>3. CASE AskDisconnect
  BY <1>3, RccAskDisconnect
<1>4. CASE DestroyRcc
  BY <1>4, RccDestroyRcc
<1>5. CASE DestroyEnd
  BY <1>5, RccDestroyEnd
<1>6. CASE \E c \in Ids : DstDoSeamless(c) \/ MigrateEnd(c) \/ Migrate(c)
  BY <1>6, RccDstDoSeamless, RccMigrateEnd, RccMigrate
<1>7. CASE \E c \in Ids : \E ch \in mode.chans : OtherLink(c, ch) \/ Latency(c, ch)
  BY <1>7, RccOtherLink, RccLatency
<1>8. CASE \E c \in Ids : \E ch \in {Main} \cup mode.chans : MigrateData(c, ch) \/ Lose(c, ch)
  <2>1. PICK c \in Ids, ch \in Chans : MigrateData(c, ch) \/ Lose(c, ch)
    BY <1>8, <1>a
  <2> QED
    BY <2>1, RccMigrateData, RccLose
<1>9. CASE \E w \in Workers : WorkerRef(w) \/ WorkerPost(w) \/ WorkerHandle(w)
  BY <1>9, RccWorkerRef, RccWorkerPost, RccWorkerHandle
<1>10. CASE UNCHANGED vars
  <2>1. UNCHANGED <<mode, clients, mig, dst, main, worker, wq, mq, told, aborted>>
    BY <1>10 DEF vars
  <2>2. TypeInv
    BY DEF RccInv
  <2>3. ClientInv' /\ Persists /\ Len(clients') = Len(clients)
    BY <2>1, <2>2 DEF TypeInv, ClientInv, RingOf, Fresh, Persists, Ids, Alive, Lives
  <2> QED
    BY <2>1, <2>2, <2>3, Flags, StillThreads, RccFrameStep
<1> QED
  BY <1>1, <1>2, <1>3, <1>4, <1>5, <1>6, <1>7, <1>8, <1>9, <1>10 DEF Next

\* RccInv holds in every reachable state.
LEMMA RccAlways == Spec => []RccInv
BY RccInit, RccNext, PTL DEF Spec

\* The positions of the queues are their messages.
LEMMA RccInvAlive == RccInv => RccAlive
<1> SUFFICES ASSUME RccInv PROVE RccAlive
  OBVIOUS
<1>1. ASSUME NEW w \in Workers, NEW m \in ToSet(wq[w]), m.type # "connect"
      PROVE  clients[m.client].chan[m.chan] \in {"on", "off"}
  BY <1>1 DEF RccInv, AliveInv, Alive, ToSet
<1> QED
  BY <1>1 DEF RccInv, AliveInv, Alive, RccAlive

\* RccAlive: the synchronous DISCONNECT of red_client_destroy, for any number of clients,
\* channels and workers, and also where a CONNECT is late or refs++ is torn.
THEOREM NoRccAfterDestroy == Spec => []RccAlive
BY RccAlways, RccInvAlive, PTL

-----------------------------------------------------------------------------
(* The count of a migration. *)

\* num_migrated_channels of client c, where M is mig_target_clients: a seamless migration
\* is under way exactly as long as a channel waits.
MigOf(cl, c, M) ==
    /\ cl.migrated = Cardinality(cl.waits)
    /\ cl.seamless <=> cl.waits # {}
    /\ \A ch \in cl.waits : cl.chan[ch] # "none"
    /\ cl.seamless => cl.during /\ cl.kind = "seamless" /\ c \notin M
    /\ c \in M => cl.during
    /\ cl.kind = "fresh" => ~cl.during

CountInv == \A c \in Ids : MigOf(clients[c], c, mig)

\* The completions of client c on their way to the main channel, and how many there may be
\* in all.
Completing(c) ==
    {w \in Workers : worker[w] # Idle /\ worker[w].client = c /\ worker[w].type = "complete"}
For(c, t) == {m \in Reports : m.client = c /\ m.type = t}
Underway(c) == Count(mq, For(c, "complete")) + Cardinality(Completing(c))
Limit(cl) == IF cl.kind = "seamless" /\ ~cl.during THEN 1 ELSE 0

CompleteInv == \A c \in Ids : clients[c].completed + Underway(c) <= Limit(clients[c])

-----------------------------------------------------------------------------
(* What the count is about. *)

\* A step that leaves the migration alone keeps its count.
LEMMA MigKept ==
  ASSUME NEW cl \in Client, NEW c, NEW M, NEW N, MigOf(cl, c, M), N \subseteq M,
         NEW r, NEW F, Only(r, cl, F),
         F \cap {"migrated", "waits", "seamless", "during", "kind"} = {},
         \A ch \in Chans : r.chan[ch] = "none" => cl.chan[ch] = "none"
  PROVE  MigOf(r, c, N)
<1>1. r.migrated = cl.migrated /\ r.waits = cl.waits /\ r.kind = cl.kind
  BY DEF Only, Fields
<1>2. r.seamless = cl.seamless /\ r.during = cl.during
  BY DEF Only, Fields
<1>3. cl.waits \subseteq Chans
  BY DEF Client
<1> QED
  BY <1>1, <1>2, <1>3 DEF MigOf

\* A new rcc is counted when it waits.
LEMMA MigCreates ==
  ASSUME NEW q \in Client, NEW c, NEW M, MigOf(q, c, M), NEW S, S \subseteq Chans,
         NEW r, Creates(r, q, S)
  PROVE  MigOf(r, c, M)
<1>1. r.kind = q.kind
  BY DEF Creates, Only, Fields
<1>2. r.seamless = q.seamless /\ r.during = q.during
  BY DEF Creates, Only, Fields
<1>3. PICK W, A : W = Waiting(q, S) /\ A = q.waits
  OBVIOUS
<1>4. W \subseteq Chans /\ A \subseteq Chans /\ r.waits = A \cup W
  BY <1>3 DEF Creates, Waiting, Made, Client
<1>5. A \cap W = {}
  BY <1>3 DEF MigOf, Waiting, Made
<1>6. /\ IsFiniteSet(A) /\ IsFiniteSet(W) /\ Cardinality(A) \in Nat /\ Cardinality(W) \in Nat
  BY <1>4, FiniteChans
<1>7. Cardinality(A \cup W) = Cardinality(A) + Cardinality(W)
  <2>1. Cardinality(A \cap W) = 0
    BY <1>5, FS_EmptySet
  <2>2. Cardinality(A \cup W) = Cardinality(A) + Cardinality(W) - Cardinality(A \cap W)
    BY <1>6, FS_Union
  <2> QED
    BY <1>6, <2>1, <2>2
<1>8. r.migrated = Cardinality(r.waits)
  BY <1>3, <1>4, <1>7 DEF Creates, MigOf
<1>9. W # {} => q.seamless
  BY <1>3 DEF Waiting
<1>10. r.waits # {} <=> A # {} \/ W # {}
  BY <1>4
<1>11. r.seamless <=> r.waits # {}
  BY <1>2, <1>3, <1>9, <1>10 DEF MigOf
<1>12. \A ch \in r.waits : r.chan[ch] # "none"
  <2>1. \A ch \in A : q.chan[ch] # "none"
    BY <1>3 DEF MigOf
  <2>2. \A ch \in W : ch \in Made(q, S)
    BY <1>3 DEF Waiting
  <2> QED
    BY <1>4, <2>1, <2>2 DEF Creates
<1> QED
  BY <1>1, <1>2, <1>8, <1>11, <1>12 DEF MigOf

\* A new client waits for nothing.
LEMMA MigNew ==
  ASSUME NEW kind \in Kinds, NEW c, NEW M, c \in M => kind # "fresh"
  PROVE  MigOf(red_client_new(kind), c, M)
<1>1. PICK r : r = red_client_new(kind)
  OBVIOUS
<1>2. r.kind = kind /\ r.migrated = 0 /\ r.waits = {}
  BY <1>1 DEF red_client_new
<1>3. r.seamless = FALSE /\ r.during = (kind # "fresh")
  BY <1>1 DEF red_client_new
<1>4. Cardinality({}) = 0
  BY FS_EmptySet
<1> QED
  BY <1>1, <1>2, <1>3, <1>4 DEF MigOf

\* One client changes, and none is added to mig_target_clients.
LEMMA CountFrame ==
  ASSUME TypeInv, CountInv, mig' \subseteq mig, UNCHANGED mode,
         NEW c \in Ids, NEW r \in Client, Becomes(c, r), RingOf(r), MigOf(r, c, mig')
  PROVE  CountInv'
<1>1. /\ Ids' = Ids /\ clients'[c] = r /\ \A d \in Ids \ {c} : clients'[d] = clients[d]
  BY ClientsFrame
<1>2. ASSUME NEW d \in Ids PROVE MigOf(clients'[d], d, mig')
  <2>1. CASE d # c
    <3>1. MigOf(clients[d], d, mig) /\ clients'[d] = clients[d]
      BY <1>1, <2>1 DEF CountInv
    <3> QED
      BY <3>1 DEF MigOf
  <2> QED
    BY <1>1, <2>1
<1> QED
  BY <1>1, <1>2 DEF CountInv, MigOf

\* Nothing of what the count is about changes in the client that changes.
LEMMA CountKept ==
  ASSUME TypeInv, CountInv, mig' \subseteq mig, UNCHANGED mode,
         NEW c \in Ids, NEW r \in Client, Becomes(c, r), RingOf(r),
         NEW F, Only(r, clients[c], F),
         F \cap {"migrated", "waits", "seamless", "during", "kind"} = {},
         \A ch \in Chans : r.chan[ch] = "none" => clients[c].chan[ch] = "none"
  PROVE  CountInv'
<1>1. clients[c] \in Client /\ MigOf(clients[c], c, mig)
  BY Known DEF CountInv
<1>2. PICK cl, M, N : cl \in Client /\ cl = clients[c] /\ M = mig /\ N = mig'
  BY <1>1
<1>3. MigOf(r, c, N)
  BY <1>1, <1>2, MigKept
<1> QED
  BY <1>2, <1>3, CountFrame

\* Each action keeps CountInv.  Linking channels counts those that wait.
LEMMA CountLinks ==
  ASSUME TypeInv, CountInv, mig' \subseteq mig, UNCHANGED mode,
         NEW c \in Ids, NEW q, NEW S, Links(c, q, S), MigOf(q, c, mig')
  PROVE  CountInv'
<1>1. PICK r \in Client : Becomes(c, r) /\ RingOf(r) /\ Creates(r, q, S)
  BY DEF Links
<1>2. q \in Client /\ S \subseteq Chans
  BY DEF Links
<1>3. PICK N : N = mig'
  OBVIOUS
<1>4. MigOf(r, c, N)
  BY <1>1, <1>2, <1>3, MigCreates
<1> QED
  BY <1>1, <1>3, <1>4, CountFrame

\* The last lines of the count: a channel has its data.
LEMMA MigArrives ==
  ASSUME TypeInv, CountInv, NEW c \in Ids, c \notin mig, NEW ch \in Chans, NEW r,
         ch \in clients[c].waits, DataArrives(c, ch, r)
  PROVE  MigOf(r, c, mig)
<1>1. PICK cl \in Client : cl = clients[c] /\ MigOf(cl, c, mig)
  BY Known DEF CountInv
<1>2. PICK A : A = cl.waits
  OBVIOUS
<1>3. A \subseteq Chans /\ ch \in A /\ IsFiniteSet(A) /\ Cardinality(A) \in Nat
  BY <1>1, <1>2, FiniteChans DEF Client
<1>4. Cardinality(A \ {ch}) = Cardinality(A) - 1 /\ IsFiniteSet(A \ {ch})
  BY <1>3, FS_RemoveElement
<1>5. r.waits = A \ {ch} /\ r.migrated = Cardinality(r.waits)
  BY <1>1, <1>2, <1>4 DEF DataArrives, MigOf
<1>6. r.waits = {} <=> r.migrated = 0
  BY <1>4, <1>5, FS_EmptySet
<1>7. r.chan = cl.chan /\ r.kind = cl.kind
  BY <1>1 DEF DataArrives, Only, Fields
<1>8. \A x \in r.waits : r.chan[x] # "none"
  BY <1>1, <1>2, <1>5, <1>7 DEF MigOf
<1>9. cl.seamless /\ cl.during /\ cl.kind = "seamless"
  BY <1>1, <1>2, <1>3 DEF MigOf
<1>10. CASE r.migrated # 0
  <2>1. r.during = cl.during /\ r.seamless = cl.seamless
    BY <1>1, <1>10 DEF DataArrives, Only, Fields
  <2> QED
    BY <1>5, <1>6, <1>7, <1>8, <1>9, <1>10, <2>1 DEF MigOf
<1>11. CASE r.migrated = 0
  <2>1. ~r.during /\ ~r.seamless
    BY <1>11 DEF DataArrives
  <2> QED
    BY <1>5, <1>6, <1>7, <1>8, <1>9, <1>11, <2>1 DEF MigOf
<1> QED
  BY <1>10, <1>11

\* Clients are added or freed.
LEMMA CountAdmit ==
  ASSUME RccInv, CountInv, Len(clients) < Len(mode.kinds),
         NEW cls \in Seq(Client), Len(cls) = Len(clients), Admit(cls),
         \A d \in Ids : MigOf(cls[d], d, mig)
  PROVE  CountInv'
<1>1. TypeInv
  BY DEF RccInv
<1>2. PICK n : n = Len(clients) + 1
  OBVIOUS
<1>3. PICK kind \in Kinds :
            /\ Adds(cls, red_client_new(kind))
            /\ mig' = IF kind = "fresh" THEN mig ELSE mig \cup {n}
  BY <1>1, <1>2, AdmitEffect
<1>4. /\ Ids' = Ids \cup {n} /\ n \notin Ids /\ clients'[n] = red_client_new(kind)
      /\ \A d \in Ids : clients'[d] = cls[d]
  BY <1>2, <1>3 DEF Adds
<1>5. n \notin mig
  BY <1>1, <1>4 DEF TypeInv, ClientInv
<1>6. MigOf(clients'[n], n, mig')
  <2>1. PICK N : N = mig'
    OBVIOUS
  <2>2. n \in N => kind # "fresh"
    BY <1>3, <1>5, <2>1
  <2> QED
    BY <1>4, <2>1, <2>2, MigNew
<1>7. ASSUME NEW d \in Ids PROVE MigOf(clients'[d], d, mig')
  <2>1. d \in mig' <=> d \in mig
    BY <1>3, <1>4
  <2>2. MigOf(cls[d], d, mig) /\ clients'[d] = cls[d]
    BY <1>4
  <2> QED
    BY <2>1, <2>2 DEF MigOf
<1> QED
  BY <1>4, <1>6, <1>7 DEF CountInv, MigOf

\* reds_client_disconnect takes the client out of mig_target_clients.
LEMMA CountDisconnect ==
  ASSUME RccInv, CountInv, UNCHANGED mode, NEW c \in Ids, NEW then, Disconnect(c, then)
  PROVE  CountInv'
<1>1. TypeInv
  BY DEF RccInv
<1>2. PICK r \in Client : /\ Becomes(c, r) /\ RingOf(r)
                          /\ Only(r, clients[c], {"disconnecting", "listed", "pending"})
  BY <1>1, DisconnectEffect
<1>3. r.chan = clients[c].chan
  BY <1>2 DEF Only, Fields
<1>4. mig' \subseteq mig
  BY DEF Disconnect
<1> QED
  BY <1>1, <1>2, <1>3, <1>4, CountKept

\* The client loses references.
LEMMA MigUnref ==
  ASSUME TypeInv, CountInv, NEW c \in Ids, NEW n \in Nat, NEW r, r = Unref(clients[c], n)
  PROVE  MigOf(r, c, mig)
<1>1. PICK cl, M : cl \in Client /\ cl = clients[c] /\ M = mig /\ MigOf(cl, c, M)
  BY Known DEF CountInv
<1>2. Only(r, cl, {"refs", "freed"})
  BY <1>1, UnrefEffect
<1>3. r.chan = cl.chan
  BY <1>2 DEF Only, Fields
<1> QED
  BY <1>1, <1>2, <1>3, MigKept

\* The actions of the main thread.
LEMMA CountMain ==
  ASSUME RccInv, CountInv, MainLink \/ MainHandle \/ AskDisconnect \/ DestroyRcc \/ DestroyEnd
  PROVE  CountInv'
<1>1. TypeInv
  BY DEF RccInv
<1>2. CASE MainLink
  <2>1. CASE \E c \in Ids : Disconnect(c, "link")
    BY <1>2, <2>1, CountDisconnect DEF MainLink
  <2>2. CASE Admit(clients)
    <3>1. clients \in Seq(Client)
      BY <1>1 DEF TypeInv, ClientInv
    <3> QED
      BY <1>2, <2>2, <3>1, CountAdmit DEF MainLink, CountInv
  <2> QED
    BY <1>2, <2>1, <2>2 DEF MainLink
<1>3. CASE MainHandle
  <2>1. PICK m : m = Head(mq)
    OBVIOUS
  <2>2. m.client \in Ids /\ UNCHANGED mode
    BY <1>1, <1>3, <2>1, MainHandleEffect DEF MainHandle
  <2>3. CASE Disconnect(m.client, "unref")
    BY <2>2, <2>3, CountDisconnect
  <2>4. CASE /\ UNCHANGED <<main, mig>>
             /\ \E q \in Client : \E r :
                   /\ Only(q, clients[m.client], {"completed"}) /\ RingOf(q)
                   /\ r = Unref(q, 1) /\ Becomes(m.client, r)
    <3>1. PICK q, r : /\ q \in Client /\ Only(q, clients[m.client], {"completed"}) /\ RingOf(q)
                      /\ r = Unref(q, 1) /\ Becomes(m.client, r)
      BY <2>4
    <3>2. r \in Client /\ Only(r, q, {"refs", "freed"})
      BY <3>1, UnrefEffect
    <3>3. RingOf(r)
      BY <3>1, <3>2, RingKept
    <3>4. Only(r, clients[m.client], {"refs", "freed", "completed"})
      BY <3>1, <3>2 DEF Only, Fields
    <3>5. r.chan = clients[m.client].chan
      BY <3>4 DEF Only, Fields
    <3>6. mig' \subseteq mig
      BY <2>4
    <3> QED
      BY <1>1, <2>2, <3>1, <3>2, <3>3, <3>4, <3>5, <3>6, CountKept
  <2> QED
    BY <1>1, <1>3, <2>1, <2>3, <2>4, MainHandleEffect
<1>4. CASE AskDisconnect
  BY <1>4 DEF AskDisconnect, CountInv, MigOf, Ids
<1>5. CASE DestroyRcc
  <2>1. main.client \in Ids /\ Victim \in Chans
    BY <1>1, <1>5, BusyMain DEF DestroyRcc
  <2>2. PICK r \in Client :
            /\ Becomes(main.client, r) /\ RingOf(r)
            /\ Only(r, clients[main.client], {"chan", "ring"})
            /\ \A x \in Chans : r.chan[x] = IF x = Victim THEN "gone"
                                            ELSE clients[main.client].chan[x]
    BY <1>1, <1>5, DestroyRccEffect
  <2>3. \A x \in Chans : r.chan[x] = "none" => clients[main.client].chan[x] = "none"
    BY <2>2
  <2>4. mig' \subseteq mig /\ UNCHANGED mode
    BY <1>5 DEF DestroyRcc
  <2> QED
    BY <1>1, <2>1, <2>2, <2>3, <2>4, CountKept
<1>6. CASE DestroyEnd
  <2>1. PICK c \in Ids : c = main.client
    BY <1>1, <1>6, BusyMain DEF DestroyEnd
  <2>2. CASE clients' = [clients EXCEPT ![main.client] = Unref(@, 2)] /\ UNCHANGED mig
    <3>1. PICK cls : cls = clients' /\ Releases(cls, 2)
      BY <2>2 DEF Releases
    <3>2. PICK r \in Client : /\ cls = [clients EXCEPT ![c] = r] /\ RingOf(r)
                              /\ r = Unref(clients[c], 2)
      BY <1>1, <1>6, <2>1, <3>1, Released DEF DestroyEnd
    <3>3. Becomes(c, r) /\ mig' \subseteq mig /\ MigOf(r, c, mig')
      BY <1>1, <2>2, <3>1, <3>2, MigUnref DEF Becomes
    <3> QED
      BY <1>1, <1>6, <3>2, <3>3, CountFrame DEF DestroyEnd
  <2>3. CASE main.then = "link" /\ Admit([clients EXCEPT ![main.client] = Unref(@, 1)])
    <3>1. PICK cls : Releases(cls, 1) /\ Admit(cls)
      BY <2>3 DEF Releases
    <3>2. /\ cls \in Seq(Client) /\ Len(cls) = Len(clients)
      BY <1>1, <1>6, <3>1, Released DEF DestroyEnd
    <3>3. \A d \in Ids \ {c} : cls[d] = clients[d]
      BY <1>1, <1>6, <2>1, <3>1, Released DEF DestroyEnd
    <3>4. cls[c] = Unref(clients[c], 1)
      BY <1>1, <1>6, <2>1, <3>1, Released DEF DestroyEnd
    <3>5. \A d \in Ids : MigOf(cls[d], d, mig)
      BY <1>1, <3>3, <3>4, MigUnref DEF CountInv
    <3>6. Len(clients) < Len(mode.kinds)
      BY <1>1, <1>6, <2>3 DEF DestroyEnd, TypeInv, ThreadInv, Busy
    <3> QED
      BY <3>1, <3>2, <3>5, <3>6, CountAdmit
  <2> QED
    BY <1>6, <2>2, <2>3 DEF DestroyEnd
<1> QED
  BY <1>2, <1>3, <1>4, <1>5, <1>6

\* The steps of a migration on the main channel.
LEMMA CountClient ==
  ASSUME RccInv, CountInv, NEW c \in Ids, DstDoSeamless(c) \/ MigrateEnd(c) \/ Migrate(c)
  PROVE  CountInv'
<1>1. TypeInv /\ UNCHANGED mode
  BY DEF RccInv, DstDoSeamless, MigrateEnd, Migrate
<1>2. PICK cl \in Client : cl = clients[c] /\ RingOf(cl) /\ MigOf(cl, c, mig)
  BY <1>1, Known DEF CountInv
<1>3. Main \in Chans /\ Main \in NeedData /\ NeedData \subseteq Chans
  BY ClientAssumption DEF Chans
<1>4. CASE DstDoSeamless(c)
  <2>1. c \in mig /\ cl.kind = "seamless" /\ cl.chan[Main] = "on" /\ cl.during
    BY <1>2, <1>4 DEF DstDoSeamless, MigOf
  <2>2. PICK W : W = ToSet(clients[c].ring) \cap NeedData
    OBVIOUS
  <2>3. CASE /\ \E q : /\ Only(q, clients[c], {"pending", "seamless", "waits", "migrated"})
                       /\ q.pending = <<>> /\ q.seamless /\ q.waits = W
                       /\ q.migrated = clients[c].migrated + Cardinality(W)
                       /\ Links(c, q, ToSet(clients[c].pending) \ Remote)
             /\ mig' = mig \ {c}
    <3>1. PICK q : /\ Only(q, cl, {"pending", "seamless", "waits", "migrated"})
                   /\ q.seamless /\ q.waits = W /\ q.migrated = cl.migrated + Cardinality(W)
                   /\ Links(c, q, ToSet(cl.pending) \ Remote)
      BY <1>2, <2>3
    <3>2. cl.waits = {} /\ cl.migrated = 0
      BY <1>2, <2>1, FS_EmptySet DEF MigOf
    <3>3. W \subseteq Chans /\ Main \in W /\ \A ch \in W : cl.chan[ch] # "none"
      <4>1. ToSet(cl.ring) = {ch \in Chans : cl.chan[ch] \in {"on", "off"}}
        BY <1>2 DEF RingOf
      <4>2. Main \in ToSet(cl.ring)
        BY <1>3, <2>1, <4>1
      <4> QED
        BY <1>2, <1>3, <2>2, <4>1, <4>2
    <3>4. Cardinality(W) \in Nat
      BY <3>3, FiniteChans
    <3>5. q.migrated = Cardinality(q.waits)
      BY <3>1, <3>2, <3>4
    <3>6. q.chan = cl.chan /\ q.kind = cl.kind
      BY <3>1 DEF Only, Fields
    <3>7. q.during = cl.during
      BY <3>1 DEF Only, Fields
    <3>8. q.waits # {} /\ \A ch \in q.waits : q.chan[ch] # "none"
      BY <3>1, <3>3, <3>6
    <3>9. c \notin mig' /\ mig' \subseteq mig
      BY <2>3
    <3>10. MigOf(q, c, mig')
      BY <2>1, <3>1, <3>5, <3>6, <3>7, <3>8, <3>9 DEF MigOf
    <3> QED
      BY <1>1, <3>1, <3>9, <3>10, CountLinks
  <2>4. CASE /\ \E r \in Client : /\ Becomes(c, r) /\ RingOf(r)
                                  /\ Only(r, clients[c], {"kind"}) /\ r.kind = "semi"
             /\ UNCHANGED <<wq, mig>>
    <3>1. PICK r \in Client : /\ Becomes(c, r) /\ RingOf(r)
                              /\ Only(r, cl, {"kind"}) /\ r.kind = "semi"
      BY <1>2, <2>4
    <3>2. r.migrated = cl.migrated /\ r.waits = cl.waits /\ r.chan = cl.chan
      BY <3>1 DEF Only, Fields
    <3>3. r.seamless = cl.seamless /\ r.during = cl.during
      BY <3>1 DEF Only, Fields
    <3>4. MigOf(r, c, mig')
      BY <1>2, <2>1, <2>4, <3>1, <3>2, <3>3 DEF MigOf
    <3>5. mig' \subseteq mig
      BY <2>4
    <3> QED
      BY <1>1, <3>1, <3>4, <3>5, CountFrame
  <2> QED
    BY <1>1, <1>4, <2>2, <2>3, <2>4, DstDoSeamlessEffect
<1>5. CASE MigrateEnd(c)
  <2>1. cl.kind = "semi"
    BY <1>2, <1>5 DEF MigrateEnd
  <2>2. PICK q : /\ Only(q, cl, {"pending", "during"}) /\ ~q.during
                 /\ Links(c, q, ToSet(cl.pending) \ Remote)
    BY <1>1, <1>2, <1>5, MigrateEndEffect
  <2>3. mig' = mig \ {c}
    BY <1>1, <1>5, MigrateEndEffect
  <2>4. /\ q.migrated = cl.migrated /\ q.waits = cl.waits /\ q.chan = cl.chan /\ q.kind = cl.kind
    BY <2>2 DEF Only, Fields
  <2>5. q.seamless = cl.seamless
    BY <2>2 DEF Only, Fields
  <2>6. c \notin mig' /\ mig' \subseteq mig
    BY <2>3
  <2>7. MigOf(q, c, mig')
    BY <1>2, <2>1, <2>2, <2>4, <2>5, <2>6 DEF MigOf
  <2> QED
    BY <1>1, <2>2, <2>6, <2>7, CountLinks
<1>6. CASE Migrate(c)
  <2>1. PICK r \in Client : Becomes(c, r) /\ RingOf(r) /\ Only(r, clients[c], {"left"})
    BY <1>1, <1>6, MigrateEffect
  <2>2. r.chan = clients[c].chan
    BY <2>1 DEF Only, Fields
  <2>3. mig' \subseteq mig
    BY <1>6 DEF Migrate
  <2> QED
    BY <1>1, <2>1, <2>2, <2>3, CountKept
<1> QED
  BY <1>4, <1>5, <1>6

\* A connection is lost: the count stays, even if the channel waited.
LEMMA CountDrop ==
  ASSUME RccInv, CountInv, NEW c \in Ids, NEW q \in Client, RingOf(q),
         Only(q, clients[c], {"sent", "unexpected"}),
         NEW ch \in Chans, clients[c].chan[ch] = "on", Drop(c, q, ch), UNCHANGED <<mode, mig>>
  PROVE  CountInv'
<1>1. TypeInv
  BY DEF RccInv
<1>2. q.chan = clients[c].chan
  BY DEF Only, Fields
<1>3. PICK r \in Client :
            /\ Becomes(c, r) /\ RingOf(r) /\ Only(r, q, {"chan", "refs"})
            /\ \A x \in Chans : r.chan[x] = IF x = ch THEN "off" ELSE q.chan[x]
  BY <1>1, <1>2, DropEffect
<1>4. Only(r, clients[c], {"sent", "unexpected", "chan", "refs"})
  BY <1>3 DEF Only, Fields
<1>5. \A x \in Chans : r.chan[x] = "none" => clients[c].chan[x] = "none"
  BY <1>2, <1>3
<1>6. mig' \subseteq mig
  OBVIOUS
<1> QED
  BY <1>1, <1>3, <1>4, <1>5, <1>6, CountKept

\* The actions on one channel: the data takes the channel out of those that wait, and
\* the last one ends the migration.
LEMMA CountChannel ==
  ASSUME RccInv, CountInv, NEW c \in Ids, NEW ch \in Chans,
         \/ ch \in mode.chans /\ (OtherLink(c, ch) \/ Latency(c, ch))
         \/ MigrateData(c, ch) \/ Lose(c, ch)
  PROVE  CountInv'
<1>1. TypeInv /\ UNCHANGED <<mode, mig>>
  BY DEF RccInv, OtherLink, Latency, MigrateData, Lose
<1>2. mig' \subseteq mig
  BY <1>1
<1>3. PICK cl, M : cl \in Client /\ cl = clients[c] /\ RingOf(cl) /\ M = mig /\ MigOf(cl, c, M)
  BY <1>1, Known DEF CountInv
<1>4. CASE ch \in mode.chans /\ OtherLink(c, ch)
  <2>1. PICK q, S : Only(q, cl, {"links", "pending"}) /\ Links(c, q, S)
    BY <1>1, <1>3, <1>4, OtherLinkEffect
  <2>2. q.chan = cl.chan
    BY <2>1 DEF Only, Fields
  <2>3. MigOf(q, c, M)
    BY <1>3, <2>1, <2>2, MigKept
  <2> QED
    BY <1>1, <1>2, <1>3, <2>1, <2>3, CountLinks
<1>5. CASE Latency(c, ch)
  BY <1>5 DEF Latency, CountInv, MigOf, Ids
<1>6. CASE MigrateData(c, ch)
  <2>1. c \notin mig /\ clients[c].chan[ch] = "on"
    BY <1>6 DEF MigrateData
  <2>2. CASE ch \in clients[c].waits /\ \E r : Becomes(c, r) /\ DataArrives(c, ch, r)
    <3>1. PICK r : Becomes(c, r) /\ DataArrives(c, ch, r)
      BY <2>2
    <3>2. r \in Client /\ RingOf(r)
      BY <3>1 DEF DataArrives
    <3>3. MigOf(r, c, mig)
      BY <1>1, <2>1, <2>2, <3>1, MigArrives
    <3> QED
      BY <1>1, <1>2, <3>1, <3>2, <3>3, CountFrame
  <2>3. CASE \E q \in Client : /\ RingOf(q) /\ Only(q, clients[c], {"sent", "unexpected"})
                               /\ Drop(c, q, ch)
    BY <1>1, <2>1, <2>3, CountDrop
  <2> QED
    BY <1>1, <1>6, <2>2, <2>3, MigrateDataEffect
<1>7. CASE Lose(c, ch)
  <2>1. Only(clients[c], clients[c], {"sent", "unexpected"})
    BY DEF Only
  <2> QED
    BY <1>1, <1>3, <1>7, <2>1, CountDrop DEF Lose
<1> QED
  BY <1>4, <1>5, <1>6, <1>7

\* The actions of a worker.
LEMMA CountWorker ==
  ASSUME RccInv, CountInv, NEW w \in Workers, WorkerRef(w) \/ WorkerPost(w) \/ WorkerHandle(w)
  PROVE  CountInv'
<1>1. TypeInv /\ UNCHANGED <<mode, mig>>
  BY DEF RccInv, WorkerRef, WorkerPost, WorkerHandle
<1>2. mig' \subseteq mig
  BY <1>1
<1>3. CASE WorkerRef(w)
  <2>1. PICK c \in Ids : c = worker[w].client
    BY <1>1, <1>3, IdleWorker DEF WorkerRef
  <2>2. PICK r \in Client : Becomes(c, r) /\ RingOf(r) /\ Only(r, clients[c], {"refs"})
    BY <1>1, <1>3, <2>1, WorkerRefEffect
  <2>3. r.chan = clients[c].chan
    BY <2>2 DEF Only, Fields
  <2> QED
    BY <1>1, <1>2, <2>2, <2>3, CountKept
<1>4. CASE WorkerPost(w)
  BY <1>4 DEF WorkerPost, CountInv, MigOf, Ids
<1>5. CASE WorkerHandle(w)
  <2>1. wq[w] # <<>> /\ wq' = [wq EXCEPT ![w] = Tail(@)] /\ Handle(w, Head(wq[w]))
    BY <1>5 DEF WorkerHandle
  <2>2. PICK m \in Requests : /\ m = Head(wq[w]) /\ m = wq[w][1] /\ m.client \in Ids
                              /\ m.chan \in Remote /\ m.chan \in Chans /\ 1 \in DOMAIN wq[w]
    BY <2>1, WorkerHead
  <2>3. CASE m.type = "connect"
    <3>1. Becomes(m.client, Create(clients[m.client], <<m.chan>>))
      BY <2>1, <2>2, <2>3 DEF Handle, Becomes
    <3>2. Links(m.client, clients[m.client], {m.chan})
      BY <1>1, <2>2, <3>1, ConnectEffect
    <3>3. MigOf(clients[m.client], m.client, mig)
      BY <2>2 DEF CountInv
    <3> QED
      BY <1>1, <1>2, <2>2, <3>2, <3>3, CountLinks
  <2>4. CASE m.type = "migrate"
    <3>1. UNCHANGED clients
      BY <2>1, <2>2, <2>4 DEF Handle
    <3> QED
      BY <1>1, <3>1 DEF CountInv, MigOf, Ids
  <2>5. CASE m.type = "disconnect"
    <3>1. clients' = [clients EXCEPT ![m.client].chan[m.chan] = "off"]
      BY <2>1, <2>2, <2>5 DEF Handle
    <3>2. Alive(m.client, m.chan)
      BY <2>2, <2>5 DEF RccInv, AliveInv
    <3>3. PICK r \in Client : /\ Becomes(m.client, r) /\ RingOf(r)
                              /\ Only(r, clients[m.client], {"chan"})
                              /\ \A x \in Chans : r.chan[x] = IF x = m.chan THEN "off"
                                                              ELSE clients[m.client].chan[x]
      BY <1>1, <2>2, <3>1, <3>2, DisconnectedEffect, ZenonT(30)
    <3>4. \A x \in Chans : r.chan[x] = "none" => clients[m.client].chan[x] = "none"
      BY <3>3
    <3> QED
      BY <1>1, <1>2, <2>2, <3>3, <3>4, CountKept
  <2> QED
    BY <2>2, <2>3, <2>4, <2>5 DEF Requests
<1> QED
  BY <1>3, <1>4, <1>5

\* The count of a migration is inductive.
LEMMA CountNext == RccInv /\ CountInv /\ [Next]_vars => CountInv'
<1> SUFFICES ASSUME RccInv, CountInv, [Next]_vars PROVE CountInv'
  OBVIOUS
<1>1. {Main} \cup mode.chans \subseteq Chans
  BY ChansOf DEF RccInv
<1>2. CASE MainLink \/ MainHandle \/ AskDisconnect \/ DestroyRcc \/ DestroyEnd
  BY <1>2, CountMain
<1>3. CASE \E c \in Ids : DstDoSeamless(c) \/ MigrateEnd(c) \/ Migrate(c)
  BY <1>3, CountClient
<1>4. CASE \E c \in Ids : \E ch \in mode.chans : OtherLink(c, ch) \/ Latency(c, ch)
  <2>1. PICK c \in Ids, ch \in Chans : ch \in mode.chans /\ (OtherLink(c, ch) \/ Latency(c, ch))
    BY <1>1, <1>4
  <2> QED
    BY <2>1, CountChannel
<1>5. CASE \E c \in Ids : \E ch \in {Main} \cup mode.chans : MigrateData(c, ch) \/ Lose(c, ch)
  <2>1. PICK c \in Ids, ch \in Chans : MigrateData(c, ch) \/ Lose(c, ch)
    BY <1>1, <1>5
  <2> QED
    BY <2>1, CountChannel
<1>6. CASE \E w \in Workers : WorkerRef(w) \/ WorkerPost(w) \/ WorkerHandle(w)
  BY <1>6, CountWorker
<1>7. CASE UNCHANGED vars
  BY <1>7 DEF vars, CountInv, MigOf, Ids
<1> QED
  BY <1>2, <1>3, <1>4, <1>5, <1>6, <1>7 DEF Next

-----------------------------------------------------------------------------
(* The completions of a migration. *)

\* A worker goes on to p: what that makes of the workers with a property P of what they do,
\* where P is given as the set of such posts.
LEMMA WorkersWith ==
  ASSUME TypeInv, NEW w \in Workers, NEW p \in {Idle} \cup Posting, Posts(w, p),
         NEW P, Idle \notin P
  PROVE  LET A == {v \in Workers : worker[v] \in P}
             B == {v \in Workers : worker'[v] \in P}
         IN  /\ Cardinality(A) \in Nat /\ Cardinality(B) \in Nat
             /\ Cardinality(B) = Cardinality(A) - One(worker[w] \in P) + One(p \in P)
<1> DEFINE A == {v \in Workers : worker[v] \in P}
           B == {v \in Workers : worker'[v] \in P}
           C == A \ {w}
<1>1. worker'[w] = p /\ \A v \in Workers \ {w} : worker'[v] = worker[v]
  BY PostsEffect
<1>2. IsFiniteSet(A) /\ IsFiniteSet(B) /\ IsFiniteSet(C)
  BY FiniteChans, FS_Subset
<1>3. Cardinality(A) \in Nat /\ Cardinality(B) \in Nat /\ Cardinality(C) \in Nat
  BY <1>2, FS_CardinalityType
<1>4. w \notin C
  OBVIOUS
<1>5. B = IF p \in P THEN C \cup {w} ELSE C
  BY <1>1
<1>6. A = IF worker[w] \in P THEN C \cup {w} ELSE C
  OBVIOUS
<1>7. Cardinality(C \cup {w}) = Cardinality(C) + 1
  BY <1>2, <1>4, FS_AddElement
<1>8. Cardinality(B) = Cardinality(C) + One(p \in P)
  <2>1. CASE p \in P
    BY <1>3, <1>5, <1>7, <2>1 DEF One
  <2>2. CASE p \notin P
    BY <1>3, <1>5, <2>2 DEF One
  <2> QED
    BY <2>1, <2>2
<1>9. Cardinality(A) = Cardinality(C) + One(worker[w] \in P)
  BY <1>3, <1>6, <1>7 DEF One
<1>10. One(p \in P) \in Nat /\ One(worker[w] \in P) \in Nat
  BY DEF One
<1> QED
  BY <1>3, <1>8, <1>9, <1>10

\* The posts of a completion of client c.
Ends(c) == {p \in Posting : p.client = c /\ p.type = "complete"}

\* The workers that are about to post a completion for c, by what they are in the middle of.
LEMMA CompletingEnds ==
  ASSUME TypeInv, NEW c \in Ids
  PROVE  /\ Completing(c) = {w \in Workers : worker[w] \in Ends(c)} /\ Idle \notin Ends(c)
         /\ Cardinality(Completing(c)) \in Nat
<1>1. Idle \notin Ends(c)
  BY DEF Idle, Ends, Posting
<1>2. \A w \in Workers : worker[w] # Idle => worker[w] \in Posting
  BY IdleWorker
<1>3. Completing(c) = {w \in Workers : worker[w] \in Ends(c)}
  BY <1>1, <1>2 DEF Completing, Ends
<1>4. IsFiniteSet(Completing(c))
  BY FiniteChans, FS_Subset DEF Completing
<1> QED
  BY <1>1, <1>3, <1>4, FS_CardinalityType

\* What is under way, as the threads and queues move.
LEMMA UnderwayType ==
  ASSUME TypeInv, NEW c \in Ids
  PROVE  /\ Underway(c) \in Nat /\ Count(mq, For(c, "complete")) \in Nat
         /\ Cardinality(Completing(c)) \in Nat
         /\ Underway(c) = Count(mq, For(c, "complete")) + Cardinality(Completing(c))
<1>1. Count(mq, For(c, "complete")) \in Nat
  BY CountType DEF TypeInv, QueueInv
<1> QED
  BY <1>1, CompletingEnds DEF Underway

\* How the number of workers that post a completion changes with one worker.
LEMMA UnderwayWorker ==
  ASSUME TypeInv, TypeInv', NEW c \in Ids, Ids' = Ids, NEW w \in Workers,
         NEW p \in {Idle} \cup Posting, Posts(w, p)
  PROVE  Cardinality(Completing(c))' = Cardinality(Completing(c))
                - One(worker[w] \in Ends(c)) + One(p \in Ends(c))
<1>1. PICK P : P = Ends(c)
  OBVIOUS
<1>2. Completing(c) = {v \in Workers : worker[v] \in P} /\ Idle \notin P
  BY <1>1, CompletingEnds
<1>3. Completing(c)' = {v \in Workers : worker'[v] \in P}
  <2>1. \A v \in Workers : worker'[v] \in {Idle} \cup Posting
    BY DEF TypeInv, ThreadInv
  <2> QED
    BY <1>1, <1>2, <2>1 DEF Completing, Ends
<1>4. Cardinality({v \in Workers : worker'[v] \in P}) =
         Cardinality({v \in Workers : worker[v] \in P}) - One(worker[w] \in P) + One(p \in P)
  BY <1>2, WorkersWith
<1> QED
  BY <1>1, <1>2, <1>3, <1>4

\* A step that neither begins nor ends a completion.
LEMMA UnderwayKept ==
  ASSUME TypeInv, TypeInv', NEW c \in Ids, Ids' = Ids,
         \/ UNCHANGED worker
         \/ \E w \in Workers, p \in Posting :
               Posts(w, p) /\ (worker[w] \in Ends(c) <=> p \in Ends(c)),
         \/ UNCHANGED mq
         \/ \E m \in Reports : mq' = Append(mq, m) /\ m.type # "complete"
  PROVE  Underway(c)' = Underway(c)
<1>1. Cardinality(Completing(c))' = Cardinality(Completing(c))
  <2>1. CASE UNCHANGED worker
    BY <2>1 DEF Completing
  <2>2. CASE \E w \in Workers, p \in Posting : Posts(w, p) /\ (worker[w] \in Ends(c) <=> p \in Ends(c))
    <3>1. PICK w \in Workers, p \in Posting : Posts(w, p) /\ (worker[w] \in Ends(c) <=> p \in Ends(c))
      BY <2>2
    <3>2. Cardinality(Completing(c))' = Cardinality(Completing(c))
                - One(worker[w] \in Ends(c)) + One(p \in Ends(c))
      BY <3>1, UnderwayWorker
    <3>3. PICK k \in Nat : k = One(worker[w] \in Ends(c)) /\ k = One(p \in Ends(c))
      BY <3>1 DEF One
    <3> QED
      BY <3>2, <3>3, UnderwayType
  <2> QED
    BY <2>1, <2>2
<1>2. Count(mq, For(c, "complete"))' = Count(mq, For(c, "complete"))
  <2>1. CASE UNCHANGED mq
    BY <2>1 DEF For
  <2>2. CASE \E m \in Reports : mq' = Append(mq, m) /\ m.type # "complete"
    <3>1. PICK m \in Reports : mq' = Append(mq, m) /\ m.type # "complete"
      BY <2>2
    <3>2. PICK s, S : s \in Seq(Reports) /\ S = For(c, "complete") /\ s = mq
      BY DEF TypeInv, QueueInv
    <3>3. Count(Append(s, m), S) = Count(s, S) + One(m \in S)
      BY <3>2, CountQueue
    <3>4. One(m \in S) = 0
      BY <3>1, <3>2 DEF One, For
    <3>5. Count(s, S) \in Nat
      BY <3>2, UnderwayType
    <3>6. Count(mq', S) = Count(mq, S)
      BY <3>1, <3>2, <3>3, <3>4, <3>5
    <3> QED
      BY <3>2, <3>6 DEF For
  <2> QED
    BY <2>1, <2>2
<1> QED
  BY <1>1, <1>2 DEF Underway

\* A worker posts a completion: it moves from the worker to the queue.
LEMMA UnderwayPosted ==
  ASSUME TypeInv, TypeInv', NEW c \in Ids, Ids' = Ids, NEW w \in Workers, WorkerPost(w)
  PROVE  Underway(c)' = Underway(c)
<1>1. PICK m \in Reports : /\ m.type = worker[w].type /\ m.client = worker[w].client
                           /\ mq' = Append(mq, m)
  BY WorkerPostEffect
<1>2. Posts(w, Idle) /\ worker[w] \in Posting
  BY WorkerPostEffect, IdleWorker DEF WorkerPost
<1>3. PICK s, S : s \in Seq(Reports) /\ S = For(c, "complete") /\ s = mq
  BY DEF TypeInv, QueueInv
<1>4. Count(Append(s, m), S) = Count(s, S) + One(m \in S)
  BY <1>3, CountQueue
<1>5. m \in S <=> worker[w] \in Ends(c)
  BY <1>1, <1>2, <1>3 DEF For, Ends
<1>6. Idle \notin Ends(c)
  BY CompletingEnds
<1>7. Cardinality(Completing(c))' = Cardinality(Completing(c))
                - One(worker[w] \in Ends(c)) + One(Idle \in Ends(c))
  BY <1>2, UnderwayWorker
<1>8. PICK k \in Nat : k = One(m \in S) /\ k = One(worker[w] \in Ends(c)) /\ One(Idle \in Ends(c)) = 0
  BY <1>5, <1>6 DEF One
<1>9. Count(mq, For(c, "complete"))' = Count(mq, For(c, "complete")) + k
  <2>1. Count(mq', S) = Count(mq, S) + k
    BY <1>1, <1>3, <1>4, <1>8
  <2> QED
    BY <1>3, <2>1 DEF For
<1>10. Cardinality(Completing(c))' = Cardinality(Completing(c)) - k
  BY <1>7, <1>8, UnderwayType
<1> QED
  BY <1>9, <1>10, UnderwayType DEF Underway

\* The main thread takes a message.
LEMMA UnderwayTaken ==
  ASSUME TypeInv, TypeInv', NEW c \in Ids, Ids' = Ids, mq # <<>>, mq' = Tail(mq), UNCHANGED worker
  PROVE  Underway(c)' = Underway(c) - One(Head(mq) \in For(c, "complete"))
<1>1. PICK s, S : s \in Seq(Reports) /\ S = For(c, "complete") /\ s = mq
  BY DEF TypeInv, QueueInv
<1>2. Count(Tail(s), S) = Count(s, S) - One(Head(s) \in S)
  BY <1>1, CountQueue
<1>3. Count(mq, For(c, "complete"))' = Count(mq, For(c, "complete")) - One(Head(mq) \in For(c, "complete"))
  <2>1. Count(mq', S) = Count(mq, S) - One(Head(mq) \in S)
    BY <1>1, <1>2
  <2> QED
    BY <1>1, <2>1 DEF For
<1>4. Completing(c)' = Completing(c)
  BY DEF Completing
<1>5. One(Head(mq) \in For(c, "complete")) \in Nat
  BY DEF One
<1> QED
  BY <1>3, <1>4, <1>5, UnderwayType DEF Underway

\* One client changes so that its completions stay within the limit, and no other has more.
LEMMA CompleteFrame ==
  ASSUME TypeInv, CompleteInv, UNCHANGED mode, mig' \subseteq mig,
         NEW c \in Ids, NEW r \in Client, Becomes(c, r), RingOf(r),
         \A d \in Ids \ {c} : Underway(d)' = Underway(d),
         r.completed + Underway(c)' <= Limit(r)
  PROVE  CompleteInv'
<1>1. /\ Ids' = Ids /\ clients'[c] = r /\ \A d \in Ids \ {c} : clients'[d] = clients[d]
  BY ClientsFrame
<1>2. ASSUME NEW d \in Ids PROVE clients'[d].completed + Underway(d)' <= Limit(clients'[d])
  <2>1. CASE d # c
    <3>1. clients[d].completed + Underway(d) <= Limit(clients[d])
      BY DEF CompleteInv
    <3> QED
      BY <1>1, <2>1, <3>1
  <2>2. CASE d = c
    BY <1>1, <2>2
  <2> QED
    BY <2>1, <2>2
<1> QED
  BY <1>1, <1>2 DEF CompleteInv, Limit

\* CompleteInv is kept when a client changes in nothing it is about.
LEMMA CompleteKept ==
  ASSUME TypeInv, CompleteInv, UNCHANGED mode, mig' \subseteq mig,
         NEW c \in Ids, NEW r \in Client, Becomes(c, r), RingOf(r),
         NEW F, Only(r, clients[c], F), F \cap {"kind", "during", "completed"} = {},
         \A d \in Ids : Underway(d)' = Underway(d)
  PROVE  CompleteInv'
<1>1. r.kind = clients[c].kind /\ r.completed = clients[c].completed
  BY DEF Only, Fields
<1>2. r.during = clients[c].during
  BY DEF Only, Fields
<1>3. clients[c].completed + Underway(c) <= Limit(clients[c])
  BY DEF CompleteInv
<1>4. r.completed + Underway(c)' <= Limit(r)
  BY <1>1, <1>2, <1>3 DEF Limit
<1> QED
  BY <1>4, CompleteFrame

\* The same for an rcc that is created, with the kind and the phase of q.
LEMMA CompleteLinks ==
  ASSUME TypeInv, CompleteInv, UNCHANGED mode, mig' \subseteq mig,
         NEW c \in Ids, NEW q, NEW S, Links(c, q, S),
         \A d \in Ids : Underway(d)' = Underway(d),
         q.completed = clients[c].completed, Limit(clients[c]) <= Limit(q)
  PROVE  CompleteInv'
<1>1. PICK r \in Client : Becomes(c, r) /\ RingOf(r) /\ Creates(r, q, S)
  BY DEF Links
<1>2. r.kind = q.kind /\ r.completed = q.completed
  BY <1>1 DEF Creates, Only, Fields
<1>3. r.during = q.during
  BY <1>1 DEF Creates, Only, Fields
<1>4. clients[c].completed + Underway(c) <= Limit(clients[c])
  BY DEF CompleteInv
<1>5. clients[c].completed \in Nat /\ Underway(c) \in Nat /\ Limit(clients[c]) \in Nat /\ Limit(q) \in Nat
  BY Known, UnderwayType DEF Client, Limit
<1>6. Limit(r) = Limit(q)
  BY <1>2, <1>3 DEF Limit
<1>7. r.completed + Underway(c)' <= Limit(r)
  BY <1>2, <1>4, <1>5, <1>6
<1> QED
  BY <1>1, <1>7, CompleteFrame

\* A step of neither the workers nor the main queue.
LEMMA UnderwaySame ==
  ASSUME UNCHANGED <<mq, worker>>
  PROVE  \A d \in Ids : Underway(d)' = Underway(d)
BY DEF Underway, Completing, For

\* Each action keeps CompleteInv.  A client that is admitted has completed nothing.
LEMMA CompleteAdmit ==
  ASSUME RccInv, CompleteInv, Len(clients) < Len(mode.kinds), UNCHANGED <<mq, worker>>,
         NEW cls \in Seq(Client), Len(cls) = Len(clients), Admit(cls),
         \A d \in Ids : cls[d].completed = clients[d].completed /\ Limit(cls[d]) = Limit(clients[d])
  PROVE  CompleteInv'
<1>1. TypeInv
  BY DEF RccInv
<1>2. PICK n : n = Len(clients) + 1
  OBVIOUS
<1>3. PICK kind \in Kinds : Adds(cls, red_client_new(kind))
  BY <1>1, AdmitEffect
<1>4. /\ Ids' = Ids \cup {n} /\ n \notin Ids /\ clients'[n] = red_client_new(kind)
      /\ \A d \in Ids : clients'[d] = cls[d]
  BY <1>2, <1>3 DEF Adds
<1>5. \A d \in Ids : clients'[d].completed + Underway(d)' <= Limit(clients'[d])
  BY <1>4, UnderwaySame DEF CompleteInv
<1>6. Underway(n)' = 0
  <2>1. Completing(n) = {}
    BY <1>1, <1>4, IdleWorker DEF Completing
  <2>2. PICK S : S = For(n, "complete")
    OBVIOUS
  <2>3. {i \in DOMAIN mq : mq[i] \in S} = {}
    BY <1>1, <1>4, <2>2 DEF TypeInv, QueueInv, For
  <2>4. Underway(n) = 0
    <3>1. Count(mq, S) = 0
      BY <2>3, FS_EmptySet DEF Count
    <3>2. Cardinality(Completing(n)) = 0
      BY <2>1, FS_EmptySet
    <3> QED
      BY <2>2, <3>1, <3>2 DEF Underway
  <2>5. Underway(n)' = Underway(n)
    BY DEF Underway, Completing, For
  <2> QED
    BY <2>4, <2>5
<1>7. clients'[n].completed + Underway(n)' <= Limit(clients'[n])
  <2>1. clients'[n].completed = 0
    BY <1>4 DEF red_client_new
  <2>2. Limit(clients'[n]) >= 0
    BY DEF Limit
  <2> QED
    BY <1>6, <2>1, <2>2
<1> QED
  BY <1>4, <1>5, <1>7 DEF CompleteInv, Limit

\* reds_client_disconnect.
LEMMA CompleteDisconnect ==
  ASSUME RccInv, CompleteInv, UNCHANGED mode, NEW c \in Ids, NEW then, Disconnect(c, then),
         \A d \in Ids : Underway(d)' = Underway(d)
  PROVE  CompleteInv'
<1>1. TypeInv
  BY DEF RccInv
<1>2. PICK r \in Client : /\ Becomes(c, r) /\ RingOf(r)
                          /\ Only(r, clients[c], {"disconnecting", "listed", "pending"})
  BY <1>1, DisconnectEffect
<1>3. mig' \subseteq mig
  BY DEF Disconnect
<1> QED
  BY <1>1, <1>2, <1>3, CompleteKept

\* The actions of the main thread: a completion leaves the queue when it is handled.
LEMMA CompleteMain ==
  ASSUME RccInv, RccInv', CompleteInv,
         MainLink \/ MainHandle \/ AskDisconnect \/ DestroyRcc \/ DestroyEnd
  PROVE  CompleteInv'
<1>1. TypeInv /\ TypeInv'
  BY DEF RccInv
<1>2. CASE MainLink
  <2>1. CASE \E c \in Ids : Disconnect(c, "link")
    BY <1>2, <2>1, UnderwaySame, CompleteDisconnect DEF MainLink
  <2>2. CASE Admit(clients)
    <3>1. clients \in Seq(Client)
      BY <1>1 DEF TypeInv, ClientInv
    <3> QED
      BY <1>2, <2>2, <3>1, CompleteAdmit DEF MainLink
  <2> QED
    BY <1>2, <2>1, <2>2 DEF MainLink
<1>3. CASE MainHandle
  <2>1. PICK m : m = Head(mq)
    OBVIOUS
  <2>2. /\ m.client \in Ids /\ m \in Reports /\ UNCHANGED <<mode, worker>> /\ mq # <<>>
        /\ mq' = Tail(mq)
    BY <1>1, <1>3, <2>1, MainHandleEffect DEF MainHandle
  <2>3. Ids' = Ids => \A d \in Ids : Underway(d)' = Underway(d) - One(m \in For(d, "complete"))
    BY <1>1, <2>1, <2>2, UnderwayTaken
  <2>4. \A d \in Ids : Underway(d) \in Nat
    BY <1>1, UnderwayType
  <2>5. CASE m.type = "disconnect" /\ Disconnect(m.client, "unref")
    <3>1. PICK r \in Client : Becomes(m.client, r) /\ RingOf(r)
      BY <1>1, <2>2, <2>5, DisconnectEffect
    <3>2. mig' \subseteq mig
      BY <2>5 DEF Disconnect
    <3>3. Ids' = Ids
      BY <1>1, <2>2, <3>1, <3>2, ClientsFrame
    <3>4. \A d \in Ids : One(m \in For(d, "complete")) = 0
      BY <2>5 DEF One, For
    <3>5. \A d \in Ids : Underway(d)' = Underway(d)
      BY <2>3, <2>4, <3>3, <3>4
    <3> QED
      BY <2>2, <2>5, <3>5, CompleteDisconnect
  <2>6. CASE /\ UNCHANGED <<main, mig>>
             /\ \E q \in Client : \E r :
                   /\ Only(q, clients[m.client], {"completed"}) /\ RingOf(q)
                   /\ q.completed = clients[m.client].completed
                         + One(m.type = "complete" /\ clients[m.client].listed)
                   /\ r = Unref(q, 1) /\ Becomes(m.client, r)
    <3>1. PICK q, r :
                   /\ q \in Client /\ Only(q, clients[m.client], {"completed"}) /\ RingOf(q)
                   /\ q.completed = clients[m.client].completed
                         + One(m.type = "complete" /\ clients[m.client].listed)
                   /\ r = Unref(q, 1) /\ Becomes(m.client, r)
      BY <2>6
    <3>2. r \in Client /\ Only(r, q, {"refs", "freed"})
      BY <3>1, UnrefEffect
    <3>3. RingOf(r)
      BY <3>1, <3>2, RingKept
    <3>4. mig' \subseteq mig
      BY <2>6
    <3>5. Ids' = Ids
      BY <1>1, <2>2, <3>1, <3>2, <3>3, <3>4, ClientsFrame
    <3>6. \A d \in Ids \ {m.client} : One(m \in For(d, "complete")) = 0
      BY DEF One, For
    <3>7. \A d \in Ids \ {m.client} : Underway(d)' = Underway(d)
      BY <2>3, <2>4, <3>5, <3>6
    <3>8. r.completed = q.completed /\ r.kind = clients[m.client].kind
      BY <3>1, <3>2 DEF Only, Fields
    <3>9. r.during = clients[m.client].during
      BY <3>1, <3>2 DEF Only, Fields
    <3>10. PICK j \in Nat, k \in Nat :
              /\ j = One(m.type = "complete" /\ clients[m.client].listed)
              /\ k = One(m \in For(m.client, "complete")) /\ j <= k
      BY <2>2 DEF One, For
    <3>11. Underway(m.client)' = Underway(m.client) - k
      BY <2>2, <2>3, <3>5, <3>10
    <3>12. clients[m.client].completed + Underway(m.client) <= Limit(clients[m.client])
      BY <2>2 DEF CompleteInv
    <3>13. clients[m.client].completed \in Nat /\ Limit(r) = Limit(clients[m.client])
           /\ Limit(r) \in Nat
      BY <1>1, <2>2, <3>8, <3>9, Known DEF Client, Limit
    <3>14. r.completed + Underway(m.client)' <= Limit(r)
      BY <2>2, <2>4, <3>1, <3>8, <3>10, <3>11, <3>12, <3>13
    <3> QED
      BY <1>1, <2>2, <3>1, <3>2, <3>3, <3>4, <3>7, <3>14, CompleteFrame
  <2> QED
    BY <1>1, <1>3, <2>1, <2>5, <2>6, MainHandleEffect
<1>4. CASE AskDisconnect
  BY <1>4, UnderwaySame DEF AskDisconnect, CompleteInv, Limit, Ids
<1>5. CASE DestroyRcc
  <2>1. main.client \in Ids
    BY <1>1, <1>5, BusyMain DEF DestroyRcc
  <2>2. PICK r \in Client : /\ Becomes(main.client, r) /\ RingOf(r)
                            /\ Only(r, clients[main.client], {"chan", "ring"})
    BY <1>1, <1>5, DestroyRccEffect
  <2>3. mig' \subseteq mig /\ UNCHANGED mode
    BY <1>5 DEF DestroyRcc
  <2>4. \A d \in Ids : Underway(d)' = Underway(d)
    BY <1>5, UnderwaySame DEF DestroyRcc
  <2> QED
    BY <1>1, <2>1, <2>2, <2>3, <2>4, CompleteKept
<1>6. CASE DestroyEnd
  <2>1. PICK c \in Ids : c = main.client
    BY <1>1, <1>6, BusyMain DEF DestroyEnd
  <2>2. UNCHANGED <<mode, mq, worker>> /\ main # Idle
    BY <1>6 DEF DestroyEnd
  <2>3. CASE clients' = [clients EXCEPT ![main.client] = Unref(@, 2)] /\ UNCHANGED mig
    <3>1. PICK cls : cls = clients' /\ Releases(cls, 2)
      BY <2>3 DEF Releases
    <3>2. PICK r \in Client : /\ cls = [clients EXCEPT ![c] = r] /\ RingOf(r)
                              /\ r = Unref(clients[c], 2)
      BY <1>1, <2>1, <2>2, <3>1, Released
    <3>3. Becomes(c, r) /\ mig' \subseteq mig
      BY <2>3, <3>1, <3>2 DEF Becomes
    <3>4. Only(r, clients[c], {"refs", "freed"})
      BY <1>1, <3>2, Known, UnrefEffect
    <3> QED
      BY <1>1, <2>2, <3>2, <3>3, <3>4, UnderwaySame, CompleteKept
  <2>4. CASE main.then = "link" /\ Admit([clients EXCEPT ![main.client] = Unref(@, 1)])
    <3>1. PICK cls : Releases(cls, 1) /\ Admit(cls)
      BY <2>4 DEF Releases
    <3>2. cls \in Seq(Client) /\ Len(cls) = Len(clients)
      BY <1>1, <2>2, <3>1, Released
    <3>3. \A d \in Ids \ {c} : cls[d] = clients[d]
      BY <1>1, <2>1, <2>2, <3>1, Released
    <3>4. PICK r : r = cls[c] /\ r = Unref(clients[c], 1)
      BY <1>1, <2>1, <2>2, <3>1, Released
    <3>5. Only(r, clients[c], {"refs", "freed"})
      BY <1>1, <3>4, Known, UnrefEffect
    <3>6. r.completed = clients[c].completed /\ r.kind = clients[c].kind
      BY <3>5 DEF Only, Fields
    <3>7. r.during = clients[c].during
      BY <3>5 DEF Only, Fields
    <3>8. Limit(r) = Limit(clients[c])
      BY <3>6, <3>7 DEF Limit
    <3>9. \A d \in Ids : cls[d].completed = clients[d].completed /\ Limit(cls[d]) = Limit(clients[d])
      BY <3>3, <3>4, <3>6, <3>8
    <3>10. Len(clients) < Len(mode.kinds)
      BY <1>1, <2>2, <2>4 DEF TypeInv, ThreadInv, Busy
    <3> QED
      BY <2>2, <3>1, <3>2, <3>9, <3>10, CompleteAdmit
  <2> QED
    BY <1>6, <2>3, <2>4 DEF DestroyEnd
<1> QED
  BY <1>2, <1>3, <1>4, <1>5, <1>6

\* The steps of a migration on the main channel: during stays, or the kind is not seamless.
LEMMA CompleteClient ==
  ASSUME RccInv, CountInv, CompleteInv, NEW c \in Ids,
         DstDoSeamless(c) \/ MigrateEnd(c) \/ Migrate(c)
  PROVE  CompleteInv'
<1>1. TypeInv /\ UNCHANGED <<mode, mq, worker>>
  BY DEF RccInv, DstDoSeamless, MigrateEnd, Migrate
<1>2. \A d \in Ids : Underway(d)' = Underway(d)
  BY <1>1, UnderwaySame
<1>3. PICK cl \in Client : cl = clients[c] /\ RingOf(cl) /\ MigOf(cl, c, mig)
  BY <1>1, Known DEF CountInv
<1>4. CASE DstDoSeamless(c)
  <2>1. c \in mig /\ cl.during
    BY <1>3, <1>4 DEF DstDoSeamless, MigOf
  <2>2. PICK W : W = ToSet(clients[c].ring) \cap NeedData
    OBVIOUS
  <2>3. CASE /\ \E q : /\ Only(q, clients[c], {"pending", "seamless", "waits", "migrated"})
                       /\ Links(c, q, ToSet(clients[c].pending) \ Remote)
             /\ mig' = mig \ {c}
    <3>1. PICK q : /\ Only(q, clients[c], {"pending", "seamless", "waits", "migrated"})
                   /\ Links(c, q, ToSet(clients[c].pending) \ Remote)
      BY <2>3
    <3>2. q.kind = clients[c].kind /\ q.completed = clients[c].completed
      BY <3>1 DEF Only, Fields
    <3>3. q.during = clients[c].during
      BY <3>1 DEF Only, Fields
    <3>4. Limit(clients[c]) <= Limit(q)
      BY <3>2, <3>3 DEF Limit
    <3>5. mig' \subseteq mig
      BY <2>3
    <3> QED
      BY <1>1, <1>2, <3>1, <3>2, <3>4, <3>5, CompleteLinks
  <2>4. CASE /\ \E r \in Client : /\ Becomes(c, r) /\ RingOf(r)
                                  /\ Only(r, clients[c], {"kind"}) /\ r.kind = "semi"
             /\ UNCHANGED <<wq, mig>>
    <3>1. PICK r \in Client : Becomes(c, r) /\ RingOf(r) /\ Only(r, cl, {"kind"})
      BY <1>3, <2>4
    <3>2. r.completed = cl.completed
      BY <3>1 DEF Only, Fields
    <3>3. r.during = cl.during
      BY <3>1 DEF Only, Fields
    <3>4. Limit(r) = 0 /\ Limit(cl) = 0
      BY <2>1, <3>3 DEF Limit
    <3>5. cl.completed + Underway(c) <= Limit(cl)
      BY <1>3 DEF CompleteInv
    <3>6. r.completed + Underway(c)' <= Limit(r)
      BY <1>2, <3>2, <3>4, <3>5
    <3>7. mig' \subseteq mig
      BY <2>4
    <3> QED
      BY <1>1, <1>2, <3>1, <3>6, <3>7, CompleteFrame
  <2> QED
    BY <1>1, <1>4, <2>2, <2>3, <2>4, DstDoSeamlessEffect
<1>5. CASE MigrateEnd(c)
  <2>1. cl.kind = "semi"
    BY <1>3, <1>5 DEF MigrateEnd
  <2>2. PICK q : /\ Only(q, cl, {"pending", "during"})
                 /\ Links(c, q, ToSet(cl.pending) \ Remote)
    BY <1>1, <1>3, <1>5, MigrateEndEffect
  <2>3. mig' = mig \ {c}
    BY <1>1, <1>5, MigrateEndEffect
  <2>4. q.completed = cl.completed
    BY <2>2 DEF Only, Fields
  <2>5. Limit(cl) <= Limit(q)
    BY <2>1 DEF Limit
  <2>6. mig' \subseteq mig
    BY <2>3
  <2> QED
    BY <1>1, <1>2, <1>3, <2>2, <2>4, <2>5, <2>6, CompleteLinks
<1>6. CASE Migrate(c)
  <2>1. PICK r \in Client : Becomes(c, r) /\ RingOf(r) /\ Only(r, clients[c], {"left"})
    BY <1>1, <1>6, MigrateEffect
  <2>2. mig' \subseteq mig
    BY <1>6 DEF Migrate
  <2> QED
    BY <1>1, <1>2, <2>1, <2>2, CompleteKept
<1> QED
  BY <1>4, <1>5, <1>6

\* red_channel_client_disconnect posts no completion.
LEMMA CompleteDrop ==
  ASSUME RccInv, RccInv', CompleteInv, NEW c \in Ids, NEW q \in Client, RingOf(q),
         Only(q, clients[c], {"sent", "unexpected"}),
         NEW ch \in Chans, clients[c].chan[ch] = "on", Drop(c, q, ch),
         UNCHANGED <<mode, mig, worker>>
  PROVE  CompleteInv'
<1>1. TypeInv /\ TypeInv'
  BY DEF RccInv
<1>2. q.chan = clients[c].chan
  BY DEF Only, Fields
<1>3. PICK r \in Client :
            /\ Becomes(c, r) /\ RingOf(r) /\ Only(r, q, {"chan", "refs"})
            /\ \/ mq' = Append(mq, Msg("disconnect", c, Main))
               \/ UNCHANGED mq
  BY <1>1, <1>2, DropEffect
<1>4. Only(r, clients[c], {"sent", "unexpected", "chan", "refs"})
  BY <1>3 DEF Only, Fields
<1>5. mig' \subseteq mig
  OBVIOUS
<1>6. Ids' = Ids
  BY <1>1, <1>3, <1>5, ClientsFrame
<1>7. UNCHANGED mq \/ \E m \in Reports : mq' = Append(mq, m) /\ m.type # "complete"
  <2>1. PICK m : m = Msg("disconnect", c, Main)
    OBVIOUS
  <2>2. m \in Reports /\ m.type = "disconnect"
    BY <1>1, <2>1, Known DEF Msg, Reports
  <2> QED
    BY <1>3, <2>1, <2>2
<1>8. \A d \in Ids : Underway(d)' = Underway(d)
  BY <1>1, <1>6, <1>7, UnderwayKept
<1> QED
  BY <1>1, <1>3, <1>4, <1>5, <1>8, CompleteKept

\* The actions on one channel: the completion begins when during ends.
LEMMA CompleteChannel ==
  ASSUME RccInv, RccInv', CountInv, CompleteInv, NEW c \in Ids, NEW ch \in Chans,
         \/ ch \in mode.chans /\ (OtherLink(c, ch) \/ Latency(c, ch))
         \/ MigrateData(c, ch) \/ Lose(c, ch)
  PROVE  CompleteInv'
<1>1. TypeInv /\ TypeInv' /\ UNCHANGED <<mode, mig>>
  BY DEF RccInv, OtherLink, Latency, MigrateData, Lose
<1>2. mig' \subseteq mig
  BY <1>1
<1>3. PICK cl \in Client : cl = clients[c] /\ RingOf(cl) /\ MigOf(cl, c, mig)
  BY <1>1, Known DEF CountInv
<1>4. CASE ch \in mode.chans /\ OtherLink(c, ch)
  <2>1. PICK q, S : Only(q, cl, {"links", "pending"}) /\ Links(c, q, S)
    BY <1>1, <1>3, <1>4, OtherLinkEffect
  <2>2. q.kind = cl.kind /\ q.completed = cl.completed
    BY <2>1 DEF Only, Fields
  <2>3. q.during = cl.during
    BY <2>1 DEF Only, Fields
  <2>4. Limit(cl) <= Limit(q)
    BY <2>2, <2>3 DEF Limit
  <2>5. \A d \in Ids : Underway(d)' = Underway(d)
    BY <1>4, UnderwaySame DEF OtherLink
  <2> QED
    BY <1>1, <1>2, <1>3, <2>1, <2>2, <2>4, <2>5, CompleteLinks
<1>5. CASE Latency(c, ch)
  <2>1. ch \in Remote /\ StartPost(c, ch, "latency") /\ UNCHANGED <<clients, mq>>
        /\ worker[Worker[ch]] = Idle
    BY <1>5 DEF Latency, Runs
  <2>2. PICK p \in Posting : Posts(Worker[ch], p) /\ p.type = "latency"
    BY <1>1, <2>1, StartPostEffect
  <2>3. Worker[ch] \in Workers /\ Ids' = Ids
    BY <2>1 DEF Workers, Ids
  <2>4. \A d \in Ids : worker[Worker[ch]] \notin Ends(d) /\ p \notin Ends(d)
    BY <1>1, <2>1, <2>2, CompletingEnds DEF Ends
  <2>5. \A d \in Ids : Underway(d)' = Underway(d)
    BY <1>1, <2>1, <2>2, <2>3, <2>4, UnderwayKept
  <2> QED
    BY <2>1, <2>3, <2>5 DEF CompleteInv, Limit
<1>6. CASE MigrateData(c, ch)
  <2>1. c \notin mig /\ clients[c].chan[ch] = "on" /\ Runs(ch)
    BY <1>6 DEF MigrateData
  <2>2. CASE ch \in clients[c].waits /\ \E r : Becomes(c, r) /\ DataArrives(c, ch, r)
    <3>1. PICK r : Becomes(c, r) /\ DataArrives(c, ch, r)
      BY <2>2
    <3>2. r \in Client /\ RingOf(r) /\ UNCHANGED mq
      BY <3>1 DEF DataArrives
    <3>a. Ids' = Ids
      BY <1>1, <1>2, <3>1, <3>2, ClientsFrame
    <3>3. cl.seamless /\ cl.during /\ cl.kind = "seamless"
      BY <1>3, <2>2 DEF MigOf
    <3>4. cl.completed = 0 /\ Underway(c) = 0
      <4>1. cl.completed + Underway(c) <= Limit(cl) /\ Limit(cl) = 0
        BY <1>3, <3>3 DEF CompleteInv, Limit
      <4>2. cl.completed \in Nat /\ Underway(c) \in Nat
        BY <1>1, UnderwayType DEF Client
      <4> QED
        BY <4>1, <4>2
    <3>5. CASE r.migrated # 0
      <4>1. Only(r, clients[c], {"sent", "waits", "migrated"}) /\ UNCHANGED worker
        BY <3>1, <3>5 DEF DataArrives
      <4> QED
        BY <1>1, <1>2, <3>1, <3>2, <4>1, UnderwaySame, CompleteKept
    <3>6. CASE r.migrated = 0
      <4>1. ~r.during /\ r.kind = cl.kind
        BY <1>3, <3>1, <3>6 DEF DataArrives, Only, Fields
      <4>2. Limit(r) = 1
        BY <3>3, <4>1 DEF Limit
      <4>3. CASE /\ ch \in Remote /\ StartPost(c, ch, "complete")
                 /\ Only(r, clients[c], {"sent", "waits", "migrated", "during", "seamless"})
        <5>1. r.completed = 0
          BY <1>3, <3>4, <4>3 DEF Only, Fields
        <5>2. PICK p \in Posting : /\ Posts(Worker[ch], p) /\ p.client = c
                                   /\ p.type = "complete"
          BY <1>1, <4>3, StartPostEffect
        <5>3. Worker[ch] \in Workers /\ worker[Worker[ch]] = Idle
          BY <2>1, <4>3 DEF Workers, Runs
        <5>4. \A d \in Ids : worker[Worker[ch]] \notin Ends(d) /\ (p \in Ends(d) <=> d = c)
          BY <1>1, <5>2, <5>3, CompletingEnds DEF Ends
        <5>5. \A d \in Ids \ {c} : Underway(d)' = Underway(d)
          BY <1>1, <3>2, <3>a, <5>2, <5>3, <5>4, UnderwayKept
        <5>6. Cardinality(Completing(c))' = Cardinality(Completing(c)) + 1
          <6>1. Cardinality(Completing(c))' = Cardinality(Completing(c))
                   - One(worker[Worker[ch]] \in Ends(c)) + One(p \in Ends(c))
            BY <1>1, <3>a, <5>2, <5>3, UnderwayWorker
          <6>2. One(worker[Worker[ch]] \in Ends(c)) = 0 /\ One(p \in Ends(c)) = 1
            BY <5>4 DEF One
          <6> QED
            BY <1>1, <6>1, <6>2, UnderwayType
        <5>7. Count(mq, For(c, "complete"))' = Count(mq, For(c, "complete"))
          BY <3>2 DEF For
        <5>8. Underway(c)' = 1
          BY <1>1, <3>4, <5>6, <5>7, UnderwayType DEF Underway
        <5>9. r.completed + Underway(c)' <= Limit(r)
          BY <4>2, <5>1, <5>8
        <5> QED
          BY <1>1, <1>2, <3>1, <3>2, <5>5, <5>9, CompleteFrame
      <4>4. CASE /\ ch \notin Remote /\ UNCHANGED worker
                 /\ r.completed = clients[c].completed + One(clients[c].listed)
        <5>1. \A d \in Ids : Underway(d)' = Underway(d)
          BY <3>2, <4>4, UnderwaySame
        <5>2. One(clients[c].listed) <= 1 /\ One(clients[c].listed) \in Nat
          BY DEF One
        <5>3. r.completed + Underway(c)' <= Limit(r)
          BY <1>3, <3>4, <4>2, <4>4, <5>1, <5>2
        <5> QED
          BY <1>1, <1>2, <3>1, <3>2, <5>1, <5>3, CompleteFrame
      <4> QED
        BY <3>1, <3>6, <4>3, <4>4 DEF DataArrives
    <3> QED
      BY <3>5, <3>6
  <2>3. CASE /\ UNCHANGED worker
             /\ \E q \in Client : /\ RingOf(q) /\ Only(q, clients[c], {"sent", "unexpected"})
                                  /\ Drop(c, q, ch)
    BY <1>1, <2>1, <2>3, CompleteDrop
  <2> QED
    BY <1>1, <1>6, <2>2, <2>3, MigrateDataEffect
<1>7. CASE Lose(c, ch)
  <2>1. Only(clients[c], clients[c], {"sent", "unexpected"})
    BY DEF Only
  <2> QED
    BY <1>1, <1>3, <1>7, <2>1, CompleteDrop DEF Lose
<1> QED
  BY <1>4, <1>5, <1>6, <1>7

\* The actions of a worker: a completion moves from the worker to the queue.
LEMMA CompleteWorker ==
  ASSUME RccInv, RccInv', CompleteInv, NEW w \in Workers,
         WorkerRef(w) \/ WorkerPost(w) \/ WorkerHandle(w)
  PROVE  CompleteInv'
<1>1. TypeInv /\ TypeInv' /\ UNCHANGED <<mode, mig>>
  BY DEF RccInv, WorkerRef, WorkerPost, WorkerHandle
<1>2. mig' \subseteq mig
  BY <1>1
<1>3. CASE WorkerRef(w)
  <2>1. PICK c \in Ids : c = worker[w].client /\ worker[w] \in Posting
    BY <1>1, <1>3, IdleWorker DEF WorkerRef
  <2>2. PICK r \in Client : Becomes(c, r) /\ RingOf(r) /\ Only(r, clients[c], {"refs"})
    BY <1>1, <1>3, <2>1, WorkerRefEffect
  <2>3. PICK p \in Posting : Posts(w, p) /\ p.client = worker[w].client /\ p.type = worker[w].type
    BY <1>1, <1>3, WorkerRefEffect
  <2>4. Ids' = Ids
    BY <1>1, <1>2, <2>2, ClientsFrame
  <2>5. \A d \in Ids : worker[w] \in Ends(d) <=> p \in Ends(d)
    BY <2>1, <2>3 DEF Ends
  <2>6. UNCHANGED mq
    BY <1>3 DEF WorkerRef
  <2>7. \A d \in Ids : Underway(d)' = Underway(d)
    BY <1>1, <2>3, <2>4, <2>5, <2>6, UnderwayKept
  <2> QED
    BY <1>1, <1>2, <2>2, <2>7, CompleteKept
<1>4. CASE WorkerPost(w)
  <2>1. UNCHANGED clients /\ Ids' = Ids
    BY <1>4 DEF WorkerPost, Ids
  <2>2. \A d \in Ids : Underway(d)' = Underway(d)
    BY <1>1, <1>4, <2>1, UnderwayPosted
  <2> QED
    BY <2>1, <2>2 DEF CompleteInv, Limit
<1>5. CASE WorkerHandle(w)
  <2>1. wq[w] # <<>> /\ wq' = [wq EXCEPT ![w] = Tail(@)] /\ Handle(w, Head(wq[w]))
    BY <1>5 DEF WorkerHandle
  <2>2. PICK m \in Requests : /\ m = Head(wq[w]) /\ m = wq[w][1] /\ m.client \in Ids
                              /\ m.chan \in Remote /\ m.chan \in Chans /\ 1 \in DOMAIN wq[w]
    BY <2>1, WorkerHead
  <2>a. \A d \in Ids : Underway(d)' = Underway(d)
    BY <1>5, UnderwaySame DEF WorkerHandle
  <2>3. CASE m.type = "connect"
    <3>1. Becomes(m.client, Create(clients[m.client], <<m.chan>>))
      BY <2>1, <2>2, <2>3 DEF Handle, Becomes
    <3>2. Links(m.client, clients[m.client], {m.chan})
      BY <1>1, <2>2, <3>1, ConnectEffect
    <3>3. Limit(clients[m.client]) <= Limit(clients[m.client])
      BY DEF Limit
    <3> QED
      BY <1>1, <1>2, <2>2, <2>a, <3>2, <3>3, CompleteLinks
  <2>4. CASE m.type = "migrate"
    <3>1. UNCHANGED clients
      BY <2>1, <2>2, <2>4 DEF Handle
    <3> QED
      BY <2>a, <3>1 DEF CompleteInv, Limit, Ids
  <2>5. CASE m.type = "disconnect"
    <3>1. clients' = [clients EXCEPT ![m.client].chan[m.chan] = "off"]
      BY <2>1, <2>2, <2>5 DEF Handle
    <3>2. Alive(m.client, m.chan)
      BY <2>2, <2>5 DEF RccInv, AliveInv
    <3>3. PICK r \in Client : /\ Becomes(m.client, r) /\ RingOf(r)
                              /\ Only(r, clients[m.client], {"chan"})
      BY <1>1, <2>2, <3>1, <3>2, DisconnectedEffect
    <3> QED
      BY <1>1, <1>2, <2>2, <2>a, <3>3, CompleteKept
  <2> QED
    BY <2>2, <2>3, <2>4, <2>5 DEF Requests
<1> QED
  BY <1>3, <1>4, <1>5

\* CompleteInv is inductive, with the count of the migration.
LEMMA CompleteNext == RccInv /\ RccInv' /\ CountInv /\ CompleteInv /\ [Next]_vars => CompleteInv'
<1> SUFFICES ASSUME RccInv, RccInv', CountInv, CompleteInv, [Next]_vars PROVE CompleteInv'
  OBVIOUS
<1>1. {Main} \cup mode.chans \subseteq Chans
  BY ChansOf DEF RccInv
<1>2. CASE MainLink \/ MainHandle \/ AskDisconnect \/ DestroyRcc \/ DestroyEnd
  BY <1>2, CompleteMain
<1>3. CASE \E c \in Ids : DstDoSeamless(c) \/ MigrateEnd(c) \/ Migrate(c)
  BY <1>3, CompleteClient
<1>4. CASE \E c \in Ids : \E ch \in mode.chans : OtherLink(c, ch) \/ Latency(c, ch)
  <2>1. PICK c \in Ids, ch \in Chans : ch \in mode.chans /\ (OtherLink(c, ch) \/ Latency(c, ch))
    BY <1>1, <1>4
  <2> QED
    BY <2>1, CompleteChannel
<1>5. CASE \E c \in Ids : \E ch \in {Main} \cup mode.chans : MigrateData(c, ch) \/ Lose(c, ch)
  <2>1. PICK c \in Ids, ch \in Chans : MigrateData(c, ch) \/ Lose(c, ch)
    BY <1>1, <1>5
  <2> QED
    BY <2>1, CompleteChannel
<1>6. CASE \E w \in Workers : WorkerRef(w) \/ WorkerPost(w) \/ WorkerHandle(w)
  BY <1>6, CompleteWorker
<1>7. CASE UNCHANGED vars
  BY <1>7, UnderwaySame DEF vars, CompleteInv, Limit, Ids
<1> QED
  BY <1>2, <1>3, <1>4, <1>5, <1>6, <1>7 DEF Next

MigrationInv == RccInv /\ CountInv /\ CompleteInv

\* MigrationInv holds in every reachable state.
LEMMA MigrationAlways == Spec => []MigrationInv
<1>1. Init => CountInv /\ CompleteInv
  BY DEF Init, Ids, CountInv, CompleteInv
<1>2. MigrationInv /\ [Next]_vars => MigrationInv'
  BY RccNext, CountNext, CompleteNext DEF MigrationInv
<1>3. Init => MigrationInv
  BY <1>1, RccInit DEF MigrationInv
<1> QED
  BY <1>2, <1>3, PTL DEF Spec

\* MigrationCount: red_channel_client_seamless_migration_done, from whatever threads and
\* in whatever order: the count is that of the channels that wait, the migration is under
\* way exactly as long as one does, and it is completed at most once.
THEOREM MigrationCounted == Spec => []MigrationCount
<1>1. ASSUME MigrationInv PROVE MigrationCount
  <2> SUFFICES ASSUME NEW c \in Ids
               PROVE  /\ MigOf(clients[c], c, mig) /\ clients[c].completed <= 1
    BY DEF MigrationCount, MigOf
  <2>1. TypeInv
    BY <1>1 DEF MigrationInv, RccInv
  <2>2. clients[c].completed + Underway(c) <= Limit(clients[c])
    BY <1>1 DEF MigrationInv, CompleteInv
  <2>3. clients[c].completed \in Nat /\ Underway(c) \in Nat /\ Limit(clients[c]) \in {0, 1}
    BY <2>1, Known, UnderwayType DEF Client, Limit
  <2> QED
    BY <1>1, <2>2, <2>3 DEF MigrationInv, CountInv
<1> QED
  BY <1>1, MigrationAlways, PTL

-----------------------------------------------------------------------------
(* The life of a client, where no CONNECT is late and no refs++ is torn. *)

InTime == ~mode.late /\ ~mode.torn

\* A client that is not in the list is being destroyed or has no rcc left.  A CONNECT is
\* outstanding only for a client whose main channel is there, so that none is when the
\* client is taken off the list; the main thread then walks over all its rccs.
LifeInv ==
    /\ \A c \in Ids : clients[c].listed <=> ~clients[c].disconnecting
    /\ \A i \in DOMAIN mq : mq[i].type = "disconnect" => clients[mq[i].client].chan[Main] # "on"
    /\ \A c \in Ids : Outstanding(c) => clients[c].listed /\ clients[c].chan[Main] = "on"
    /\ \A c \in Ids : clients[c].listed \/ main.client = c \/ \A ch \in Chans : ~Alive(c, ch)
    /\ Busy => /\ ~clients[main.client].listed
               /\ \A ch \in Chans : Alive(main.client, ch) => ch \in ToSet(main.walk)

\* The main thread goes on with the same walk.
SameWalk ==
    /\ main' = Idle <=> main = Idle
    /\ main'.client = main.client /\ main'.walk = main.walk

\* What a step may make of client c, and of the messages.
Lively(c, r) ==
    /\ r.listed = clients[c].listed /\ r.disconnecting = clients[c].disconnecting
    /\ \A ch \in Chans : r.chan[ch] \in {"on", "off"} => Alive(c, ch) \/ clients[c].listed
    /\ r.chan[Main] = "on" => clients[c].chan[Main] = "on"
    /\ Outstanding(c) /\ clients[c].chan[Main] = "on" => r.chan[Main] = "on"
AsksFor(c, r) ==
    \A d \in Ids : Outstanding(d)' =>
        Outstanding(d) \/ (d = c /\ clients[c].listed /\ r.chan[Main] = "on")
TellsOf(c, r) ==
    \A i \in DOMAIN mq' : mq'[i].type = "disconnect" =>
        \/ mq'[i].client = c /\ r.chan[Main] # "on"
        \/ \E j \in DOMAIN mq : mq'[i] = mq[j]

\* A step of one client that leaves the walk alone.
LEMMA LifeFrame ==
  ASSUME TypeInv, LifeInv, NEW c \in Ids, NEW r \in Client, Becomes(c, r), SameWalk,
         Lively(c, r), AsksFor(c, r), TellsOf(c, r)
  PROVE  LifeInv'
<1>1. /\ Ids' = Ids /\ clients'[c] = r /\ \A d \in Ids \ {c} : clients'[d] = clients[d]
  BY OneChanged DEF TypeInv, ClientInv
<1>2. \A d \in Ids : clients'[d].listed <=> ~clients'[d].disconnecting
  BY <1>1 DEF LifeInv, Lively
<1>3. ASSUME NEW i \in DOMAIN mq', mq'[i].type = "disconnect"
      PROVE  clients'[mq'[i].client].chan[Main] # "on"
  <2>1. CASE mq'[i].client = c /\ r.chan[Main] # "on"
    BY <1>1, <2>1
  <2>2. CASE \E j \in DOMAIN mq : mq'[i] = mq[j]
    <3>1. PICK j \in DOMAIN mq : mq'[i] = mq[j]
      BY <2>2
    <3>2. clients[mq[j].client].chan[Main] # "on" /\ mq[j].client \in Ids
      BY <1>3, <3>1 DEF LifeInv, TypeInv, QueueInv
    <3> QED
      BY <1>1, <3>1, <3>2 DEF Lively
  <2> QED
    BY <1>3, <2>1, <2>2 DEF TellsOf
<1>4. ASSUME NEW d \in Ids, Outstanding(d)'
      PROVE  clients'[d].listed /\ clients'[d].chan[Main] = "on"
  <2>1. CASE Outstanding(d)
    <3>1. clients[d].listed /\ clients[d].chan[Main] = "on"
      BY <2>1 DEF LifeInv
    <3> QED
      BY <1>1, <2>1, <3>1 DEF Lively
  <2>2. CASE d = c /\ clients[c].listed /\ r.chan[Main] = "on"
    BY <1>1, <2>2 DEF Lively
  <2> QED
    BY <1>4, <2>1, <2>2 DEF AsksFor
<1>5. \A d \in Ids : \/ clients'[d].listed \/ main'.client = d
                     \/ \A ch \in Chans : clients'[d].chan[ch] \notin {"on", "off"}
  BY <1>1 DEF LifeInv, Lively, SameWalk, Alive
<1>6. ASSUME main' # Idle
      PROVE  /\ ~clients'[main'.client].listed
             /\ \A ch \in Chans : clients'[main'.client].chan[ch] \in {"on", "off"}
                                     => ch \in ToSet(main'.walk)
  <2>1. main # Idle /\ main.client \in Ids
    BY <1>6, BusyMain DEF SameWalk
  <2>2. PICK u \in Ids : u = main.client /\ u = main'.client
    BY <2>1 DEF SameWalk
  <2>3. ~clients[u].listed /\ \A ch \in Chans : Alive(u, ch) => ch \in ToSet(main.walk)
    BY <2>1, <2>2 DEF LifeInv, Busy
  <2>4. ~clients'[u].listed
    BY <1>1, <2>3 DEF Lively
  <2>5. \A ch \in Chans : clients'[u].chan[ch] \in {"on", "off"} => Alive(u, ch)
    BY <1>1, <2>3 DEF Lively, Alive
  <2> QED
    BY <2>2, <2>3, <2>4, <2>5 DEF SameWalk
<1> QED
  BY <1>1, <1>2, <1>3, <1>4, <1>5, <1>6 DEF LifeInv, Busy, Alive

\* Nothing happens to the walk, the requests or the reports.
LEMMA LifeStill ==
  ASSUME NEW c \in Ids, NEW r
  PROVE  /\ UNCHANGED main => SameWalk
         /\ UNCHANGED wq => AsksFor(c, r)
         /\ UNCHANGED mq => TellsOf(c, r)
BY DEF SameWalk, AsksFor, TellsOf, Outstanding

\* The CONNECTs that are outstanding, as the queues move.
LEMMA OutstandingSteps ==
  ASSUME TypeInv, NEW d
  PROVE  /\ \A w \in Workers : Shrinks(w) /\ Outstanding(d)' => Outstanding(d)
         /\ \A t, e, S, n : Grows(t, e, S, n) /\ Outstanding(d)' =>
               Outstanding(d) \/ (t = "connect" /\ d = e)
<1>1. ASSUME NEW w \in Workers, Shrinks(w), Outstanding(d)' PROVE Outstanding(d)
  <2>a. PICK v \in Workers :
           \E i \in DOMAIN wq'[v] : wq'[v][i].type = "connect" /\ wq'[v][i].client = d
    BY <1>1 DEF Outstanding
  <2>1. PICK i \in DOMAIN wq'[v] : wq'[v][i].type = "connect" /\ wq'[v][i].client = d
    BY <2>a
  <2>2. CASE v = w
    BY <1>1, <2>1, <2>2 DEF Shrinks, Outstanding
  <2>3. CASE v # w
    BY <1>1, <2>1, <2>3 DEF Shrinks, Outstanding
  <2> QED
    BY <2>2, <2>3
<1>2. ASSUME NEW t, NEW e, NEW S, NEW n, Grows(t, e, S, n), Outstanding(d)'
      PROVE  Outstanding(d) \/ (t = "connect" /\ d = e)
  <2>a. PICK v \in Workers :
           \E i \in DOMAIN wq'[v] : wq'[v][i].type = "connect" /\ wq'[v][i].client = d
    BY <1>2 DEF Outstanding
  <2>1. PICK i \in DOMAIN wq'[v] : wq'[v][i].type = "connect" /\ wq'[v][i].client = d
    BY <2>a
  <2>2. CASE i \in DOMAIN wq[v]
    BY <1>2, <2>1, <2>2 DEF Grows, Outstanding
  <2>3. CASE i \notin DOMAIN wq[v]
    BY <1>2, <2>1, <2>3 DEF Grows
  <2> QED
    BY <2>2, <2>3
<1> QED
  BY <1>1, <1>2

\* A client whose main channel is there is in the list, unless it is being destroyed.
LEMMA LifeListed ==
  ASSUME TypeInv, LifeInv, NEW c \in Ids, clients[c].chan[Main] = "on", main = Idle
  PROVE  clients[c].listed
<1>1. Alive(c, Main) /\ Main \in Chans
  BY DEF Alive, Chans
<1>2. main.client # c
  BY Known DEF Idle
<1> QED
  BY <1>1, <1>2 DEF LifeInv

\* A step that leaves the rccs of a client as they were.
LEMMA LifeKept ==
  ASSUME TypeInv, LifeInv, NEW c \in Ids, NEW r \in Client, Becomes(c, r), SameWalk,
         NEW F, Only(r, clients[c], F), F \cap {"listed", "disconnecting", "chan"} = {},
         AsksFor(c, r), TellsOf(c, r)
  PROVE  LifeInv'
<1>1. r.chan = clients[c].chan
  BY DEF Only, Fields
<1>2. r.listed = clients[c].listed
  BY DEF Only, Fields
<1>3. r.disconnecting = clients[c].disconnecting
  BY DEF Only, Fields
<1>4. Lively(c, r)
  BY <1>1, <1>2, <1>3 DEF Lively, Alive
<1> QED
  BY <1>4, LifeFrame

\* Channels are linked for a client that is in the list.
LEMMA LifeLinks ==
  ASSUME TypeInv, LifeInv, NEW c \in Ids, NEW q, NEW S, Links(c, q, S), SameWalk,
         NEW F, Only(q, clients[c], F), F \cap {"listed", "disconnecting", "chan"} = {},
         clients[c].listed, clients[c].chan[Main] = "on", UNCHANGED mq,
         \A d \in Ids : Outstanding(d)' => Outstanding(d) \/ d = c
  PROVE  LifeInv'
<1>1. PICK r \in Client : Becomes(c, r) /\ RingOf(r) /\ Creates(r, q, S) /\ S \subseteq Chans \ {Main}
  BY DEF Links
<1>2. q.chan = clients[c].chan
  BY DEF Only, Fields
<1>3. r.listed = clients[c].listed
  BY <1>1 DEF Creates, Only, Fields
<1>4. r.disconnecting = clients[c].disconnecting
  BY <1>1 DEF Creates, Only, Fields
<1>5. r.chan[Main] = "on"
  BY <1>1, <1>2 DEF Creates, Made, Chans
<1>6. Lively(c, r)
  BY <1>3, <1>4, <1>5 DEF Lively
<1>7. AsksFor(c, r)
  BY <1>5 DEF AsksFor
<1> QED
  BY <1>1, <1>6, <1>7, LifeStill, LifeFrame

\* Each action keeps LifeInv.  reds_client_disconnect: no CONNECT is outstanding, and the
\* main thread walks over the ring.
LEMMA LifeDisconnect ==
  ASSUME TypeInv, LifeInv, NEW c \in Ids, NEW then \in {"unref", "link"}, Disconnect(c, then),
         main = Idle, ~Outstanding(c), UNCHANGED wq,
         \A i \in DOMAIN mq' : \E j \in DOMAIN mq : mq'[i] = mq[j]
  PROVE  LifeInv'
<1>1. PICK r \in Client : /\ Becomes(c, r)
                          /\ Only(r, clients[c], {"disconnecting", "listed", "pending"})
                          /\ ~r.listed /\ r.disconnecting
  BY DisconnectEffect
<1>2. /\ Ids' = Ids /\ clients'[c] = r /\ \A d \in Ids \ {c} : clients'[d] = clients[d]
  BY <1>1, OneChanged DEF TypeInv, ClientInv
<1>3. r.chan = clients[c].chan
  BY <1>1 DEF Only, Fields
<1>4. main' # Idle /\ main'.client = c /\ main'.walk = clients[c].ring
  BY WalkStarts
<1>5. \A ch \in Chans : Alive(c, ch) => ch \in ToSet(main'.walk)
  BY <1>4, Known DEF RingOf, Alive
<1>6. \A d \in Ids : clients'[d].listed <=> ~clients'[d].disconnecting
  BY <1>1, <1>2 DEF LifeInv
<1>7. ASSUME NEW i \in DOMAIN mq', mq'[i].type = "disconnect"
      PROVE  clients'[mq'[i].client].chan[Main] # "on"
  <2>1. PICK j \in DOMAIN mq : mq'[i] = mq[j]
    OBVIOUS
  <2>2. clients[mq[j].client].chan[Main] # "on" /\ mq[j].client \in Ids
    BY <1>7, <2>1 DEF LifeInv, TypeInv, QueueInv
  <2> QED
    BY <1>2, <1>3, <2>1, <2>2
<1>8. ASSUME NEW d \in Ids, Outstanding(d)'
      PROVE  clients'[d].listed /\ clients'[d].chan[Main] = "on"
  <2>1. Outstanding(d)
    BY <1>8 DEF Outstanding
  <2>2. d # c
    BY <2>1
  <2> QED
    BY <1>2, <2>1, <2>2 DEF LifeInv
<1>9. \A d \in Ids : \/ clients'[d].listed \/ main'.client = d
                     \/ \A ch \in Chans : clients'[d].chan[ch] \notin {"on", "off"}
  <2>1. \A d \in Ids : main.client # d
    BY Known DEF Idle
  <2> QED
    BY <1>2, <1>4, <2>1 DEF LifeInv, Alive
<1>10. /\ ~clients'[main'.client].listed
       /\ \A ch \in Chans : clients'[main'.client].chan[ch] \in {"on", "off"}
                               => ch \in ToSet(main'.walk)
  BY <1>1, <1>2, <1>3, <1>4, <1>5 DEF Alive
<1> QED
  BY <1>2, <1>6, <1>7, <1>8, <1>9, <1>10 DEF LifeInv, Busy, Alive

\* The walk is over, or there was none: no rcc is left of a client that is not in the list.
LEMMA WalkOver ==
  ASSUME TypeInv, LifeInv, main = Idle \/ main.walk = <<>>, NEW d \in Ids
  PROVE  clients[d].listed \/ \A ch \in Chans : ~Alive(d, ch)
<1>1. CASE main = Idle
  BY <1>1, Known DEF LifeInv, Idle
<1>2. CASE main # Idle
  <2>1. ToSet(main.walk) = {}
    BY <1>2 DEF ToSet
  <2> QED
    BY <1>2, <2>1 DEF LifeInv, Busy
<1> QED
  BY <1>1, <1>2

\* reds_handle_main_link: the new client is in the list and nothing is asked for it yet.
LEMMA LifeAdmit ==
  ASSUME TypeInv, LifeInv, Len(clients) < Len(mode.kinds), UNCHANGED <<wq, mq>>,
         main = Idle \/ main.walk = <<>>, main' = Idle,
         NEW cls \in Seq(Client), Len(cls) = Len(clients), Admit(cls),
         \A d \in Ids : Only(cls[d], clients[d], {"refs", "freed"})
  PROVE  LifeInv'
<1>1. PICK n, r : n = Len(clients) + 1 /\ \E kind \in Kinds : r = red_client_new(kind) /\ Adds(cls, r)
  BY AdmitEffect
<1>2. /\ Ids' = Ids \cup {n} /\ n \notin Ids /\ clients'[n] = r
      /\ \A d \in Ids : clients'[d] = cls[d]
  BY <1>1 DEF Adds
<1>3. r.listed /\ ~r.disconnecting /\ r.chan[Main] = "on"
  BY <1>1 DEF red_client_new, Chans
<1>4. \A d \in Ids : clients'[d].chan = clients[d].chan
  BY <1>2 DEF Only, Fields
<1>5. \A d \in Ids : clients'[d].listed = clients[d].listed
  BY <1>2 DEF Only, Fields
<1>6. \A d \in Ids : clients'[d].disconnecting = clients[d].disconnecting
  BY <1>2 DEF Only, Fields
<1>7. \A d \in Ids' : clients'[d].listed <=> ~clients'[d].disconnecting
  BY <1>2, <1>3, <1>5, <1>6 DEF LifeInv
<1>8. \A i \in DOMAIN mq' : mq'[i].type = "disconnect" => clients'[mq'[i].client].chan[Main] # "on"
  BY <1>4 DEF LifeInv, TypeInv, QueueInv
<1>9. ASSUME NEW d \in Ids', Outstanding(d)'
      PROVE  clients'[d].listed /\ clients'[d].chan[Main] = "on"
  <2>1. Outstanding(d)
    BY <1>9 DEF Outstanding
  <2>2. d \in Ids
    BY <2>1 DEF Outstanding, TypeInv, QueueInv
  <2> QED
    BY <1>4, <1>5, <2>1, <2>2 DEF LifeInv
<1>10. \A d \in Ids' : \/ clients'[d].listed
                       \/ \A ch \in Chans : clients'[d].chan[ch] \notin {"on", "off"}
  BY <1>2, <1>3, <1>4, <1>5, WalkOver DEF Alive
<1> QED
  BY <1>7, <1>8, <1>9, <1>10 DEF LifeInv, Busy, Alive

\* An rcc is destroyed: it leaves the walk.
LEMMA LifeDestroyRcc ==
  ASSUME RccInv, LifeInv, DestroyRcc
  PROVE  LifeInv'
<1>1. TypeInv /\ main # Idle /\ main.walk # <<>> /\ UNCHANGED <<wq, mq>>
  BY DEF RccInv, DestroyRcc
<1>2. PICK u \in Ids : u = main.client /\ u = main'.client /\ main' # Idle
  BY <1>1, BusyMain, DestroyRccEffect
<1>3. PICK r \in Client : /\ Becomes(u, r) /\ Only(r, clients[u], {"chan", "ring"})
                          /\ \A x \in Chans : r.chan[x] = IF x = Victim THEN "gone"
                                                          ELSE clients[u].chan[x]
  BY <1>1, <1>2, DestroyRccEffect
<1>4. /\ Ids' = Ids /\ clients'[u] = r /\ \A d \in Ids \ {u} : clients'[d] = clients[d]
  BY <1>1, <1>3, OneChanged DEF TypeInv, ClientInv
<1>5. r.listed = clients[u].listed
  BY <1>3 DEF Only, Fields
<1>6. r.disconnecting = clients[u].disconnecting
  BY <1>3 DEF Only, Fields
<1>7. ~clients[u].listed /\ \A ch \in Chans : Alive(u, ch) => ch \in ToSet(main.walk)
  BY <1>1, <1>2 DEF LifeInv, Busy
<1>8. \A d \in Ids : clients'[d].listed <=> ~clients'[d].disconnecting
  BY <1>4, <1>5, <1>6 DEF LifeInv
<1>9. r.chan[Main] = "on" => clients[u].chan[Main] = "on"
  BY <1>3 DEF Chans
<1>10. \A i \in DOMAIN mq' : mq'[i].type = "disconnect" => clients'[mq'[i].client].chan[Main] # "on"
  BY <1>1, <1>4, <1>9 DEF LifeInv, TypeInv, QueueInv
<1>11. ASSUME NEW d \in Ids, Outstanding(d)'
      PROVE  clients'[d].listed /\ clients'[d].chan[Main] = "on"
  <2>1. Outstanding(d)
    BY <1>1, <1>11 DEF Outstanding
  <2>2. d # u
    BY <1>7, <2>1 DEF LifeInv
  <2> QED
    BY <1>4, <2>1, <2>2 DEF LifeInv
<1>12. \A d \in Ids : \/ clients'[d].listed \/ main'.client = d
                      \/ \A ch \in Chans : clients'[d].chan[ch] \notin {"on", "off"}
  BY <1>2, <1>4 DEF LifeInv, Alive
<1>13. ASSUME NEW ch \in Chans, clients'[u].chan[ch] \in {"on", "off"}
       PROVE  ch \in ToSet(main'.walk)
  <2>1. ch # Victim /\ Alive(u, ch)
    BY <1>3, <1>4, <1>13 DEF Alive
  <2>2. PICK i \in DOMAIN main.walk : main.walk[i] = ch
    BY <1>7, <2>1 DEF ToSet
  <2>3. main.walk \in Seq(Chans) /\ Victim = main.walk[1]
    BY <1>1, BusyMain
  <2>4. i # 1
    BY <2>1, <2>2, <2>3
  <2>5. i - 1 \in DOMAIN main'.walk
    BY <1>1, <2>2, <2>4, DestroyRccEffect
  <2>6. main'.walk[i - 1] = main.walk[(i - 1) + 1]
    BY <1>1, <2>5, DestroyRccEffect
  <2>7. (i - 1) + 1 = i
    BY <2>2, <2>3
  <2> QED
    BY <2>2, <2>5, <2>6, <2>7 DEF ToSet
<1> QED
  BY <1>2, <1>4, <1>5, <1>7, <1>8, <1>10, <1>11, <1>12, <1>13 DEF LifeInv, Busy, Alive

\* A step of the main thread that leaves the clients as they are.
LEMMA LifeWaits ==
  ASSUME TypeInv, LifeInv, UNCHANGED <<clients, mq>>, SameWalk, NEW c \in Ids,
         \A d \in Ids : Outstanding(d)' => Outstanding(d)
  PROVE  LifeInv'
<1>1. PICK r \in Client : r = clients[c]
  BY Known
<1>2. Becomes(c, r)
  BY <1>1, Known DEF Becomes, TypeInv, ClientInv
<1>3. Only(r, clients[c], {})
  BY <1>1 DEF Only
<1>4. AsksFor(c, r)
  BY DEF AsksFor
<1> QED
  BY <1>2, <1>3, <1>4, LifeStill, LifeKept

\* The actions of the main thread.  A client whose CLIENT_DISCONNECT is handled has lost its
\* main channel, so no CONNECT of it is outstanding.
LEMMA LifeMain ==
  ASSUME RccInv, LifeInv, InTime,
         MainLink \/ MainHandle \/ AskDisconnect \/ DestroyRcc \/ DestroyEnd
  PROVE  LifeInv'
<1>1. TypeInv
  BY DEF RccInv
<1>2. CASE MainLink
  <2>1. main = Idle /\ UNCHANGED <<wq, mq>> /\ Len(clients) < Len(mode.kinds)
    BY <1>2 DEF MainLink
  <2>2. CASE \E c \in Ids : ~Outstanding(c) /\ Disconnect(c, "link")
    BY <1>1, <2>1, <2>2, LifeDisconnect
  <2>3. CASE Admit(clients) /\ UNCHANGED main
    <3>1. clients \in Seq(Client)
      BY <1>1 DEF TypeInv, ClientInv
    <3>2. \A d \in Ids : Only(clients[d], clients[d], {"refs", "freed"})
      BY DEF Only
    <3> QED
      BY <1>1, <2>1, <2>3, <3>1, <3>2, LifeAdmit
  <2> QED
    BY <1>2, <2>2, <2>3 DEF MainLink, InTime
<1>3. CASE MainHandle
  <2>1. PICK m : m = Head(mq)
    OBVIOUS
  <2>2. /\ m.client \in Ids /\ m = mq[1] /\ 1 \in DOMAIN mq /\ main = Idle
        /\ \A i \in DOMAIN mq' : i + 1 \in DOMAIN mq /\ mq'[i] = mq[i + 1]
    BY <1>1, <1>3, <2>1, MainHandleEffect
  <2>3. \A i \in DOMAIN mq' : \E j \in DOMAIN mq : mq'[i] = mq[j]
    BY <2>2
  <2>4. UNCHANGED wq
    BY <1>3 DEF MainHandle
  <2>5. CASE m.type = "disconnect" /\ Disconnect(m.client, "unref")
    <3>1. ~Outstanding(m.client)
      BY <2>2, <2>5 DEF LifeInv
    <3> QED
      BY <1>1, <2>2, <2>3, <2>4, <2>5, <3>1, LifeDisconnect
  <2>6. CASE /\ UNCHANGED <<main, mig>>
             /\ \E q \in Client : \E r :
                   /\ Only(q, clients[m.client], {"completed"}) /\ RingOf(q)
                   /\ r = Unref(q, 1) /\ Becomes(m.client, r)
    <3>1. PICK q, r : /\ q \in Client /\ Only(q, clients[m.client], {"completed"})
                      /\ r = Unref(q, 1) /\ Becomes(m.client, r)
      BY <2>6
    <3>2. r \in Client /\ Only(r, q, {"refs", "freed"})
      BY <3>1, UnrefEffect
    <3>3. Only(r, clients[m.client], {"completed", "refs", "freed"})
      BY <3>1, <3>2 DEF Only
    <3>4. TellsOf(m.client, r)
      BY <2>3 DEF TellsOf
    <3>5. SameWalk /\ AsksFor(m.client, r)
      BY <2>2, <2>4, <2>6, LifeStill
    <3> QED
      BY <1>1, <2>2, <3>1, <3>2, <3>3, <3>4, <3>5, LifeKept
  <2> QED
    BY <1>1, <1>3, <2>1, <2>5, <2>6, MainHandleEffect
<1>4. CASE AskDisconnect
  <2>1. UNCHANGED <<clients, mq>> /\ main # Idle
    BY <1>4 DEF AskDisconnect
  <2>2. main.client \in Ids
    BY <1>1, <2>1, BusyMain
  <2>3. SameWalk /\ Grows("disconnect", main.client, {Victim}, 1)
    BY <1>1, <1>4, <2>1, AskEffect DEF SameWalk
  <2>4. \A d \in Ids : Outstanding(d)' => Outstanding(d)
    BY <1>1, <2>3, OutstandingSteps
  <2> QED
    BY <1>1, <2>1, <2>2, <2>3, <2>4, LifeWaits
<1>5. CASE DestroyRcc
  BY <1>5, LifeDestroyRcc
<1>6. CASE DestroyEnd
  <2>1. PICK c \in Ids : c = main.client
    BY <1>1, <1>6, BusyMain DEF DestroyEnd
  <2>2. UNCHANGED <<wq, mq>> /\ main # Idle /\ main.walk = <<>> /\ main' = Idle
    BY <1>6 DEF DestroyEnd
  <2>3. CASE clients' = [clients EXCEPT ![main.client] = Unref(@, 2)]
    <3>1. PICK cls : cls = clients' /\ Releases(cls, 2)
      BY <2>3 DEF Releases
    <3>2. PICK r \in Client : cls = [clients EXCEPT ![c] = r] /\ r = Unref(clients[c], 2)
      BY <1>1, <2>1, <2>2, <3>1, Released
    <3>3. Becomes(c, r)
      BY <3>1, <3>2 DEF Becomes
    <3>4. Only(r, clients[c], {"refs", "freed"})
      BY <1>1, <3>2, Known, UnrefEffect
    <3>5. /\ Ids' = Ids /\ clients'[c] = r /\ \A d \in Ids \ {c} : clients'[d] = clients[d]
      BY <1>1, <3>3, OneChanged DEF TypeInv, ClientInv
    <3>6. r.chan = clients[c].chan
      BY <3>4 DEF Only, Fields
    <3>7. r.listed = clients[c].listed
      BY <3>4 DEF Only, Fields
    <3>8. r.disconnecting = clients[c].disconnecting
      BY <3>4 DEF Only, Fields
    <3>9. \A d \in Ids : clients'[d].listed <=> ~clients'[d].disconnecting
      BY <3>5, <3>7, <3>8 DEF LifeInv
    <3>10. \A i \in DOMAIN mq' : mq'[i].type = "disconnect" => clients'[mq'[i].client].chan[Main] # "on"
      BY <1>1, <2>2, <3>5, <3>6 DEF LifeInv, TypeInv, QueueInv
    <3>11. \A d \in Ids : Outstanding(d)' => Outstanding(d)
      BY <2>2 DEF Outstanding
    <3>12. \A d \in Ids : Outstanding(d)' => clients'[d].listed /\ clients'[d].chan[Main] = "on"
      BY <3>5, <3>6, <3>7, <3>11 DEF LifeInv
    <3>13. \A d \in Ids : \/ clients'[d].listed
                          \/ \A ch \in Chans : clients'[d].chan[ch] \notin {"on", "off"}
      BY <1>1, <2>2, <3>5, <3>6, <3>7, WalkOver DEF Alive
    <3> QED
      BY <2>2, <3>5, <3>9, <3>10, <3>12, <3>13 DEF LifeInv, Busy, Alive
  <2>4. CASE main.then = "link" /\ Admit([clients EXCEPT ![main.client] = Unref(@, 1)])
    <3>1. PICK cls : Releases(cls, 1) /\ Admit(cls)
      BY <2>4 DEF Releases
    <3>2. cls \in Seq(Client) /\ Len(cls) = Len(clients)
      BY <1>1, <2>2, <3>1, Released
    <3>3. \A d \in Ids \ {c} : cls[d] = clients[d]
      BY <1>1, <2>1, <2>2, <3>1, Released, ZenonT(60)
    <3>4. PICK r : r = cls[c] /\ r = Unref(clients[c], 1)
      BY <1>1, <2>1, <2>2, <3>1, Released
    <3>5. Only(r, clients[c], {"refs", "freed"})
      BY <1>1, <3>4, Known, UnrefEffect
    <3>6. \A d \in Ids : Only(cls[d], clients[d], {"refs", "freed"})
      BY <3>3, <3>4, <3>5 DEF Only
    <3>7. Len(clients) < Len(mode.kinds)
      BY <1>1, <2>2, <2>4 DEF TypeInv, ThreadInv, Busy
    <3> QED
      BY <1>1, <2>2, <3>1, <3>2, <3>6, <3>7, LifeAdmit
  <2> QED
    BY <1>6, <2>3, <2>4 DEF DestroyEnd
<1> QED
  BY <1>2, <1>3, <1>4, <1>5, <1>6

\* The steps of a migration on the main channel: CONNECTs are sent for a client in the list.
LEMMA LifeClient ==
  ASSUME RccInv, LifeInv, NEW c \in Ids, DstDoSeamless(c) \/ MigrateEnd(c) \/ Migrate(c)
  PROVE  LifeInv'
<1>1. TypeInv /\ UNCHANGED <<main, mq>> /\ main = Idle
  BY DEF RccInv, DstDoSeamless, MigrateEnd, Migrate
<1>2. SameWalk
  BY <1>1, LifeStill
<1>3. ASSUME NEW q, NEW S, Links(c, q, S), NEW F, Only(q, clients[c], F),
             F \cap {"listed", "disconnecting", "chan"} = {}, clients[c].chan[Main] = "on",
             \E n \in Nat : \E T : Grows("connect", c, T, n)
      PROVE  LifeInv'
  <2>1. clients[c].listed
    BY <1>1, <1>3, LifeListed
  <2>2. \A d \in Ids : Outstanding(d)' => Outstanding(d) \/ d = c
    BY <1>1, <1>3, OutstandingSteps
  <2> QED
    BY <1>1, <1>2, <1>3, <2>1, <2>2, LifeLinks
<1>4. CASE DstDoSeamless(c)
  <2>1. clients[c].chan[Main] = "on"
    BY <1>4 DEF DstDoSeamless
  <2>2. PICK W : W = ToSet(clients[c].ring) \cap NeedData
    OBVIOUS
  <2>3. CASE /\ \E q : /\ Only(q, clients[c], {"pending", "seamless", "waits", "migrated"})
                       /\ Links(c, q, ToSet(clients[c].pending) \ Remote)
             /\ \E n \in Nat : Grows("connect", c, ToSet(clients[c].pending), n)
    <3>1. PICK F : F = {"pending", "seamless", "waits", "migrated"}
      OBVIOUS
    <3>2. F \cap {"listed", "disconnecting", "chan"} = {}
      BY <3>1
    <3> QED
      BY <1>3, <2>1, <2>3, <3>1, <3>2
  <2>4. CASE /\ \E r \in Client : /\ Becomes(c, r) /\ RingOf(r)
                                  /\ Only(r, clients[c], {"kind"}) /\ r.kind = "semi"
             /\ UNCHANGED <<wq, mig>>
    BY <1>1, <1>2, <2>4, LifeStill, LifeKept
  <2> QED
    BY <1>1, <1>4, <2>2, <2>3, <2>4, DstDoSeamlessEffect
<1>5. CASE MigrateEnd(c)
  <2>1. clients[c].chan[Main] = "on"
    BY <1>5 DEF MigrateEnd
  <2>2. PICK q : /\ Only(q, clients[c], {"pending", "during"})
                 /\ Links(c, q, ToSet(clients[c].pending) \ Remote)
    BY <1>1, <1>5, MigrateEndEffect
  <2>3. \E n \in Nat : Grows("connect", c, ToSet(clients[c].pending), n)
    BY <1>1, <1>5, MigrateEndEffect
  <2>4. {"pending", "during"} \cap {"listed", "disconnecting", "chan"} = {}
    OBVIOUS
  <2> QED
    BY <1>3, <2>1, <2>2, <2>3, <2>4
<1>6. CASE Migrate(c)
  <2>1. PICK r \in Client : Becomes(c, r) /\ RingOf(r) /\ Only(r, clients[c], {"left"})
    BY <1>1, <1>6, MigrateEffect
  <2>2. PICK n \in Nat : Grows("migrate", c, {ch \in Chans : clients[c].chan[ch] = "on"}, n)
    BY <1>1, <1>6, MigrateEffect
  <2>3. AsksFor(c, r)
    BY <1>1, <2>2, OutstandingSteps DEF AsksFor
  <2>4. TellsOf(c, r)
    BY <1>1, LifeStill
  <2> QED
    BY <1>1, <1>2, <2>1, <2>3, <2>4, LifeKept
<1> QED
  BY <1>4, <1>5, <1>6

\* A connection is lost: no CONNECT is outstanding if it is that of the main channel, and
\* the CLIENT_DISCONNECT that is posted is for a client without a main channel.
LEMMA LifeDrop ==
  ASSUME TypeInv, LifeInv, NEW c \in Ids, NEW q \in Client, RingOf(q),
         Only(q, clients[c], {"sent", "unexpected"}),
         NEW ch \in Chans, clients[c].chan[ch] = "on", Drop(c, q, ch),
         ch = Main => ~Outstanding(c), UNCHANGED <<main, wq>>
  PROVE  LifeInv'
<1>1. q.chan = clients[c].chan
  BY DEF Only, Fields
<1>2. PICK r \in Client :
            /\ Becomes(c, r) /\ Only(r, q, {"chan", "refs"})
            /\ \A x \in Chans : r.chan[x] = IF x = ch THEN "off" ELSE q.chan[x]
            /\ \/ ch = Main /\ mq' = Append(mq, Msg("disconnect", c, Main))
               \/ UNCHANGED mq
  BY <1>1, DropEffect
<1>3. r.listed = clients[c].listed
  BY <1>2 DEF Only, Fields
<1>4. r.disconnecting = clients[c].disconnecting
  BY <1>2 DEF Only, Fields
<1>5. Lively(c, r)
  <2>1. \A x \in Chans : r.chan[x] \in {"on", "off"} => Alive(c, x)
    BY <1>1, <1>2 DEF Alive
  <2>2. r.chan[Main] = IF Main = ch THEN "off" ELSE clients[c].chan[Main]
    BY <1>1, <1>2 DEF Chans
  <2> QED
    BY <1>3, <1>4, <2>1, <2>2 DEF Lively
<1>6. TellsOf(c, r)
  <2>1. CASE ch = Main /\ mq' = Append(mq, Msg("disconnect", c, Main))
    <3>1. PICK m : m = Msg("disconnect", c, Main)
      OBVIOUS
    <3>2. m \in Reports /\ m.client = c
      BY <3>1, Known DEF Msg, Reports
    <3>3. r.chan[Main] # "on"
      BY <1>2, <2>1
    <3>4. \A i \in DOMAIN mq' : mq'[i] = m \/ \E j \in DOMAIN mq : mq'[i] = mq[j]
      BY <2>1, <3>1, <3>2, ReportEffect DEF TypeInv
    <3> QED
      BY <3>2, <3>3, <3>4 DEF TellsOf
  <2>2. CASE UNCHANGED mq
    BY <2>2, LifeStill
  <2> QED
    BY <1>2, <2>1, <2>2
<1> QED
  BY <1>2, <1>5, <1>6, LifeStill, LifeFrame

\* The actions on one channel.
LEMMA LifeChannel ==
  ASSUME RccInv, LifeInv, InTime, NEW c \in Ids, NEW ch \in Chans,
         \/ ch \in mode.chans /\ (OtherLink(c, ch) \/ Latency(c, ch))
         \/ MigrateData(c, ch) \/ Lose(c, ch)
  PROVE  LifeInv'
<1>1. TypeInv /\ UNCHANGED main
  BY DEF RccInv, OtherLink, Latency, MigrateData, Lose
<1>2. SameWalk
  BY <1>1, LifeStill
<1>3. CASE ch \in mode.chans /\ OtherLink(c, ch)
  <2>1. clients[c].chan[Main] = "on" /\ main = Idle /\ UNCHANGED mq
    BY <1>3 DEF OtherLink
  <2>2. clients[c].listed
    BY <1>1, <2>1, LifeListed
  <2>3. PICK q, S : /\ Only(q, clients[c], {"links", "pending"}) /\ Links(c, q, S)
                    /\ UNCHANGED wq \/ Grows("connect", c, {ch}, 1)
    BY <1>1, <1>3, OtherLinkEffect
  <2>4. \A d \in Ids : Outstanding(d)' => Outstanding(d) \/ d = c
    <3>1. CASE UNCHANGED wq
      BY <3>1 DEF Outstanding
    <3>2. CASE Grows("connect", c, {ch}, 1)
      BY <1>1, <3>2, OutstandingSteps
    <3> QED
      BY <2>3, <3>1, <3>2
  <2>5. {"links", "pending"} \cap {"listed", "disconnecting", "chan"} = {}
    OBVIOUS
  <2> QED
    BY <1>1, <1>2, <2>1, <2>2, <2>3, <2>4, <2>5, LifeLinks
<1>4. CASE Latency(c, ch)
  <2>1. UNCHANGED <<clients, mq, wq>>
    BY <1>4 DEF Latency
  <2>2. \A d \in Ids : Outstanding(d)' => Outstanding(d)
    BY <2>1 DEF Outstanding
  <2> QED
    BY <1>1, <1>2, <2>1, <2>2, LifeWaits
<1>5. CASE MigrateData(c, ch)
  <2>1. clients[c].chan[ch] = "on" /\ UNCHANGED <<main, wq>> /\ ~Outstanding(c)
    BY <1>5 DEF MigrateData, InTime
  <2>2. CASE \E r : Becomes(c, r) /\ DataArrives(c, ch, r)
    <3>1. PICK r : Becomes(c, r) /\ DataArrives(c, ch, r)
      BY <2>2
    <3>2. r \in Client /\ UNCHANGED mq
      BY <3>1 DEF DataArrives
    <3>3. Only(r, clients[c], {"sent", "waits", "migrated", "during", "seamless", "completed"})
      BY <3>1 DEF DataArrives, Only
    <3>4. {"sent", "waits", "migrated", "during", "seamless", "completed"}
            \cap {"listed", "disconnecting", "chan"} = {}
      OBVIOUS
    <3>5. AsksFor(c, r) /\ TellsOf(c, r)
      BY <2>1, <3>2, LifeStill
    <3> QED
      BY <1>1, <1>2, <3>1, <3>2, <3>3, <3>4, <3>5, LifeKept
  <2>3. CASE \E q \in Client : /\ RingOf(q) /\ Only(q, clients[c], {"sent", "unexpected"})
                               /\ Drop(c, q, ch)
    BY <1>1, <2>1, <2>3, LifeDrop
  <2> QED
    BY <1>1, <1>5, <2>2, <2>3, MigrateDataEffect
<1>6. CASE Lose(c, ch)
  <2>1. Only(clients[c], clients[c], {"sent", "unexpected"})
    BY DEF Only
  <2>2. clients[c] \in Client /\ RingOf(clients[c])
    BY <1>1, Known
  <2>3. /\ clients[c].chan[ch] = "on" /\ Drop(c, clients[c], ch)
        /\ (ch = Main => ~Outstanding(c)) /\ UNCHANGED <<main, wq>>
    BY <1>6 DEF Lose, InTime
  <2> QED
    BY <1>1, <2>1, <2>2, <2>3, LifeDrop
<1> QED
  BY <1>3, <1>4, <1>5, <1>6

\* The actions of a worker: a CONNECT that is handled was outstanding.
LEMMA LifeWorker ==
  ASSUME RccInv, LifeInv, NEW w \in Workers, WorkerRef(w) \/ WorkerPost(w) \/ WorkerHandle(w)
  PROVE  LifeInv'
<1>1. TypeInv
  BY DEF RccInv
<1>2. CASE WorkerRef(w)
  <2>1. PICK c \in Ids : c = worker[w].client
    BY <1>1, <1>2, IdleWorker DEF WorkerRef
  <2>2. PICK r \in Client : Becomes(c, r) /\ Only(r, clients[c], {"refs"})
    BY <1>1, <1>2, <2>1, WorkerRefEffect
  <2>3. UNCHANGED <<main, wq, mq>>
    BY <1>2 DEF WorkerRef
  <2>4. SameWalk /\ AsksFor(c, r) /\ TellsOf(c, r)
    BY <2>3, LifeStill
  <2> QED
    BY <1>1, <2>2, <2>4, LifeKept
<1>3. CASE WorkerPost(w)
  <2>1. UNCHANGED <<clients, main, wq>> /\ worker[w] # Idle
    BY <1>3 DEF WorkerPost
  <2>2. PICK c \in Ids : c = worker[w].client /\ worker[w] \in Posting
    BY <1>1, <2>1, IdleWorker
  <2>3. PICK m \in Reports : m.type = worker[w].type /\ mq' = Append(mq, m)
    BY <1>1, <1>3, WorkerPostEffect
  <2>4. m.type # "disconnect"
    BY <2>2, <2>3 DEF Posting
  <2>5. PICK r \in Client : r = clients[c]
    BY <1>1, Known
  <2>6. TellsOf(c, r)
    <3>1. \A i \in DOMAIN mq' : mq'[i] = m \/ \E j \in DOMAIN mq : mq'[i] = mq[j]
      BY <1>1, <2>3, ReportEffect DEF TypeInv
    <3> QED
      BY <2>4, <3>1 DEF TellsOf
  <2>7. Becomes(c, r) /\ Only(r, clients[c], {})
    BY <1>1, <2>1, <2>5, Known DEF Becomes, TypeInv, ClientInv, Only
  <2> QED
    BY <1>1, <2>1, <2>6, <2>7, LifeStill, LifeKept
<1>4. CASE WorkerHandle(w)
  <2>1. /\ wq[w] # <<>> /\ wq' = [wq EXCEPT ![w] = Tail(@)] /\ Handle(w, Head(wq[w]))
        /\ UNCHANGED mq
    BY <1>4 DEF WorkerHandle
  <2>2. PICK m \in Requests : /\ m = Head(wq[w]) /\ m = wq[w][1] /\ m.client \in Ids
                              /\ m.chan \in Remote /\ m.chan \in Chans /\ 1 \in DOMAIN wq[w]
    BY <2>1, WorkerHead
  <2>3. Shrinks(w)
    BY <2>1, WorkerHead
  <2>4. \A d \in Ids : Outstanding(d)' => Outstanding(d)
    BY <1>1, <2>3, OutstandingSteps
  <2>5. CASE m.type = "connect"
    <3>1. Becomes(m.client, Create(clients[m.client], <<m.chan>>)) /\ UNCHANGED main
      BY <2>1, <2>2, <2>5 DEF Handle, Becomes
    <3>2. Links(m.client, clients[m.client], {m.chan})
      BY <1>1, <2>2, <3>1, ConnectEffect
    <3>3. Outstanding(m.client)
      BY <2>2, <2>5 DEF Outstanding
    <3>4. clients[m.client].listed /\ clients[m.client].chan[Main] = "on"
      BY <2>2, <3>3 DEF LifeInv
    <3>5. Only(clients[m.client], clients[m.client], {})
      BY DEF Only
    <3>6. SameWalk
      BY <2>2, <3>1, LifeStill
    <3>7. PICK F : Only(clients[m.client], clients[m.client], F) /\ F = {}
      BY <3>5
    <3>8. F \cap {"listed", "disconnecting", "chan"} = {}
      BY <3>7
    <3>9. \A d \in Ids : Outstanding(d)' => Outstanding(d) \/ d = m.client
      BY <2>4
    <3> QED
      BY <1>1, <2>1, <2>2, <3>2, <3>4, <3>6, <3>7, <3>8, <3>9, LifeLinks
  <2>6. CASE m.type = "migrate"
    <3>1. UNCHANGED <<clients, main>>
      BY <2>1, <2>2, <2>6 DEF Handle
    <3> QED
      BY <1>1, <2>1, <2>2, <2>4, <3>1, LifeStill, LifeWaits
  <2>7. CASE m.type = "disconnect"
    <3>1. /\ clients' = [clients EXCEPT ![m.client].chan[m.chan] = "off"]
          /\ main' = [main EXCEPT !.step = "acked"]
      BY <2>1, <2>2, <2>7 DEF Handle
    <3>2. Alive(m.client, m.chan) /\ Busy
      BY <2>2, <2>7 DEF RccInv, AliveInv, AskInv
    <3>3. PICK r \in Client : /\ Becomes(m.client, r) /\ Only(r, clients[m.client], {"chan"})
                              /\ \A x \in Chans : r.chan[x] = IF x = m.chan THEN "off"
                                                              ELSE clients[m.client].chan[x]
      BY <1>1, <2>2, <3>1, <3>2, DisconnectedEffect, ZenonT(60)
    <3>4. SameWalk
      BY <1>1, <3>1, <3>2, AckEffect DEF SameWalk, Busy
    <3>5. r.listed = clients[m.client].listed
      BY <3>3 DEF Only, Fields
    <3>6. r.disconnecting = clients[m.client].disconnecting
      BY <3>3 DEF Only, Fields
    <3>7. \A x \in Chans : r.chan[x] \in {"on", "off"} => Alive(m.client, x)
      BY <3>2, <3>3 DEF Alive
    <3>8. r.chan[Main] = clients[m.client].chan[Main]
      BY <2>2, <3>3, ClientAssumption DEF Chans
    <3>9. Lively(m.client, r)
      BY <3>5, <3>6, <3>7, <3>8 DEF Lively
    <3>10. AsksFor(m.client, r) /\ TellsOf(m.client, r)
      BY <2>1, <2>2, <2>4, LifeStill DEF AsksFor
    <3> QED
      BY <1>1, <2>2, <3>3, <3>4, <3>9, <3>10, LifeFrame
  <2> QED
    BY <2>2, <2>5, <2>6, <2>7 DEF Requests
<1> QED
  BY <1>2, <1>3, <1>4

\* LifeInv is inductive where nothing is late.
LEMMA LifeNext == RccInv /\ LifeInv /\ InTime /\ [Next]_vars => LifeInv'
<1> SUFFICES ASSUME RccInv, LifeInv, InTime, [Next]_vars PROVE LifeInv'
  OBVIOUS
<1>1. {Main} \cup mode.chans \subseteq Chans
  BY ChansOf DEF RccInv
<1>2. CASE MainLink \/ MainHandle \/ AskDisconnect \/ DestroyRcc \/ DestroyEnd
  BY <1>2, LifeMain
<1>3. CASE \E c \in Ids : DstDoSeamless(c) \/ MigrateEnd(c) \/ Migrate(c)
  BY <1>3, LifeClient
<1>4. CASE \E c \in Ids : \E ch \in mode.chans : OtherLink(c, ch) \/ Latency(c, ch)
  <2>1. PICK c \in Ids, ch \in Chans : ch \in mode.chans /\ (OtherLink(c, ch) \/ Latency(c, ch))
    BY <1>1, <1>4
  <2> QED
    BY <2>1, LifeChannel
<1>5. CASE \E c \in Ids : \E ch \in {Main} \cup mode.chans : MigrateData(c, ch) \/ Lose(c, ch)
  <2>1. PICK c \in Ids, ch \in Chans : MigrateData(c, ch) \/ Lose(c, ch)
    BY <1>1, <1>5
  <2> QED
    BY <2>1, LifeChannel
<1>6. CASE \E w \in Workers : WorkerRef(w) \/ WorkerPost(w) \/ WorkerHandle(w)
  BY <1>6, LifeWorker
<1>7. CASE UNCHANGED vars
  BY <1>7 DEF vars, LifeInv, Outstanding, Ids, Alive, Busy
<1> QED
  BY <1>2, <1>3, <1>4, <1>5, <1>6, <1>7 DEF Next

-----------------------------------------------------------------------------
(* The references to a client. *)

\* The messages about client c, and the posts of a worker that have a reference to it or are
\* in the middle of taking one.
About(c)    == {m \in Reports : m.client = c}
PostsFor(c) == {p \in Posting : p.client = c /\ p.step = "post"}
RefsFor(c)  == {p \in Posting : p.client = c /\ p.step = "ref"}

\* The references that messages have to client c, where the queue of the main thread is q and
\* wk is what the workers are in the middle of; and those of its creator and of the handler
\* that destroys it, where mn is what the main thread is in the middle of.
Meant(c, q, wk) == Count(q, About(c)) + Cardinality({w \in Workers : wk[w] \in PostsFor(c)})
HeldBy(cl, c, mn) ==
    One(cl.listed \/ mn.client = c) + One(mn.client = c /\ mn.then = "unref")

\* The count of client c is that of its references.  A worker in the middle of refs++ has
\* read the present count, and is alone there.
RefsOf(cl, c, q, wk, mn) ==
    /\ cl.refs = Meant(c, q, wk) + HeldBy(cl, c, mn)
    /\ cl.freed <=> cl.refs = 0
    /\ \A w \in Workers : wk[w] \in RefsFor(c) =>
          /\ wk[w].seen = cl.refs
          /\ \A v \in Workers : wk[v] \in RefsFor(c) => v = w
RefInv == \A c \in Ids : RefsOf(clients[c], c, mq, worker, main)

\* The references are numbers.
LEMMA MeantType ==
  ASSUME NEW c, NEW q \in Seq(Reports), NEW wk
  PROVE  /\ Meant(c, q, wk) \in Nat /\ Count(q, About(c)) \in Nat
         /\ Cardinality({w \in Workers : wk[w] \in PostsFor(c)}) \in Nat
<1>1. Count(q, About(c)) \in Nat
  BY CountType
<1>2. IsFiniteSet({w \in Workers : wk[w] \in PostsFor(c)})
  BY FiniteChans, FS_Subset
<1>3. Cardinality({w \in Workers : wk[w] \in PostsFor(c)}) \in Nat
  BY <1>2, FS_CardinalityType
<1> QED
  BY <1>1, <1>3 DEF Meant

\* Who holds a reference besides messages.
LEMMA HeldCases ==
  ASSUME NEW cl, NEW c, NEW mn
  PROVE  /\ HeldBy(cl, c, mn) \in Nat
         /\ mn.client # c /\ cl.listed => HeldBy(cl, c, mn) = 1
         /\ mn.client # c /\ ~cl.listed => HeldBy(cl, c, mn) = 0
         /\ mn.client = c /\ mn.then = "unref" => HeldBy(cl, c, mn) = 2
         /\ mn.client = c /\ mn.then # "unref" => HeldBy(cl, c, mn) = 1
<1>3. PICK a \in Nat : a = One(cl.listed \/ mn.client = c)
  BY DEF One
<1>4. PICK b \in Nat : b = One(mn.client = c /\ mn.then = "unref")
  BY DEF One
<1>5. HeldBy(cl, c, mn) = a + b
  BY <1>3, <1>4 DEF HeldBy
<1>6. /\ cl.listed \/ mn.client = c => a = 1
      /\ ~(cl.listed \/ mn.client = c) => a = 0
  BY <1>3 DEF One
<1>7. /\ mn.client = c /\ mn.then = "unref" => b = 1
      /\ ~(mn.client = c /\ mn.then = "unref") => b = 0
  BY <1>4 DEF One
<1> QED
  BY <1>5, <1>6, <1>7

\* A message is posted for the main thread, or taken by it.
LEMMA MeantQueue ==
  ASSUME NEW c, NEW q \in Seq(Reports), NEW wk
  PROVE  /\ \A m \in Reports : /\ m.client = c => Meant(c, Append(q, m), wk) = Meant(c, q, wk) + 1
                               /\ m.client # c => Meant(c, Append(q, m), wk) = Meant(c, q, wk)
         /\ q # <<>> => /\ Head(q).client = c => Meant(c, Tail(q), wk) = Meant(c, q, wk) - 1
                        /\ Head(q).client # c => Meant(c, Tail(q), wk) = Meant(c, q, wk)
<1>1. PICK S : S = About(c)
  OBVIOUS
<1>2. PICK k \in Nat : k = Cardinality({w \in Workers : wk[w] \in PostsFor(c)})
  BY MeantType
<1>3. Count(q, S) \in Nat
  BY <1>1, MeantType
<1>4. \A s : Meant(c, s, wk) = Count(s, S) + k
  BY <1>1, <1>2 DEF Meant
<1>5. ASSUME NEW m \in Reports
      PROVE  /\ m.client = c => Meant(c, Append(q, m), wk) = Meant(c, q, wk) + 1
             /\ m.client # c => Meant(c, Append(q, m), wk) = Meant(c, q, wk)
  <2>1. Count(Append(q, m), S) = Count(q, S) + One(m \in S)
    BY CountQueue
  <2>2. One(m \in S) = IF m.client = c THEN 1 ELSE 0
    BY <1>1 DEF About, One
  <2> QED
    BY <1>3, <1>4, <2>1, <2>2
<1>6. ASSUME q # <<>>
      PROVE  /\ Head(q).client = c => Meant(c, Tail(q), wk) = Meant(c, q, wk) - 1
             /\ Head(q).client # c => Meant(c, Tail(q), wk) = Meant(c, q, wk)
  <2>1. Count(Tail(q), S) = Count(q, S) - One(Head(q) \in S)
    BY <1>6, CountQueue
  <2>2. Head(q) \in Reports
    BY <1>6
  <2>3. One(Head(q) \in S) = IF Head(q).client = c THEN 1 ELSE 0
    BY <1>1, <2>2 DEF About, One
  <2> QED
    BY <1>3, <1>4, <2>1, <2>3
<1> QED
  BY <1>5, <1>6

\* A message at the head of the queue holds the reference that goes with it.
LEMMA MeantTail ==
  ASSUME NEW c, NEW q \in Seq(Reports), NEW wk, q # <<>>, Head(q).client = c
  PROVE  Meant(c, Tail(q), wk) = Meant(c, q, wk) - 1
BY MeantQueue

\* A worker goes on.
LEMMA MeantWorker ==
  ASSUME TypeInv, NEW c, NEW q \in Seq(Reports), NEW w \in Workers,
         NEW p \in {Idle} \cup Posting, Posts(w, p)
  PROVE  Meant(c, q, worker') = Meant(c, q, worker)
                - One(worker[w] \in PostsFor(c)) + One(p \in PostsFor(c))
<1>1. PICK P : P = PostsFor(c)
  OBVIOUS
<1>2. Idle \notin P
  BY <1>1 DEF Idle, PostsFor, Posting
<1>3. PICK a \in Nat, b \in Nat : /\ a = Cardinality({v \in Workers : worker[v] \in P})
                                  /\ b = Cardinality({v \in Workers : worker'[v] \in P})
                                  /\ b = a - One(worker[w] \in P) + One(p \in P)
  BY <1>2, WorkersWith
<1>4. PICK n \in Nat : n = Count(q, About(c))
  BY MeantType
<1>5. Meant(c, q, worker) = n + a /\ Meant(c, q, worker') = n + b
  BY <1>1, <1>3, <1>4 DEF Meant
<1>6. PICK x \in Nat : x = One(worker[w] \in P)
  BY DEF One
<1>7. PICK y \in Nat : y = One(p \in P)
  BY DEF One
<1>8. b = a - x + y
  BY <1>3, <1>6, <1>7, Zenon
<1>9. n + b = (n + a) - x + y
  BY <1>8
<1> QED
  BY <1>1, <1>5, <1>6, <1>7, <1>9, Zenon

\* The holders of a client, as RefsBalanced counts them.
LEMMA HoldersAre ==
  ASSUME TypeInv, NEW c \in Ids
  PROVE  Holders(c) = Meant(c, mq, worker) + HeldBy(clients[c], c, main)
<1>1. {i \in DOMAIN mq : mq[i].client = c} = {i \in DOMAIN mq : mq[i] \in About(c)}
  BY DEF TypeInv, QueueInv, About
<1>2. {w \in Workers : worker[w].client = c /\ worker[w].step = "post"}
         = {w \in Workers : worker[w] \in PostsFor(c)}
  <2>1. \A w \in Workers : worker[w].client = c => worker[w] \in Posting
    BY Known, IdleWorker
  <2> QED
    BY <2>1 DEF PostsFor
<1>3. Cardinality({i \in DOMAIN mq : mq[i].client = c}) = Count(mq, About(c))
  BY <1>1 DEF Count
<1>4. PICK x \in Nat, y \in Nat : /\ x = Count(mq, About(c))
                                  /\ y = Cardinality({w \in Workers : worker[w] \in PostsFor(c)})
  BY MeantType DEF TypeInv, QueueInv
<1>5. PICK a \in Nat : a = One(clients[c].listed \/ main.client = c)
  BY DEF One
<1>6. PICK b \in Nat : b = One(main.client = c /\ main.then = "unref")
  BY DEF One
<1>7. Holders(c) = x + y + a + b
  BY <1>2, <1>3, <1>4, <1>5, <1>6 DEF Holders, One
<1>8. Meant(c, mq, worker) + HeldBy(clients[c], c, main) = (x + y) + (a + b)
  BY <1>4, <1>5, <1>6 DEF Meant, HeldBy
<1> QED
  BY <1>7, <1>8

\* What a step leaves alone of a client that it is not about.
Aside(d) ==
    /\ Meant(d, mq', worker') = Meant(d, mq, worker)
    /\ HeldBy(clients[d], d, main') = HeldBy(clients[d], d, main)
    /\ \A w \in Workers : worker'[w] \in RefsFor(d) => worker'[w] = worker[w]

\* A step of one client.
LEMMA RefFrame ==
  ASSUME TypeInv, RefInv, NEW c \in Ids, NEW r \in Client, Becomes(c, r),
         RefsOf(r, c, mq', worker', main'), \A d \in Ids \ {c} : Aside(d)
  PROVE  RefInv'
<1>1. /\ Ids' = Ids /\ clients'[c] = r /\ \A d \in Ids \ {c} : clients'[d] = clients[d]
  BY OneChanged DEF TypeInv, ClientInv
<1>2. ASSUME NEW d \in Ids \ {c} PROVE RefsOf(clients'[d], d, mq', worker', main')
  <2>1. RefsOf(clients[d], d, mq, worker, main) /\ Aside(d) /\ clients'[d] = clients[d]
    BY <1>1 DEF RefInv
  <2>2. \A w \in Workers : worker'[w] \in RefsFor(d) => worker[w] \in RefsFor(d)
    BY <2>1 DEF Aside
  <2> QED
    BY <2>1, <2>2 DEF RefsOf, Aside
<1> QED
  BY <1>1, <1>2 DEF RefInv

\* A message of client c is posted for the main thread or taken by it; a worker goes on with
\* a post for client c; the main thread begins or ends the destruction of client c.
QueueOf(c) ==
    \/ UNCHANGED mq
    \/ \E m \in Reports : m.client = c /\ mq' = Append(mq, m)
    \/ mq # <<>> /\ Head(mq).client = c /\ mq' = Tail(mq)
WorkerOf(c) ==
    \/ UNCHANGED worker
    \/ \E w \in Workers, p \in {Idle} \cup Posting :
          Posts(w, p) /\ worker[w].client \in {0, c} /\ p.client \in {0, c}
MainOf(c) ==
    \A d \in Ids \ {c} : /\ main'.client = d <=> main.client = d
                         /\ main.client = d => main'.then = main.then

\* The other clients are left alone.
LEMMA OthersAside ==
  ASSUME TypeInv, NEW c \in Ids, QueueOf(c), WorkerOf(c), MainOf(c)
  PROVE  \A d \in Ids \ {c} : Aside(d)
<1> SUFFICES ASSUME NEW d \in Ids \ {c} PROVE Aside(d)
  OBVIOUS
<1>1. mq \in Seq(Reports)
  BY DEF TypeInv, QueueInv
<1>2. mq' \in Seq(Reports) /\ Meant(d, mq', worker) = Meant(d, mq, worker)
  <2>1. CASE UNCHANGED mq
    BY <1>1, <2>1
  <2>2. CASE \E m \in Reports : m.client = c /\ mq' = Append(mq, m)
    <3>1. PICK m \in Reports : m.client = c /\ mq' = Append(mq, m)
      BY <2>2
    <3>2. Meant(d, Append(mq, m), worker) = Meant(d, mq, worker)
      BY <1>1, <3>1, MeantQueue
    <3> QED
      BY <1>1, <3>1, <3>2
  <2>3. CASE mq # <<>> /\ Head(mq).client = c /\ mq' = Tail(mq)
    <3>1. Meant(d, Tail(mq), worker) = Meant(d, mq, worker)
      BY <1>1, <2>3, MeantQueue
    <3> QED
      BY <1>1, <2>3, <3>1
  <2> QED
    BY <2>1, <2>2, <2>3 DEF QueueOf
<1>3. /\ Meant(d, mq', worker') = Meant(d, mq', worker)
      /\ \A w \in Workers : worker'[w] \in RefsFor(d) => worker'[w] = worker[w]
  <2>1. CASE UNCHANGED worker
    BY <2>1
  <2>2. CASE \E w \in Workers, p \in {Idle} \cup Posting :
                Posts(w, p) /\ worker[w].client \in {0, c} /\ p.client \in {0, c}
    <3>1. PICK w \in Workers, p \in {Idle} \cup Posting :
                Posts(w, p) /\ worker[w].client \in {0, c} /\ p.client \in {0, c}
      BY <2>2
    <3>2. d # 0 /\ d # c
      BY Known
    <3>3. worker[w] \notin PostsFor(d) /\ p \notin PostsFor(d) /\ p \notin RefsFor(d)
      BY <3>1, <3>2 DEF PostsFor, RefsFor
    <3>4. One(worker[w] \in PostsFor(d)) = 0 /\ One(p \in PostsFor(d)) = 0
      BY <3>3 DEF One
    <3>5. PICK k \in Nat : k = Meant(d, mq', worker)
      BY <1>2, MeantType
    <3>6. Meant(d, mq', worker') = k - 0 + 0
      BY <1>2, <3>1, <3>4, <3>5, MeantWorker
    <3>7. worker'[w] = p /\ \A v \in Workers \ {w} : worker'[v] = worker[v]
      BY <3>1, PostsEffect
    <3> QED
      BY <3>3, <3>5, <3>6, <3>7
  <2> QED
    BY <2>1, <2>2 DEF WorkerOf
<1>4. HeldBy(clients[d], d, main') = HeldBy(clients[d], d, main)
  BY DEF MainOf, HeldBy
<1> QED
  BY <1>2, <1>3, <1>4 DEF Aside

\* Nothing happens to the references.
LEMMA RefKept ==
  ASSUME TypeInv, RefInv, NEW c \in Ids, NEW r \in Client, Becomes(c, r),
         NEW F, Only(r, clients[c], F), F \cap {"refs", "freed", "listed"} = {},
         UNCHANGED <<mq, worker>>, main'.client = main.client, main'.then = main.then
  PROVE  RefInv'
<1>1. r.refs = clients[c].refs
  BY DEF Only, Fields
<1>2. r.freed = clients[c].freed
  BY DEF Only, Fields
<1>3. r.listed = clients[c].listed
  BY DEF Only, Fields
<1>4. RefsOf(clients[c], c, mq, worker, main)
  BY DEF RefInv
<1>5. HeldBy(r, c, main') = HeldBy(clients[c], c, main)
  BY <1>3 DEF HeldBy
<1>6. RefsOf(r, c, mq', worker', main')
  BY <1>1, <1>2, <1>4, <1>5 DEF RefsOf
<1>7. \A d \in Ids \ {c} : Aside(d)
  BY OthersAside DEF QueueOf, WorkerOf, MainOf
<1> QED
  BY <1>6, <1>7, RefFrame

\* No client changes, and no reference.
LEMMA RefSame ==
  ASSUME TypeInv, RefInv, UNCHANGED <<clients, mq, worker>>, main'.client = main.client,
         main'.then = main.then
  PROVE  RefInv'
BY DEF RefInv, RefsOf, HeldBy, Meant, Ids

\* The channels that are linked have no reference to the client.
LEMMA RefLinks ==
  ASSUME TypeInv, RefInv, NEW c \in Ids, NEW q, NEW S, Links(c, q, S),
         NEW F, Only(q, clients[c], F), F \cap {"refs", "freed", "listed"} = {},
         UNCHANGED <<mq, worker, main>>
  PROVE  RefInv'
<1>1. PICK r \in Client : Becomes(c, r) /\ Creates(r, q, S)
  BY DEF Links
<1>2. PICK G : G = F \cup {"ring", "chan", "waits", "migrated"}
  OBVIOUS
<1>3. Only(r, clients[c], G)
  BY <1>1, <1>2 DEF Creates, Only
<1>4. G \cap {"refs", "freed", "listed"} = {}
  BY <1>2
<1> QED
  BY <1>1, <1>3, <1>4, RefKept

\* No worker is between the two halves of refs++ of a client that is settled.
LEMMA NotReferring ==
  ASSUME InTime, NEW c \in Ids, Settled(c)
  PROVE  \A w \in Workers : worker[w] \notin RefsFor(c)
BY DEF InTime, Settled, RefsFor

\* The count of a client is the number of its references.
LEMMA RefNumbers ==
  ASSUME TypeInv, RefInv, NEW c \in Ids
  PROVE  /\ Meant(c, mq, worker) \in Nat /\ HeldBy(clients[c], c, main) \in Nat
         /\ clients[c].refs = Meant(c, mq, worker) + HeldBy(clients[c], c, main)
         /\ clients[c].refs \in Nat /\ (clients[c].freed <=> clients[c].refs = 0)
<1>1. Meant(c, mq, worker) \in Nat /\ HeldBy(clients[c], c, main) \in Nat
  BY MeantType, HeldCases DEF TypeInv, QueueInv
<1> QED
  BY <1>1 DEF RefInv, RefsOf

\* A worker begins refs++: it has read the count, and no other is about to.
LEMMA RefStart ==
  ASSUME TypeInv, RefInv, InTime, NEW c \in Ids, NEW ch \in Remote,
         NEW t \in {"complete", "latency"}, StartPost(c, ch, t), Settled(c),
         worker[Worker[ch]] = Idle, UNCHANGED <<mq, main>>,
         NEW r \in Client, Becomes(c, r),
         NEW F, Only(r, clients[c], F), F \cap {"refs", "freed", "listed"} = {}
  PROVE  RefInv'
<1>1. r.refs = clients[c].refs
  BY DEF Only, Fields
<1>2. r.freed = clients[c].freed
  BY DEF Only, Fields
<1>3. r.listed = clients[c].listed
  BY DEF Only, Fields
<1>4. PICK w \in Workers : w = Worker[ch]
  BY DEF Workers
<1>5. PICK p \in Posting : /\ Posts(w, p) /\ p.client = c /\ p.step = "ref"
                           /\ p.seen = clients[c].refs
  BY <1>4, StartPostEffect
<1>6. worker'[w] = p /\ \A v \in Workers \ {w} : worker'[v] = worker[v]
  BY <1>5, PostsEffect
<1>7. One(worker[w] \in PostsFor(c)) = 0 /\ One(p \in PostsFor(c)) = 0
  <2>1. worker[w] \notin PostsFor(c)
    BY <1>4 DEF Idle, PostsFor, Posting
  <2>2. p \notin PostsFor(c)
    BY <1>5 DEF PostsFor
  <2> QED
    BY <2>1, <2>2 DEF One
<1>8. PICK k \in Nat : k = Meant(c, mq, worker)
  BY RefNumbers
<1>9. Meant(c, mq, worker') = k
  <2>1. Meant(c, mq, worker') = k - 0 + 0
    BY <1>5, <1>7, <1>8, MeantWorker DEF TypeInv, QueueInv
  <2> QED
    BY <2>1
<1>10. HeldBy(r, c, main') = HeldBy(clients[c], c, main)
  BY <1>3 DEF HeldBy
<1>11. \A v \in Workers : worker'[v] \in RefsFor(c) => v = w
  BY <1>6, NotReferring
<1>12. RefsOf(r, c, mq', worker', main')
  BY <1>1, <1>2, <1>5, <1>6, <1>8, <1>9, <1>10, <1>11 DEF RefInv, RefsOf
<1>13. \A d \in Ids \ {c} : Aside(d)
  <2>1. WorkerOf(c)
    BY <1>4, <1>5 DEF WorkerOf, Idle
  <2> QED
    BY <2>1, OthersAside DEF QueueOf, MainOf
<1> QED
  BY <1>12, <1>13, RefFrame

\* A client that has an rcc has a reference.
LEMMA AliveHeld ==
  ASSUME TypeInv, LifeInv, RefInv, NEW c \in Ids, NEW ch \in Chans, Alive(c, ch)
  PROVE  clients[c].refs > 0 /\ ~clients[c].freed
<1>1. clients[c].listed \/ main.client = c
  BY DEF LifeInv
<1>2. HeldBy(clients[c], c, main) > 0
  BY <1>1, HeldCases
<1> QED
  BY <1>2, RefNumbers

\* The second half of refs++.
LEMMA RefWorkerRef ==
  ASSUME RccInv, LifeInv, RefInv, NEW w \in Workers, WorkerRef(w)
  PROVE  RefInv'
<1>1. TypeInv /\ worker[w] # Idle /\ worker[w].step = "ref" /\ UNCHANGED <<mq, main>>
  BY DEF RccInv, WorkerRef
<1>2. PICK c \in Ids : c = worker[w].client /\ worker[w] \in Posting /\ worker[w].chan \in Chans
  BY <1>1, IdleWorker
<1>3. PICK r \in Client : /\ Becomes(c, r) /\ Only(r, clients[c], {"refs"})
                          /\ r.refs = worker[w].seen + 1
  BY <1>1, <1>2, WorkerRefEffect
<1>4. PICK p \in Posting : Posts(w, p) /\ p.client = c /\ p.step = "post"
  BY <1>1, <1>2, WorkerRefEffect
<1>5. worker[w] \in RefsFor(c) /\ worker[w] \notin PostsFor(c) /\ p \in PostsFor(c) /\ p \notin RefsFor(c)
  BY <1>1, <1>2, <1>4 DEF RefsFor, PostsFor
<1>6. /\ worker[w].seen = clients[c].refs
      /\ \A v \in Workers : worker[v] \in RefsFor(c) => v = w
  BY <1>5 DEF RefInv, RefsOf
<1>7. r.freed = clients[c].freed
  BY <1>3 DEF Only, Fields
<1>8. r.listed = clients[c].listed
  BY <1>3 DEF Only, Fields
<1>9. clients[c].refs > 0 /\ ~clients[c].freed
  BY <1>1, <1>2, AliveHeld DEF RccInv, AliveInv
<1>10. One(worker[w] \in PostsFor(c)) = 0 /\ One(p \in PostsFor(c)) = 1
  BY <1>5 DEF One
<1>11. PICK k \in Nat, h \in Nat :
          k = Meant(c, mq, worker) /\ h = HeldBy(clients[c], c, main) /\ clients[c].refs = k + h
  BY <1>1, RefNumbers
<1>12. Meant(c, mq, worker') = k + 1
  <2>1. Meant(c, mq, worker') = k - 0 + 1
    BY <1>1, <1>4, <1>10, <1>11, MeantWorker DEF TypeInv, QueueInv
  <2> QED
    BY <2>1
<1>13. HeldBy(r, c, main') = h
  BY <1>1, <1>8, <1>11 DEF HeldBy
<1>14. worker'[w] = p /\ \A v \in Workers \ {w} : worker'[v] = worker[v]
  BY <1>1, <1>4, PostsEffect
<1>15. \A v \in Workers : worker'[v] \notin RefsFor(c)
  BY <1>5, <1>6, <1>14
<1>16. r.refs = (k + 1) + h /\ r.refs # 0
  BY <1>3, <1>6, <1>9, <1>11
<1>17. RefsOf(r, c, mq', worker', main')
  BY <1>1, <1>7, <1>9, <1>12, <1>13, <1>15, <1>16 DEF RefsOf
<1>18. \A d \in Ids \ {c} : Aside(d)
  <2>1. WorkerOf(c)
    BY <1>2, <1>4 DEF WorkerOf
  <2> QED
    BY <1>1, <2>1, OthersAside DEF QueueOf, MainOf
<1> QED
  BY <1>1, <1>3, <1>17, <1>18, RefFrame

\* The message is posted: its reference goes from the worker to the queue.
LEMMA RefWorkerPost ==
  ASSUME RccInv, RefInv, NEW w \in Workers, WorkerPost(w)
  PROVE  RefInv'
<1>1. TypeInv /\ worker[w] # Idle /\ worker[w].step = "post" /\ UNCHANGED <<clients, main>>
  BY DEF RccInv, WorkerPost
<1>2. PICK c \in Ids : c = worker[w].client /\ worker[w] \in Posting
  BY <1>1, IdleWorker
<1>3. PICK m \in Reports : m.client = c /\ mq' = Append(mq, m)
  BY <1>1, <1>2, WorkerPostEffect
<1>4. Posts(w, Idle) /\ worker'[w] = Idle /\ \A v \in Workers \ {w} : worker'[v] = worker[v]
  BY <1>1, WorkerPostEffect
<1>5. worker[w] \in PostsFor(c) /\ Idle \notin PostsFor(c) /\ Idle \notin RefsFor(c)
  BY <1>1, <1>2 DEF PostsFor, RefsFor, Idle, Posting
<1>6. One(worker[w] \in PostsFor(c)) = 1 /\ One(Idle \in PostsFor(c)) = 0
  BY <1>5 DEF One
<1>7. PICK k \in Nat : k = Meant(c, mq, worker)
  BY <1>1, RefNumbers
<1>8. Meant(c, mq', worker) = k + 1 /\ mq' \in Seq(Reports)
  BY <1>1, <1>3, <1>7, MeantQueue DEF TypeInv, QueueInv
<1>9. Meant(c, mq', worker') = k
  <2>1. PICK i : i = Idle /\ i \in {Idle} \cup Posting
    OBVIOUS
  <2>2. Meant(c, mq', worker') = (k + 1) - 1 + 0
    BY <1>1, <1>4, <1>6, <1>8, <2>1, MeantWorker
  <2> QED
    BY <2>2
<1>10. PICK r \in Client : r = clients[c] /\ Becomes(c, r)
  BY <1>1, Known DEF Becomes, TypeInv, ClientInv
<1>11. \A v \in Workers : worker'[v] \in RefsFor(c) => worker'[v] = worker[v]
  BY <1>4, <1>5
<1>12. RefsOf(r, c, mq', worker', main')
  BY <1>1, <1>7, <1>9, <1>10, <1>11 DEF RefInv, RefsOf
<1>13. \A d \in Ids \ {c} : Aside(d)
  <2>1. WorkerOf(c)
    BY <1>2, <1>4 DEF WorkerOf, Idle
  <2>2. QueueOf(c)
    BY <1>3 DEF QueueOf
  <2> QED
    BY <1>1, <2>1, <2>2, OthersAside DEF MainOf
<1> QED
  BY <1>1, <1>10, <1>12, <1>13, RefFrame

\* A connection is lost, and with the main channel a CLIENT_DISCONNECT is posted.
LEMMA RefDrop ==
  ASSUME TypeInv, LifeInv, RefInv, InTime, NEW c \in Ids, NEW q \in Client, RingOf(q),
         Only(q, clients[c], {"sent", "unexpected"}),
         NEW ch \in Chans, clients[c].chan[ch] = "on", Drop(c, q, ch), UNCHANGED <<main, worker>>
  PROVE  RefInv'
<1>1. q.chan = clients[c].chan /\ q.refs = clients[c].refs
  BY DEF Only, Fields
<1>2. PICK r \in Client :
            /\ Becomes(c, r) /\ Only(r, q, {"chan", "refs"})
            /\ \/ /\ Settled(c) /\ r.refs = q.refs + 1
                  /\ mq' = Append(mq, Msg("disconnect", c, Main))
               \/ r.refs = q.refs /\ UNCHANGED mq
  BY <1>1, DropEffect
<1>3. r.listed = clients[c].listed
  BY <1>2 DEF Only, Fields
<1>4. r.freed = clients[c].freed
  BY <1>2 DEF Only, Fields
<1>5. PICK k \in Nat, h \in Nat :
          k = Meant(c, mq, worker) /\ h = HeldBy(clients[c], c, main) /\ clients[c].refs = k + h
  BY RefNumbers
<1>6. HeldBy(r, c, main') = h
  BY <1>3, <1>5 DEF HeldBy
<1>7. CASE Settled(c) /\ r.refs = q.refs + 1 /\ mq' = Append(mq, Msg("disconnect", c, Main))
  <2>1. PICK m \in Reports : m.client = c /\ mq' = Append(mq, m)
    BY <1>7, Known DEF Msg, Reports
  <2>2. Meant(c, mq', worker') = k + 1
    BY <1>5, <2>1, MeantQueue DEF TypeInv, QueueInv
  <2>3. clients[c].refs > 0 /\ ~clients[c].freed
    BY AliveHeld DEF Alive
  <2>4. r.refs = (k + 1) + h /\ r.refs # 0
    BY <1>1, <1>5, <1>7, <2>3
  <2>5. RefsOf(r, c, mq', worker', main')
    BY <1>4, <1>6, <1>7, <2>2, <2>3, <2>4, NotReferring DEF RefsOf
  <2>6. QueueOf(c)
    BY <2>1 DEF QueueOf
  <2>7. \A d \in Ids \ {c} : Aside(d)
    BY <2>6, OthersAside DEF WorkerOf, MainOf
  <2> QED
    BY <1>2, <2>5, <2>7, RefFrame
<1>8. CASE r.refs = q.refs /\ UNCHANGED mq
  <2>1. RefsOf(r, c, mq', worker', main')
    BY <1>1, <1>4, <1>5, <1>6, <1>8 DEF RefInv, RefsOf
  <2>2. \A d \in Ids \ {c} : Aside(d)
    BY <1>8, OthersAside DEF QueueOf, WorkerOf, MainOf
  <2> QED
    BY <1>2, <2>1, <2>2, RefFrame
<1> QED
  BY <1>2, <1>7, <1>8

\* reds_client_disconnect: the creator's reference is now the main thread's, and so is the
\* one of the message, if one led here.
LEMMA RefDisconnect ==
  ASSUME TypeInv, RefInv, NEW c \in Ids, NEW then \in {"unref", "link"}, Disconnect(c, then),
         main = Idle, clients[c].listed, UNCHANGED worker, QueueOf(c), mq' \in Seq(Reports),
         Meant(c, mq', worker) = Meant(c, mq, worker) - One(then = "unref")
  PROVE  RefInv'
<1>1. PICK r \in Client : /\ Becomes(c, r)
                          /\ Only(r, clients[c], {"disconnecting", "listed", "pending"})
  BY DisconnectEffect
<1>2. r.refs = clients[c].refs
  BY <1>1 DEF Only, Fields
<1>3. r.freed = clients[c].freed
  BY <1>1 DEF Only, Fields
<1>4. main'.client = c /\ main'.then = then
  BY WalkStarts
<1>5. main.client = 0 /\ c # 0
  BY Known DEF Idle
<1>6. HeldBy(clients[c], c, main) = 1 /\ HeldBy(r, c, main') = 1 + One(then = "unref")
  <2>1. HeldBy(clients[c], c, main) = 1
    BY <1>5, HeldCases
  <2>2. then = "unref" => HeldBy(r, c, main') = 2
    BY <1>4, HeldCases
  <2>3. then # "unref" => HeldBy(r, c, main') = 1
    BY <1>4, HeldCases
  <2> QED
    BY <2>1, <2>2, <2>3 DEF One
<1>7. PICK k \in Nat, o \in Nat :
          k = Meant(c, mq, worker) /\ o = One(then = "unref") /\ clients[c].refs = k + 1
  BY <1>6, RefNumbers DEF One
<1>8. clients[c].refs = (k - o) + (1 + o)
  BY <1>7
<1>9. RefsOf(r, c, mq', worker', main')
  BY <1>2, <1>3, <1>6, <1>7, <1>8 DEF RefInv, RefsOf
<1>10. MainOf(c)
  BY <1>4, <1>5, Known DEF MainOf
<1>11. \A d \in Ids \ {c} : Aside(d)
  BY <1>10, OthersAside DEF WorkerOf
<1> QED
  BY <1>1, <1>9, <1>11, RefFrame

\* A message is handled, and its reference is given back.
LEMMA RefHandled ==
  ASSUME TypeInv, RefInv, InTime, mq # <<>>, mq' = Tail(mq), UNCHANGED <<main, worker>>,
         NEW c \in Ids, c = Head(mq).client, Settled(c),
         NEW q \in Client, Only(q, clients[c], {"completed"}), NEW r, r = Unref(q, 1), Becomes(c, r)
  PROVE  RefInv'
<1>1. q.refs = clients[c].refs
  BY DEF Only, Fields
<1>2. q.freed = clients[c].freed
  BY DEF Only, Fields
<1>3. q.listed = clients[c].listed
  BY DEF Only, Fields
<1>4. r \in Client /\ Only(r, q, {"refs", "freed"}) /\ r.refs = q.refs - 1
  BY UnrefEffect
<1>5. r.freed = (q.freed \/ q.refs - 1 <= 0)
  BY UnrefFreed
<1>6. r.listed = clients[c].listed
  BY <1>3, <1>4 DEF Only, Fields
<1>7. PICK k \in Nat, h \in Nat :
          k = Meant(c, mq, worker) /\ h = HeldBy(clients[c], c, main) /\ clients[c].refs = k + h
  BY RefNumbers
<1>8. mq \in Seq(Reports) /\ mq' \in Seq(Reports)
  BY DEF TypeInv, QueueInv
<1>9. Meant(c, mq', worker') = k - 1 /\ k - 1 \in Nat
  <2>1. Meant(c, Tail(mq), worker) = k - 1
    BY <1>7, <1>8, MeantTail
  <2>2. Meant(c, mq', worker) \in Nat
    BY <1>8, MeantType
  <2> QED
    BY <2>1, <2>2
<1>10. HeldBy(r, c, main') = h
  BY <1>6, <1>7 DEF HeldBy
<1>11. ~q.freed
  BY <1>2, <1>7, <1>9, RefNumbers
<1>12. r.refs = (k - 1) + h /\ (q.refs - 1 <= 0 <=> r.refs = 0)
  BY <1>1, <1>4, <1>7, <1>9
<1>13. r.freed <=> r.refs = 0
  BY <1>5, <1>11, <1>12
<1>14. RefsOf(r, c, mq', worker', main')
  BY <1>9, <1>10, <1>12, <1>13, NotReferring DEF RefsOf
<1>15. \A d \in Ids \ {c} : Aside(d)
  BY OthersAside DEF QueueOf, WorkerOf, MainOf
<1> QED
  BY <1>4, <1>14, <1>15, RefFrame

\* A client is added, with the reference of its creator.
LEMMA RefAdmit ==
  ASSUME TypeInv, RefInv, Len(clients) < Len(mode.kinds), UNCHANGED <<mq, worker>>, main' = Idle,
         NEW cls \in Seq(Client), Len(cls) = Len(clients), Admit(cls),
         \A d \in Ids : RefsOf(cls[d], d, mq, worker, Idle)
  PROVE  RefInv'
<1>1. PICK n, r : n = Len(clients) + 1 /\ \E kind \in Kinds : r = red_client_new(kind) /\ Adds(cls, r)
  BY AdmitEffect
<1>2. /\ Ids' = Ids \cup {n} /\ n \notin Ids /\ clients'[n] = r
      /\ \A d \in Ids : clients'[d] = cls[d]
  BY <1>1 DEF Adds
<1>3. r.listed /\ ~r.freed /\ r.refs = 1
  BY <1>1 DEF red_client_new
<1>4. Idle.client # n
  BY <1>1 DEF Idle, TypeInv, ClientInv
<1>5. HeldBy(r, n, Idle) = 1
  BY <1>3, <1>4, HeldCases
<1>6. \A w \in Workers : worker[w] \notin PostsFor(n) /\ worker[w] \notin RefsFor(n)
  <2>1. \A w \in Workers : worker[w].client # n
    BY <1>2, <1>4, IdleWorker DEF Idle
  <2> QED
    BY <2>1 DEF PostsFor, RefsFor
<1>7. Meant(n, mq, worker) = 0
  <2>1. \A i \in DOMAIN mq : mq[i] \notin About(n)
    BY <1>2 DEF TypeInv, QueueInv, About
  <2>2. {i \in DOMAIN mq : mq[i] \in About(n)} = {} /\ {w \in Workers : worker[w] \in PostsFor(n)} = {}
    BY <1>6, <2>1
  <2>3. Count(mq, About(n)) = 0 /\ Cardinality({w \in Workers : worker[w] \in PostsFor(n)}) = 0
    BY <2>2, FS_EmptySet DEF Count
  <2> QED
    BY <2>3 DEF Meant
<1>8. RefsOf(r, n, mq, worker, Idle)
  BY <1>3, <1>5, <1>6, <1>7 DEF RefsOf
<1> QED
  BY <1>2, <1>8 DEF RefInv

\* Nothing is held by a main thread that is idle again but by one that destroyed a client.
LEMMA IdleAgain ==
  ASSUME TypeInv, RefInv, NEW d \in Ids, main.client # d
  PROVE  RefsOf(clients[d], d, mq, worker, Idle)
<1>1. Idle.client # d
  BY Known DEF Idle
<1>2. HeldBy(clients[d], d, Idle) = HeldBy(clients[d], d, main)
  BY <1>1 DEF HeldBy
<1> QED
  BY <1>2 DEF RefInv, RefsOf

\* The end of red_client_destroy: what the main thread held is given back.
LEMMA RefReleased ==
  ASSUME TypeInv, LifeInv, RefInv, InTime, main # Idle, NEW c \in Ids, c = main.client, Settled(c),
         NEW n \in Nat, n = (IF main.then = "unref" THEN 2 ELSE 1),
         NEW r, r = Unref(clients[c], n)
  PROVE  RefsOf(r, c, mq, worker, Idle)
<1>1. clients[c] \in Client
  BY Known
<1>2. Only(r, clients[c], {"refs", "freed"}) /\ r.refs = clients[c].refs - n
  BY <1>1, UnrefEffect
<1>3. r.freed = (clients[c].freed \/ clients[c].refs - n <= 0)
  BY <1>1, UnrefFreed, Zenon
<1>4. r.listed = clients[c].listed
  BY <1>2 DEF Only, Fields
<1>5. ~r.listed
  BY <1>4 DEF LifeInv, Busy
<1>6. HeldBy(r, c, Idle) = 0
  BY <1>5, Known, HeldCases DEF Idle
<1>7. HeldBy(clients[c], c, main) = n
  BY HeldCases
<1>8. PICK k \in Nat : k = Meant(c, mq, worker) /\ clients[c].refs = k + n
  BY <1>7, RefNumbers
<1>9. r.refs = k + 0 /\ (clients[c].refs - n <= 0 <=> r.refs = 0)
  BY <1>2, <1>8
<1>10. ~clients[c].freed
  BY <1>8, RefNumbers
<1>11. r.freed <=> r.refs = 0
  BY <1>3, <1>9, <1>10
<1> QED
  BY <1>6, <1>8, <1>9, <1>11, NotReferring DEF RefsOf

\* The actions of the main thread.
LEMMA RefMain ==
  ASSUME RccInv, LifeInv, RefInv, InTime,
         MainLink \/ MainHandle \/ AskDisconnect \/ DestroyRcc \/ DestroyEnd
  PROVE  RefInv'
<1>1. TypeInv
  BY DEF RccInv
<1>2. CASE MainLink
  <2>1. main = Idle /\ UNCHANGED <<worker, mq>> /\ Len(clients) < Len(mode.kinds)
    BY <1>2 DEF MainLink
  <2>2. CASE \E c \in Ids : clients[c].listed /\ Disconnect(c, "link")
    <3>1. PICK c \in Ids : clients[c].listed /\ Disconnect(c, "link")
      BY <2>2
    <3>2. PICK then \in {"unref", "link"} : then = "link"
      OBVIOUS
    <3>3. PICK k \in Nat : k = Meant(c, mq, worker)
      BY <1>1, RefNumbers
    <3>4. One(then = "unref") = 0 /\ k = k - 0
      BY <3>2 DEF One
    <3>5. mq' \in Seq(Reports) /\ QueueOf(c)
      BY <1>1, <2>1 DEF TypeInv, QueueInv, QueueOf
    <3> QED
      BY <1>1, <2>1, <3>1, <3>2, <3>3, <3>4, <3>5, RefDisconnect
  <2>3. CASE Admit(clients) /\ UNCHANGED main
    <3>1. clients \in Seq(Client)
      BY <1>1 DEF TypeInv, ClientInv
    <3>2. \A d \in Ids : RefsOf(clients[d], d, mq, worker, Idle)
      BY <2>1 DEF RefInv
    <3> QED
      BY <1>1, <2>1, <2>3, <3>1, <3>2, RefAdmit
  <2> QED
    BY <1>2, <2>2, <2>3 DEF MainLink
<1>3. CASE MainHandle
  <2>1. PICK m : m = Head(mq)
    OBVIOUS
  <2>2. /\ m \in Reports /\ m.client \in Ids /\ main = Idle /\ Settled(m.client)
        /\ mq' \in Seq(Reports)
    BY <1>1, <1>3, <2>1, MainHandleEffect
  <2>3. mq # <<>> /\ mq' = Tail(mq) /\ UNCHANGED worker
    BY <1>3 DEF MainHandle
  <2>4. PICK c \in Ids : c = m.client
    BY <2>2
  <2>5. CASE ~clients[c].disconnecting /\ Disconnect(c, "unref")
    <3>1. PICK then \in {"unref", "link"} : then = "unref"
      OBVIOUS
    <3>2. clients[c].listed
      BY <2>5 DEF LifeInv
    <3>3. PICK k \in Nat : k = Meant(c, mq, worker)
      BY <1>1, RefNumbers
    <3>4. Meant(c, mq', worker) = k - 1
      BY <1>1, <2>1, <2>3, <2>4, <3>3, MeantQueue DEF TypeInv, QueueInv
    <3>5. One(then = "unref") = 1
      BY <3>1 DEF One
    <3>6. QueueOf(c)
      BY <2>1, <2>3, <2>4 DEF QueueOf
    <3> QED
      BY <1>1, <2>2, <2>3, <2>5, <3>1, <3>2, <3>3, <3>4, <3>5, <3>6, RefDisconnect
  <2>6. CASE /\ UNCHANGED <<main, mig>>
             /\ \E q \in Client : \E r : /\ Only(q, clients[c], {"completed"})
                                         /\ r = Unref(q, 1) /\ Becomes(c, r)
    <3>1. PICK q, r : /\ q \in Client /\ Only(q, clients[c], {"completed"})
                      /\ r = Unref(q, 1) /\ Becomes(c, r)
      BY <2>6
    <3> QED
      BY <1>1, <2>1, <2>2, <2>3, <2>4, <2>6, <3>1, RefHandled
  <2> QED
    BY <1>1, <1>3, <2>1, <2>4, <2>5, <2>6, MainHandleEffect
<1>4. CASE AskDisconnect
  <2>1. UNCHANGED <<clients, mq, worker>>
    BY <1>4 DEF AskDisconnect
  <2>2. main'.client = main.client /\ main'.then = main.then
    BY <1>1, <1>4, AskEffect
  <2> QED
    BY <1>1, <2>1, <2>2, RefSame
<1>5. CASE DestroyRcc
  <2>1. PICK c \in Ids : c = main.client
    BY <1>1, <1>5, BusyMain DEF DestroyRcc
  <2>2. PICK r \in Client : Becomes(c, r) /\ Only(r, clients[c], {"chan", "ring"})
    BY <1>1, <1>5, <2>1, DestroyRccEffect
  <2>3. main'.client = main.client /\ main'.then = main.then
    BY <1>1, <1>5, DestroyRccEffect
  <2>4. UNCHANGED <<mq, worker>>
    BY <1>5 DEF DestroyRcc
  <2>5. {"chan", "ring"} \cap {"refs", "freed", "listed"} = {}
    OBVIOUS
  <2> QED
    BY <1>1, <2>1, <2>2, <2>3, <2>4, <2>5, RefKept
<1>6. CASE DestroyEnd
  <2>1. PICK c \in Ids : c = main.client
    BY <1>1, <1>6, BusyMain DEF DestroyEnd
  <2>2. UNCHANGED <<mq, worker>> /\ main # Idle /\ main' = Idle /\ Settled(c)
    BY <1>6, <2>1 DEF DestroyEnd
  <2>3. \A d \in Ids \ {c} : RefsOf(clients[d], d, mq, worker, Idle)
    BY <1>1, <2>1, IdleAgain
  <2>4. CASE main.then = "unref" /\ clients' = [clients EXCEPT ![main.client] = Unref(@, 2)]
    <3>1. PICK cls : cls = clients' /\ Releases(cls, 2)
      BY <2>4 DEF Releases
    <3>2. PICK r \in Client : cls = [clients EXCEPT ![c] = r] /\ r = Unref(clients[c], 2)
      BY <1>1, <2>1, <2>2, <3>1, Released
    <3>3. Becomes(c, r)
      BY <3>1, <3>2 DEF Becomes
    <3>4. RefsOf(r, c, mq, worker, Idle)
      BY <1>1, <2>1, <2>2, <2>4, <3>2, RefReleased
    <3>5. /\ Ids' = Ids /\ clients'[c] = r /\ \A d \in Ids \ {c} : clients'[d] = clients[d]
      BY <1>1, <3>3, OneChanged DEF TypeInv, ClientInv
    <3> QED
      BY <2>2, <2>3, <3>4, <3>5 DEF RefInv
  <2>5. CASE main.then = "link" /\ Admit([clients EXCEPT ![main.client] = Unref(@, 1)])
    <3>1. PICK cls : Releases(cls, 1) /\ Admit(cls)
      BY <2>5 DEF Releases
    <3>2. cls \in Seq(Client) /\ Len(cls) = Len(clients)
      BY <1>1, <2>2, <3>1, Released
    <3>3. \A d \in Ids \ {c} : cls[d] = clients[d]
      BY <1>1, <2>1, <2>2, <3>1, Released
    <3>4. PICK r : r = cls[c] /\ r = Unref(clients[c], 1)
      BY <1>1, <2>1, <2>2, <3>1, Released
    <3>5. RefsOf(r, c, mq, worker, Idle)
      BY <1>1, <2>1, <2>2, <2>5, <3>4, RefReleased
    <3>6. \A d \in Ids : RefsOf(cls[d], d, mq, worker, Idle)
      BY <2>3, <3>3, <3>4, <3>5
    <3>7. Len(clients) < Len(mode.kinds)
      BY <1>1, <2>2, <2>5 DEF TypeInv, ThreadInv, Busy
    <3> QED
      BY <1>1, <2>2, <3>1, <3>2, <3>6, <3>7, RefAdmit
  <2> QED
    BY <1>6, <2>4, <2>5 DEF DestroyEnd
<1> QED
  BY <1>2, <1>3, <1>4, <1>5, <1>6

\* The steps of a migration on the main channel.
LEMMA RefClient ==
  ASSUME RccInv, RefInv, NEW c \in Ids, DstDoSeamless(c) \/ MigrateEnd(c) \/ Migrate(c)
  PROVE  RefInv'
<1>1. TypeInv /\ UNCHANGED <<main, mq, worker>>
  BY DEF RccInv, DstDoSeamless, MigrateEnd, Migrate
<1>2. CASE DstDoSeamless(c)
  <2>1. PICK F : F = {"pending", "seamless", "waits", "migrated"}
    OBVIOUS
  <2>2. PICK W : W = ToSet(clients[c].ring) \cap NeedData
    OBVIOUS
  <2>3. F \cap {"refs", "freed", "listed"} = {} /\ {"kind"} \cap {"refs", "freed", "listed"} = {}
    BY <2>1
  <2>4. CASE \E q : /\ Only(q, clients[c], F)
                    /\ Links(c, q, ToSet(clients[c].pending) \ Remote)
    BY <1>1, <2>3, <2>4, RefLinks
  <2>5. CASE \E r \in Client : Becomes(c, r) /\ Only(r, clients[c], {"kind"})
    BY <1>1, <2>3, <2>5, RefKept
  <2> QED
    BY <1>1, <1>2, <2>1, <2>2, <2>4, <2>5, DstDoSeamlessEffect
<1>3. CASE MigrateEnd(c)
  <2>1. PICK q : /\ Only(q, clients[c], {"pending", "during"})
                 /\ Links(c, q, ToSet(clients[c].pending) \ Remote)
    BY <1>1, <1>3, MigrateEndEffect
  <2>2. {"pending", "during"} \cap {"refs", "freed", "listed"} = {}
    OBVIOUS
  <2> QED
    BY <1>1, <2>1, <2>2, RefLinks
<1>4. CASE Migrate(c)
  <2>1. PICK r \in Client : Becomes(c, r) /\ Only(r, clients[c], {"left"})
    BY <1>1, <1>4, MigrateEffect
  <2>2. {"left"} \cap {"refs", "freed", "listed"} = {}
    OBVIOUS
  <2> QED
    BY <1>1, <2>1, <2>2, RefKept
<1> QED
  BY <1>2, <1>3, <1>4

\* The actions on one channel.
LEMMA RefChannel ==
  ASSUME RccInv, LifeInv, RefInv, InTime, NEW c \in Ids, NEW ch \in Chans,
         \/ ch \in mode.chans /\ (OtherLink(c, ch) \/ Latency(c, ch))
         \/ MigrateData(c, ch) \/ Lose(c, ch)
  PROVE  RefInv'
<1>1. TypeInv /\ UNCHANGED main
  BY DEF RccInv, OtherLink, Latency, MigrateData, Lose
<1>2. CASE ch \in mode.chans /\ OtherLink(c, ch)
  <2>1. UNCHANGED <<main, mq, worker>>
    BY <1>2 DEF OtherLink
  <2>2. PICK q, S : Only(q, clients[c], {"links", "pending"}) /\ Links(c, q, S)
    BY <1>1, <1>2, OtherLinkEffect
  <2>3. {"links", "pending"} \cap {"refs", "freed", "listed"} = {}
    OBVIOUS
  <2> QED
    BY <1>1, <2>1, <2>2, <2>3, RefLinks
<1>3. CASE Latency(c, ch)
  <2>1. /\ ch \in Remote /\ Settled(c) /\ StartPost(c, ch, "latency")
        /\ UNCHANGED <<clients, mq, main>>
    BY <1>3 DEF Latency
  <2>2. worker[Worker[ch]] = Idle
    BY <1>3, <2>1 DEF Latency, Runs
  <2>3. PICK r \in Client : r = clients[c] /\ Becomes(c, r)
    BY <1>1, <2>1, Known DEF Becomes, TypeInv, ClientInv
  <2>4. PICK F : F = {} /\ Only(r, clients[c], F)
    BY <2>3 DEF Only
  <2>5. F \cap {"refs", "freed", "listed"} = {}
    BY <2>4
  <2> QED
    BY <1>1, <2>1, <2>2, <2>3, <2>4, <2>5, RefStart
<1>4. CASE MigrateData(c, ch)
  <2>1. clients[c].chan[ch] = "on"
    BY <1>4 DEF MigrateData
  <2>2. CASE \E r : Becomes(c, r) /\ DataArrives(c, ch, r)
    <3>1. PICK r : Becomes(c, r) /\ DataArrives(c, ch, r)
      BY <2>2
    <3>2. r \in Client /\ UNCHANGED mq
      BY <3>1 DEF DataArrives
    <3>3. PICK F : F = {"sent", "waits", "migrated", "during", "seamless", "completed"}
      OBVIOUS
    <3>4. Only(r, clients[c], F)
      BY <3>1, <3>3 DEF DataArrives, Only
    <3>5. F \cap {"refs", "freed", "listed"} = {}
      BY <3>3
    <3>6. CASE UNCHANGED worker
      BY <1>1, <3>1, <3>2, <3>4, <3>5, <3>6, RefKept
    <3>7. CASE ch \in Remote /\ Settled(c) /\ StartPost(c, ch, "complete")
      <4>1. worker[Worker[ch]] = Idle
        BY <1>4, <3>7 DEF MigrateData, Runs
      <4> QED
        BY <1>1, <3>1, <3>2, <3>4, <3>5, <3>7, <4>1, RefStart
    <3> QED
      BY <3>1, <3>6, <3>7 DEF DataArrives
  <2>3. CASE /\ UNCHANGED worker
             /\ \E q \in Client : /\ RingOf(q) /\ Only(q, clients[c], {"sent", "unexpected"})
                                  /\ Drop(c, q, ch)
    BY <1>1, <2>1, <2>3, RefDrop
  <2> QED
    BY <1>1, <1>4, <2>2, <2>3, MigrateDataEffect
<1>5. CASE Lose(c, ch)
  <2>1. Only(clients[c], clients[c], {"sent", "unexpected"})
    BY DEF Only
  <2>2. clients[c] \in Client /\ RingOf(clients[c])
    BY <1>1, Known
  <2>3. clients[c].chan[ch] = "on" /\ Drop(c, clients[c], ch) /\ UNCHANGED <<main, worker>>
    BY <1>5 DEF Lose
  <2> QED
    BY <1>1, <2>1, <2>2, <2>3, RefDrop
<1> QED
  BY <1>2, <1>3, <1>4, <1>5

\* The actions of a worker.
LEMMA RefWorker ==
  ASSUME RccInv, LifeInv, RefInv, NEW w \in Workers, WorkerRef(w) \/ WorkerPost(w) \/ WorkerHandle(w)
  PROVE  RefInv'
<1>1. TypeInv
  BY DEF RccInv
<1>2. CASE WorkerHandle(w)
  <2>1. /\ wq[w] # <<>> /\ wq' = [wq EXCEPT ![w] = Tail(@)] /\ Handle(w, Head(wq[w]))
        /\ UNCHANGED <<mq, worker>>
    BY <1>2 DEF WorkerHandle
  <2>2. PICK m \in Requests : /\ m = Head(wq[w]) /\ m = wq[w][1] /\ m.client \in Ids
                              /\ m.chan \in Remote /\ m.chan \in Chans /\ 1 \in DOMAIN wq[w]
    BY <2>1, WorkerHead
  <2>3. CASE m.type = "connect"
    <3>1. Becomes(m.client, Create(clients[m.client], <<m.chan>>)) /\ UNCHANGED main
      BY <2>1, <2>2, <2>3 DEF Handle, Becomes
    <3>2. Links(m.client, clients[m.client], {m.chan})
      BY <1>1, <2>2, <3>1, ConnectEffect
    <3>3. PICK F : Only(clients[m.client], clients[m.client], F) /\ F = {}
      BY DEF Only
    <3>4. F \cap {"refs", "freed", "listed"} = {}
      BY <3>3
    <3> QED
      BY <1>1, <2>1, <2>2, <3>1, <3>2, <3>3, <3>4, RefLinks
  <2>4. CASE m.type = "migrate"
    <3>1. UNCHANGED <<clients, main>>
      BY <2>1, <2>2, <2>4 DEF Handle
    <3> QED
      BY <1>1, <2>1, <3>1, RefSame
  <2>5. CASE m.type = "disconnect"
    <3>1. /\ clients' = [clients EXCEPT ![m.client].chan[m.chan] = "off"]
          /\ main' = [main EXCEPT !.step = "acked"]
      BY <2>1, <2>2, <2>5 DEF Handle
    <3>2. Alive(m.client, m.chan) /\ Busy
      BY <2>2, <2>5 DEF RccInv, AliveInv, AskInv
    <3>3. PICK r \in Client : Becomes(m.client, r) /\ Only(r, clients[m.client], {"chan"})
      BY <1>1, <2>2, <3>1, <3>2, DisconnectedEffect
    <3>4. main'.client = main.client /\ main'.then = main.then
      BY <1>1, <3>1, <3>2, AckEffect
    <3>5. {"chan"} \cap {"refs", "freed", "listed"} = {}
      OBVIOUS
    <3> QED
      BY <1>1, <2>1, <2>2, <3>3, <3>4, <3>5, RefKept
  <2> QED
    BY <2>2, <2>3, <2>4, <2>5 DEF Requests
<1> QED
  BY <1>2, RefWorkerRef, RefWorkerPost

\* RefInv is inductive where no refs++ is torn and no CONNECT is late.
LEMMA RefNext == RccInv /\ LifeInv /\ RefInv /\ InTime /\ [Next]_vars => RefInv'
<1> SUFFICES ASSUME RccInv, LifeInv, RefInv, InTime, [Next]_vars PROVE RefInv'
  OBVIOUS
<1>1. {Main} \cup mode.chans \subseteq Chans
  BY ChansOf DEF RccInv
<1>2. CASE MainLink \/ MainHandle \/ AskDisconnect \/ DestroyRcc \/ DestroyEnd
  BY <1>2, RefMain
<1>3. CASE \E c \in Ids : DstDoSeamless(c) \/ MigrateEnd(c) \/ Migrate(c)
  BY <1>3, RefClient
<1>4. CASE \E c \in Ids : \E ch \in mode.chans : OtherLink(c, ch) \/ Latency(c, ch)
  <2>1. PICK c \in Ids, ch \in Chans : ch \in mode.chans /\ (OtherLink(c, ch) \/ Latency(c, ch))
    BY <1>1, <1>4
  <2> QED
    BY <2>1, RefChannel
<1>5. CASE \E c \in Ids : \E ch \in {Main} \cup mode.chans : MigrateData(c, ch) \/ Lose(c, ch)
  <2>1. PICK c \in Ids, ch \in Chans : MigrateData(c, ch) \/ Lose(c, ch)
    BY <1>1, <1>5
  <2> QED
    BY <2>1, RefChannel
<1>6. CASE \E w \in Workers : WorkerRef(w) \/ WorkerPost(w) \/ WorkerHandle(w)
  BY <1>6, RefWorker
<1>7. CASE UNCHANGED vars
  BY <1>7, RefSame DEF vars, RccInv
<1> QED
  BY <1>2, <1>3, <1>4, <1>5, <1>6, <1>7 DEF Next

-----------------------------------------------------------------------------
\* The kind of use is chosen at first.
LEMMA ModeKept == [Next]_vars => mode' = mode
BY DEF Next, vars, MainLink, MainHandle, AskDisconnect, DestroyRcc, DestroyEnd, DstDoSeamless,
       MigrateEnd, Migrate, OtherLink, Latency, MigrateData, Lose, WorkerRef, WorkerPost, WorkerHandle

LifetimeInv == RccInv /\ CountInv /\ (InTime => LifeInv /\ RefInv)

\* LifetimeInv holds in every reachable state.
LEMMA LifetimeAlways == Spec => []LifetimeInv
<1>1. Init => LifetimeInv
  <2>1. Init => CountInv /\ RefInv
    BY DEF Init, Ids, CountInv, RefInv
  <2>2. Init => LifeInv
    BY DEF Init, Ids, LifeInv, Busy
  <2> QED
    BY <2>1, <2>2, RccInit DEF LifetimeInv
<1>2. LifetimeInv /\ [Next]_vars => LifetimeInv'
  <2> SUFFICES ASSUME LifetimeInv, [Next]_vars PROVE LifetimeInv'
    OBVIOUS
  <2>1. RccInv' /\ CountInv'
    BY RccNext, CountNext DEF LifetimeInv
  <2>2. ASSUME InTime' PROVE LifeInv' /\ RefInv'
    <3>1. InTime
      BY <2>2, ModeKept DEF InTime
    <3> QED
      BY <3>1, LifeNext, RefNext DEF LifetimeInv
  <2> QED
    BY <2>1, <2>2 DEF LifetimeInv
<1> QED
  BY <1>1, <1>2, PTL DEF Spec

\* RefsBalanced: red_client_ref and red_client_unref, with any number of clients, channels and
\* workers.  Where no refs++ is torn and no CONNECT is late, the count is that of the holders,
\* and the last of them to let go frees the client.
THEOREM RefsCounted == Spec => [](InTime => RefsBalanced)
<1>1. ASSUME LifetimeInv, InTime PROVE RefsBalanced
  <2> SUFFICES ASSUME NEW c \in Ids
               PROVE  /\ clients[c].refs = Holders(c) /\ clients[c].freed <=> Holders(c) = 0
    BY DEF RefsBalanced
  <2>1. TypeInv /\ RefInv
    BY <1>1 DEF LifetimeInv, RccInv
  <2>2. Holders(c) = clients[c].refs
    BY <2>1, HoldersAre, RefNumbers
  <2>3. clients[c].freed <=> clients[c].refs = 0
    BY <2>1, RefNumbers
  <2> QED
    BY <2>2, <2>3
<1> QED
  BY <1>1, LifetimeAlways, PTL

\* A client that is freed has no rcc.
LEMMA FreedRccs ==
  ASSUME TypeInv, LifeInv, RefInv, NEW c \in Ids, clients[c].freed
  PROVE  /\ \A ch \in Chans : clients[c].chan[ch] \in {"none", "gone"}
         /\ ~clients[c].listed /\ Meant(c, mq, worker) = 0
<1>1. \A ch \in Chans : ~Alive(c, ch)
  BY AliveHeld
<1>2. \A ch \in Chans : clients[c].chan[ch] \in {"none", "on", "off", "gone"}
  BY Known DEF Client
<1>3. Meant(c, mq, worker) = 0 /\ HeldBy(clients[c], c, main) = 0
  BY RefNumbers
<1>4. ~clients[c].listed
  BY <1>3, HeldCases
<1> QED
  BY <1>1, <1>2, <1>3, <1>4 DEF Alive

\* No message about c is left when none has a reference to it.
LEMMA NothingMeant ==
  ASSUME TypeInv, NEW c \in Ids, Meant(c, mq, worker) = 0
  PROVE  \A i \in DOMAIN mq : mq[i].client # c
<1> SUFFICES ASSUME NEW i \in DOMAIN mq, mq[i].client = c PROVE FALSE
  OBVIOUS
<1>1. mq \in Seq(Reports)
  BY DEF TypeInv, QueueInv
<1>2. PICK I : I = {j \in DOMAIN mq : mq[j] \in About(c)}
  OBVIOUS
<1>3. PICK x \in Nat, y \in Nat : /\ x = Count(mq, About(c))
                                  /\ y = Cardinality({w \in Workers : worker[w] \in PostsFor(c)})
  BY <1>1, MeantType
<1>4. x + y = 0
  BY <1>3 DEF Meant
<1>5. Cardinality(I) = 0
  BY <1>2, <1>3, <1>4 DEF Count
<1>6. IsFiniteSet(I)
  <2>1. IsFiniteSet(1 .. Len(mq))
    BY <1>1, FS_Interval
  <2>2. I \subseteq 1 .. Len(mq)
    BY <1>1, <1>2
  <2> QED
    BY <2>1, <2>2, FS_Subset
<1>7. I = {}
  BY <1>5, <1>6, FS_EmptySet
<1>8. i \in I
  BY <1>1, <1>2 DEF About
<1> QED
  BY <1>7, <1>8

\* ClientAlive: red_client_destroy takes all the rccs of a client along, and a client is freed
\* only when no thread and no message means it, where no refs++ is torn and no CONNECT is late.
THEOREM NoClientAfterFree == Spec => [](InTime => ClientAlive)
<1>1. ASSUME LifetimeInv, InTime PROVE ClientAlive
  <2> SUFFICES ASSUME NEW c \in Ids, clients[c].freed
               PROVE  /\ \A ch \in Chans : clients[c].chan[ch] \in {"none", "gone"}
                      /\ \A w \in Workers : worker[w].client # c
                      /\ \A w \in Workers : \A m \in ToSet(wq[w]) : m.client # c
                      /\ \A m \in ToSet(mq) : m.client # c
    BY DEF ClientAlive
  <2>1. TypeInv /\ AliveInv /\ LifeInv /\ RefInv
    BY <1>1 DEF LifetimeInv, RccInv
  <2>2. /\ \A ch \in Chans : clients[c].chan[ch] \in {"none", "gone"}
        /\ ~clients[c].listed /\ Meant(c, mq, worker) = 0
    BY <2>1, FreedRccs
  <2>3. \A w \in Workers : worker[w].client # c
    <3> SUFFICES ASSUME NEW w \in Workers, worker[w].client = c PROVE FALSE
      OBVIOUS
    <3>1. worker[w] # Idle /\ worker[w].chan \in Chans
      BY <2>1, Known, IdleWorker
    <3> QED
      BY <2>1, <2>2, <3>1 DEF AliveInv, Alive
  <2>4. \A w \in Workers : \A m \in ToSet(wq[w]) : m.client # c
    <3> SUFFICES ASSUME NEW w \in Workers, NEW i \in DOMAIN wq[w], wq[w][i].client = c PROVE FALSE
      BY DEF ToSet
    <3>1. CASE wq[w][i].type = "connect"
      BY <2>1, <2>2, <3>1 DEF Outstanding, LifeInv
    <3>2. CASE wq[w][i].type # "connect"
      <4>1. wq[w][i] \in Requests
        BY <2>1 DEF TypeInv, QueueInv
      <4>2. wq[w][i].chan \in Chans
        BY <4>1 DEF Requests, Chans
      <4> QED
        BY <2>1, <2>2, <3>2, <4>2 DEF AliveInv, Alive
    <3> QED
      BY <3>1, <3>2
  <2>5. \A m \in ToSet(mq) : m.client # c
    BY <2>1, <2>2, NothingMeant DEF ToSet
  <2> QED
    BY <2>2, <2>3, <2>4, <2>5
<1> QED
  BY <1>1, LifetimeAlways, PTL

\* TypeOK, the counters included: neither refs nor num_migrated_channels falls below 0.
THEOREM ClientTypes == Spec => [](InTime => TypeOK)
<1>1. ASSUME LifetimeInv, InTime PROVE TypeOK
  <2>1. TypeInv /\ RefInv /\ CountInv
    BY <1>1 DEF LifetimeInv, RccInv
  <2>2. ASSUME NEW c \in Ids
        PROVE  LET cl == clients[c]
               IN  /\ cl.refs \in Nat /\ cl.migrated \in Nat /\ cl.kind \in Kinds
                   /\ {cl.freed, cl.listed, cl.disconnecting, cl.during, cl.seamless,
                       cl.left, cl.unexpected} \subseteq BOOLEAN
                   /\ cl.waits \cup cl.sent \cup ToSet(cl.ring) \cup ToSet(cl.pending) \subseteq Chans
                   /\ cl.chan \in [Chans -> {"none", "on", "off", "gone"}]
                   /\ cl.links \in [Chans -> 0 .. MaxLinks] /\ cl.completed \in Nat
    <3>1. PICK cl \in Client : cl = clients[c]
      BY <2>1, Known
    <3>2. cl.refs \in Nat
      BY <2>1, <3>1, RefNumbers
    <3>3. cl.migrated = Cardinality(cl.waits) /\ cl.waits \subseteq Chans
      BY <2>1, <3>1 DEF CountInv, MigOf, Client
    <3>4. cl.migrated \in Nat
      BY <3>3, FiniteChans
    <3>5. ToSet(cl.ring) \subseteq Chans /\ ToSet(cl.pending) \subseteq Chans
      BY DEF Client, ToSet
    <3>6. {cl.freed, cl.listed, cl.disconnecting, cl.during, cl.seamless,
           cl.left, cl.unexpected} \subseteq BOOLEAN
      BY DEF Client
    <3>7. /\ cl.kind \in Kinds /\ cl.sent \subseteq Chans /\ cl.completed \in Nat
          /\ cl.chan \in [Chans -> {"none", "on", "off", "gone"}]
          /\ cl.links \in [Chans -> 0 .. MaxLinks]
      BY DEF Client
    <3> QED
      BY <3>1, <3>2, <3>3, <3>4, <3>5, <3>6, <3>7
  <2>3. main.client \in {0} \cup Ids
    BY <2>1, BusyMain DEF Idle
  <2>4. \A w \in Workers : worker[w].client \in {0} \cup Ids
    BY <2>1, IdleWorker
  <2>5. \A w \in Workers : \A m \in ToSet(wq[w]) :
           m.type \in {"connect", "migrate", "disconnect"} /\ m.client \in Ids /\ m.chan \in Remote
    <3> SUFFICES ASSUME NEW w \in Workers, NEW i \in DOMAIN wq[w]
                 PROVE  /\ wq[w][i].type \in {"connect", "migrate", "disconnect"}
                        /\ wq[w][i].client \in Ids /\ wq[w][i].chan \in Remote
      BY DEF ToSet
    <3>1. wq[w][i] \in Requests /\ wq[w][i].client \in Ids
      BY <2>1 DEF TypeInv, QueueInv
    <3> QED
      BY <3>1 DEF Requests
  <2>6. \A m \in ToSet(mq) : m.type \in {"complete", "latency", "disconnect"} /\ m.client \in Ids
    <3> SUFFICES ASSUME NEW i \in DOMAIN mq
                 PROVE  mq[i].type \in {"complete", "latency", "disconnect"} /\ mq[i].client \in Ids
      BY DEF ToSet
    <3>1. mq[i] \in Reports /\ mq[i].client \in Ids
      BY <2>1 DEF TypeInv, QueueInv
    <3> QED
      BY <3>1 DEF Reports
  <2>7. /\ mode \in Modes /\ Len(clients) <= Len(mode.kinds) /\ mig \subseteq Ids
        /\ told \in 0 .. MaxLatency /\ {dst, aborted} \subseteq BOOLEAN
    BY <2>1 DEF TypeInv, ThreadInv, ClientInv
  <2> QED
    BY <2>2, <2>3, <2>4, <2>5, <2>6, <2>7 DEF TypeOK
<1> QED
  BY <1>1, LifetimeAlways, PTL

-----------------------------------------------------------------------------
(* How clients arrive, and the assertions. *)

\* reds->dst_do_seamless_migrate is never reset: the assertion of reds_handle_other_links
\* holds where only fresh clients come after the target of a seamless migration.
SeamlessLast ==
    \A i, j \in DOMAIN mode.kinds :
        i < j /\ mode.kinds[i] = "seamless" => mode.kinds[j] = "fresh"

\* The main thread has still to destroy the main channel of client c.
Walked(c, mn) == mn # Idle /\ mn.client = c /\ Main \in ToSet(mn.walk)

\* Client c, where M is mig_target_clients, d is dst_do_seamless_migrate, n the number of
\* clients so far and mn what the main thread does.  Only the last client can be in the
\* list, and while one is destroyed none is.  One that is not in the list is no target, and
\* has no main channel when the main thread serves others.  A target that is not in
\* mig_target_clients any more has made the server seamless.
ListedOf(cl, c, M, n, mn) ==
    /\ cl.listed <=> ~cl.disconnecting
    /\ cl.listed => c = n /\ mn = Idle /\ cl.chan[Main] \in {"on", "off"}
    /\ ~cl.listed => c \notin M /\ (cl.chan[Main] = "gone" \/ Walked(c, mn))
KindOf(cl, c, M, d, kinds) ==
    /\ cl.listed /\ cl.during /\ c \notin M => d
    /\ cl.kind = kinds[c] \/ cl.kind = "semi"
    /\ cl.during => kinds[c] # "fresh"

SeamlessBy(d, I, M) == d => \E i \in I : mode.kinds[i] = "seamless" /\ i \notin M

ArriveInv ==
    /\ \A c \in Ids : ListedOf(clients[c], c, mig, Len(clients), main)
    /\ \A c \in Ids : KindOf(clients[c], c, mig, dst, mode.kinds)
    /\ SeamlessBy(dst, Ids, mig)

\* One client changes.  The flag of the server changes only with the client in the list.
LEMMA ArriveFrame ==
  ASSUME TypeInv, ArriveInv, UNCHANGED mode, NEW c \in Ids, NEW r \in Client, Becomes(c, r),
         \A d \in Ids \ {c} : d \in mig' <=> d \in mig,
         dst' = dst \/ clients[c].listed, main = Idle => main' = Idle \/ clients[c].listed,
         \A d \in Ids \ {c} : Walked(d, main) => Walked(d, main'),
         ListedOf(r, c, mig', Len(clients), main'), KindOf(r, c, mig', dst', mode.kinds),
         SeamlessBy(dst', Ids, mig')
  PROVE  ArriveInv'
<1>1. /\ Ids' = Ids /\ clients'[c] = r /\ \A d \in Ids \ {c} : clients'[d] = clients[d]
      /\ Len(clients') = Len(clients)
  BY OneChanged DEF TypeInv, ClientInv
<1>2. ASSUME NEW d \in Ids
      PROVE  /\ ListedOf(clients'[d], d, mig', Len(clients'), main')
             /\ KindOf(clients'[d], d, mig', dst', mode.kinds)
  <2>1. CASE d = c
    BY <1>1, <2>1
  <2>2. CASE d # c
    <3>1. /\ ListedOf(clients[d], d, mig, Len(clients), main)
          /\ KindOf(clients[d], d, mig, dst, mode.kinds) /\ clients'[d] = clients[d]
          /\ d \in mig' <=> d \in mig
      BY <1>1, <2>2 DEF ArriveInv
    <3>2. clients[c].listed => ~clients[d].listed
      BY <2>2 DEF ArriveInv, ListedOf
    <3>3. ListedOf(clients'[d], d, mig', Len(clients'), main')
      BY <1>1, <2>2, <3>1, <3>2 DEF ListedOf
    <3>4. KindOf(clients'[d], d, mig', dst', mode.kinds)
      BY <3>1, <3>2 DEF KindOf
    <3> QED
      BY <3>3, <3>4
  <2> QED
    BY <2>1, <2>2
<1> QED
  BY <1>1, <1>2 DEF ArriveInv, SeamlessBy

\* The state of the main channel: it may have been lost.
MainKept(r, cl) == r.chan[Main] = cl.chan[Main] \/ (r.chan[Main] = "off" /\ cl.chan[Main] = "on")

\* The client does not come or go.
LEMMA ArriveKept ==
  ASSUME TypeInv, ArriveInv, UNCHANGED <<mode, mig, dst>>, SameWalk,
         NEW c \in Ids, NEW r \in Client, Becomes(c, r),
         NEW F, Only(r, clients[c], F), F \cap {"listed", "disconnecting", "kind"} = {},
         r.during => clients[c].during, MainKept(r, clients[c])
  PROVE  ArriveInv'
<1>1. r.listed = clients[c].listed
  BY DEF Only, Fields
<1>2. r.disconnecting = clients[c].disconnecting
  BY DEF Only, Fields
<1>3. r.kind = clients[c].kind
  BY DEF Only, Fields
<1>4. \A d \in Ids : Walked(d, main) <=> Walked(d, main')
  BY DEF Walked, SameWalk
<1>5. /\ ListedOf(clients[c], c, mig, Len(clients), main)
      /\ KindOf(clients[c], c, mig, dst, mode.kinds) /\ SeamlessBy(dst, Ids, mig)
  BY DEF ArriveInv
<1>6. ListedOf(r, c, mig', Len(clients), main')
  BY <1>1, <1>2, <1>4, <1>5 DEF ListedOf, MainKept, SameWalk
<1>7. KindOf(r, c, mig', dst', mode.kinds)
  BY <1>1, <1>3, <1>5 DEF KindOf
<1>8. SeamlessBy(dst', Ids, mig')
  BY <1>5 DEF SeamlessBy
<1>9. main = Idle => main' = Idle
  BY DEF SameWalk
<1> QED
  BY <1>4, <1>6, <1>7, <1>8, <1>9, ArriveFrame

\* No client changes.
LEMMA ArriveStill ==
  ASSUME ArriveInv, UNCHANGED <<mode, clients, mig, dst>>, SameWalk
  PROVE  ArriveInv'
<1>1. \A d \in Ids : Walked(d, main) <=> Walked(d, main')
  BY DEF Walked, SameWalk
<1>2. ASSUME NEW d \in Ids
      PROVE  /\ ListedOf(clients'[d], d, mig', Len(clients'), main')
             /\ KindOf(clients'[d], d, mig', dst', mode.kinds)
  <2>1. /\ ListedOf(clients[d], d, mig, Len(clients), main)
        /\ KindOf(clients[d], d, mig, dst, mode.kinds)
    BY DEF ArriveInv
  <2> QED
    BY <1>1, <2>1 DEF ListedOf, KindOf, SameWalk
<1>3. Ids' = Ids
  BY DEF Ids
<1> QED
  BY <1>2, <1>3 DEF ArriveInv, SeamlessBy

\* Each action keeps ArriveInv.  reds_client_disconnect: the client is the one in the list.
LEMMA ArriveDisconnect ==
  ASSUME TypeInv, ArriveInv, NEW c \in Ids, NEW then \in {"unref", "link"}, Disconnect(c, then),
         main = Idle, clients[c].listed, UNCHANGED <<mode, dst>>
  PROVE  ArriveInv'
<1>1. PICK r \in Client : /\ Becomes(c, r)
                          /\ Only(r, clients[c], {"disconnecting", "listed", "pending"})
                          /\ ~r.listed /\ r.disconnecting
  BY DisconnectEffect
<1>2. r.chan = clients[c].chan
  BY <1>1 DEF Only, Fields
<1>3. r.kind = clients[c].kind
  BY <1>1 DEF Only, Fields
<1>4. r.during = clients[c].during
  BY <1>1 DEF Only, Fields
<1>5. main' # Idle /\ main'.client = c /\ main'.walk = clients[c].ring
  BY WalkStarts
<1>6. mig' = mig \ {c}
  BY DEF Disconnect
<1>7. /\ ListedOf(clients[c], c, mig, Len(clients), main)
      /\ KindOf(clients[c], c, mig, dst, mode.kinds) /\ SeamlessBy(dst, Ids, mig)
  BY DEF ArriveInv
<1>8. Walked(c, main')
  <2>1. Main \in Chans /\ clients[c].chan[Main] \in {"on", "off"}
    BY <1>7 DEF ListedOf, Chans
  <2>2. Main \in ToSet(clients[c].ring)
    BY <2>1, Known DEF RingOf
  <2> QED
    BY <1>5, <2>2 DEF Walked
<1>9. ListedOf(r, c, mig', Len(clients), main')
  BY <1>1, <1>6, <1>8 DEF ListedOf
<1>10. KindOf(r, c, mig', dst', mode.kinds)
  BY <1>1, <1>3, <1>4, <1>7 DEF KindOf
<1>11. SeamlessBy(dst', Ids, mig')
  BY <1>6, <1>7 DEF SeamlessBy
<1>12. \A d \in Ids \ {c} : (d \in mig' <=> d \in mig) /\ ~Walked(d, main)
  BY <1>6 DEF Walked
<1> QED
  BY <1>1, <1>9, <1>10, <1>11, <1>12, ArriveFrame

\* reds_handle_main_link: nobody else is in the list.
LEMMA ArriveAdmit ==
  ASSUME TypeInv, ArriveInv, Len(clients) < Len(mode.kinds), UNCHANGED <<mode, dst>>,
         main = Idle \/ main.walk = <<>>, main' = Idle, \A d \in Ids : ~clients[d].listed,
         NEW cls \in Seq(Client), Len(cls) = Len(clients), Admit(cls),
         \A d \in Ids : Only(cls[d], clients[d], {"refs", "freed"})
  PROVE  ArriveInv'
<1>1. PICK n : n = Len(clients) + 1
  OBVIOUS
<1>2. PICK kind \in Kinds :
            /\ kind = mode.kinds[n] /\ Adds(cls, red_client_new(kind))
            /\ mig' = IF kind = "fresh" THEN mig ELSE mig \cup {n}
  BY <1>1, AdmitEffect
<1>3. PICK r : r = red_client_new(kind)
  OBVIOUS
<1>4. /\ Ids' = Ids \cup {n} /\ n \notin Ids /\ clients'[n] = r /\ Len(clients') = n
      /\ \A d \in Ids : clients'[d] = cls[d]
  BY <1>1, <1>2, <1>3 DEF Adds
<1>5. r.listed = TRUE /\ r.disconnecting = FALSE /\ r.chan[Main] = "on"
  BY <1>3 DEF red_client_new, Chans
<1>6. r.kind = kind /\ r.during = (kind # "fresh")
  BY <1>3 DEF red_client_new
<1>7. n \notin mig
  BY <1>4 DEF TypeInv, ClientInv
<1>8. ListedOf(r, n, mig', n, main') /\ KindOf(r, n, mig', dst', mode.kinds)
  BY <1>2, <1>5, <1>6 DEF ListedOf, KindOf
<1>9. ASSUME NEW d \in Ids
      PROVE  /\ ListedOf(clients'[d], d, mig', n, main')
             /\ KindOf(clients'[d], d, mig', dst', mode.kinds)
  <2>1. clients'[d].chan = clients[d].chan
    BY <1>4 DEF Only, Fields
  <2>2. clients'[d].listed = clients[d].listed
    BY <1>4 DEF Only, Fields
  <2>3. clients'[d].disconnecting = clients[d].disconnecting
    BY <1>4 DEF Only, Fields
  <2>4. clients'[d].kind = clients[d].kind
    BY <1>4 DEF Only, Fields
  <2>5. clients'[d].during = clients[d].during
    BY <1>4 DEF Only, Fields
  <2>6. d \in mig' <=> d \in mig
    BY <1>2, <1>4
  <2>7. /\ ListedOf(clients[d], d, mig, Len(clients), main)
        /\ KindOf(clients[d], d, mig, dst, mode.kinds) /\ ~clients[d].listed
    BY DEF ArriveInv
  <2>8. ~Walked(d, main)
    BY DEF Walked, ToSet
  <2> QED
    BY <2>1, <2>2, <2>3, <2>4, <2>5, <2>6, <2>7, <2>8 DEF ListedOf, KindOf
<1>10. SeamlessBy(dst, Ids, mig)
  BY DEF ArriveInv
<1>11. SeamlessBy(dst', Ids', mig')
  <2>1. ASSUME dst' PROVE \E i \in Ids' : mode.kinds[i] = "seamless" /\ i \notin mig'
    <3>1. PICK i \in Ids : mode.kinds[i] = "seamless" /\ i \notin mig
      BY <1>10, <2>1 DEF SeamlessBy
    <3>2. i \in Ids' /\ i \notin mig'
      BY <1>2, <1>4, <3>1
    <3> QED
      BY <3>1, <3>2
  <2> QED
    BY <2>1 DEF SeamlessBy
<1> QED
  BY <1>4, <1>8, <1>9, <1>11 DEF ArriveInv, SeamlessBy
\* The main channel leaves the walk when it is destroyed.
LEMMA ArriveDestroyRcc ==
  ASSUME RccInv, ArriveInv, DestroyRcc
  PROVE  ArriveInv'
<1>1. TypeInv /\ main # Idle /\ main.walk # <<>> /\ UNCHANGED <<mode, mig, dst>>
  BY DEF RccInv, DestroyRcc
<1>2. PICK u \in Ids : u = main.client /\ u = main'.client /\ main' # Idle
  BY <1>1, BusyMain, DestroyRccEffect
<1>3. PICK r \in Client : /\ Becomes(u, r) /\ Only(r, clients[u], {"chan", "ring"})
                          /\ \A x \in Chans : r.chan[x] = IF x = Victim THEN "gone"
                                                          ELSE clients[u].chan[x]
  BY <1>1, <1>2, DestroyRccEffect
<1>4. r.listed = clients[u].listed
  BY <1>3 DEF Only, Fields
<1>5. r.disconnecting = clients[u].disconnecting
  BY <1>3 DEF Only, Fields
<1>6. r.kind = clients[u].kind
  BY <1>3 DEF Only, Fields
<1>7. r.during = clients[u].during
  BY <1>3 DEF Only, Fields
<1>8. Main \in ToSet(main.walk) => Main = Victim \/ Main \in ToSet(main'.walk)
  <2>1. /\ \A i \in DOMAIN main.walk : i # 1 => i - 1 \in DOMAIN main'.walk
        /\ \A i \in DOMAIN main'.walk : /\ i + 1 \in DOMAIN main.walk
                                        /\ main'.walk[i] = main.walk[i + 1]
        /\ Victim = main.walk[1] /\ main.walk \in Seq(Chans)
    BY <1>1, BusyMain, DestroyRccEffect
  <2>2. ASSUME NEW i \in DOMAIN main.walk, main.walk[i] = Main, i # 1
        PROVE  Main \in ToSet(main'.walk)
    <3>1. i - 1 \in DOMAIN main'.walk /\ i \in Int
      BY <2>1, <2>2
    <3>2. main'.walk[i - 1] = main.walk[(i - 1) + 1] /\ (i - 1) + 1 = i
      BY <2>1, <3>1
    <3> QED
      BY <2>2, <3>1, <3>2 DEF ToSet
  <2> QED
    BY <2>1, <2>2 DEF ToSet
<1>9. /\ ListedOf(clients[u], u, mig, Len(clients), main)
      /\ KindOf(clients[u], u, mig, dst, mode.kinds) /\ SeamlessBy(dst, Ids, mig)
  BY DEF ArriveInv
<1>10. r.chan[Main] = IF Main = Victim THEN "gone" ELSE clients[u].chan[Main]
  BY <1>3 DEF Chans
<1>11. ListedOf(r, u, mig', Len(clients), main')
  BY <1>1, <1>2, <1>4, <1>5, <1>8, <1>9, <1>10 DEF ListedOf, Walked
<1>12. KindOf(r, u, mig', dst', mode.kinds)
  BY <1>1, <1>4, <1>6, <1>7, <1>9 DEF KindOf
<1>13. SeamlessBy(dst', Ids, mig')
  BY <1>1, <1>9 DEF SeamlessBy
<1>14. \A d \in Ids \ {u} : (d \in mig' <=> d \in mig) /\ ~Walked(d, main)
  BY <1>1, <1>2 DEF Walked
<1> QED
  BY <1>1, <1>3, <1>11, <1>12, <1>13, <1>14, ArriveFrame

\* While a client is destroyed none is in the list.
LEMMA NoneListed ==
  ASSUME ArriveInv, main # Idle, NEW d \in Ids
  PROVE  ~clients[d].listed
BY DEF ArriveInv, ListedOf

\* The end of red_client_destroy.
LEMMA ArriveDestroyEnd ==
  ASSUME RccInv, ArriveInv, DestroyEnd
  PROVE  ArriveInv'
<1>1. TypeInv /\ main # Idle /\ main.walk = <<>> /\ main' = Idle /\ UNCHANGED <<mode, dst>>
  BY DEF RccInv, DestroyEnd
<1>2. PICK c \in Ids : c = main.client
  BY <1>1, BusyMain
<1>3. \A d \in Ids : ~clients[d].listed /\ ~Walked(d, main)
  BY <1>1, NoneListed DEF Walked, ToSet
<1>4. CASE clients' = [clients EXCEPT ![main.client] = Unref(@, 2)] /\ UNCHANGED mig
  <2>1. PICK cls : cls = clients' /\ Releases(cls, 2)
    BY <1>4 DEF Releases
  <2>2. PICK r \in Client : /\ cls = [clients EXCEPT ![c] = r] /\ RingOf(r)
                            /\ r = Unref(clients[c], 2)
    BY <1>1, <1>2, <2>1, Released
  <2>3. Becomes(c, r) /\ clients[c] \in Client
    BY <1>1, <2>1, <2>2, Known DEF Becomes
  <2>4. Only(r, clients[c], {"refs", "freed"})
    BY <2>2, <2>3, UnrefEffect
  <2>5. r.chan = clients[c].chan
    BY <2>4 DEF Only, Fields
  <2>6. r.listed = clients[c].listed
    BY <2>4 DEF Only, Fields
  <2>7. r.disconnecting = clients[c].disconnecting
    BY <2>4 DEF Only, Fields
  <2>8. r.kind = clients[c].kind
    BY <2>4 DEF Only, Fields
  <2>9. r.during = clients[c].during
    BY <2>4 DEF Only, Fields
  <2>10. /\ ListedOf(clients[c], c, mig, Len(clients), main)
         /\ KindOf(clients[c], c, mig, dst, mode.kinds) /\ SeamlessBy(dst, Ids, mig)
    BY DEF ArriveInv
  <2>11. ListedOf(r, c, mig', Len(clients), main')
    BY <1>3, <1>4, <2>5, <2>6, <2>7, <2>10 DEF ListedOf
  <2>12. KindOf(r, c, mig', dst', mode.kinds)
    BY <1>1, <1>4, <2>6, <2>8, <2>9, <2>10 DEF KindOf
  <2>13. SeamlessBy(dst', Ids, mig')
    BY <1>1, <1>4, <2>10 DEF SeamlessBy
  <2> QED
    BY <1>1, <1>3, <1>4, <2>3, <2>11, <2>12, <2>13, ArriveFrame
<1>5. CASE main.then = "link" /\ Admit([clients EXCEPT ![main.client] = Unref(@, 1)])
  <2>1. PICK cls : Releases(cls, 1) /\ Admit(cls)
    BY <1>5 DEF Releases
  <2>2. /\ cls \in Seq(Client) /\ Len(cls) = Len(clients)
    BY <1>1, <2>1, Released
  <2>3. \A d \in Ids \ {c} : cls[d] = clients[d]
    BY <1>1, <1>2, <2>1, Released
  <2>4. cls[c] = Unref(clients[c], 1)
    BY <1>1, <1>2, <2>1, Released
  <2>5. Only(cls[c], clients[c], {"refs", "freed"})
    <3>1. clients[c] \in Client
      BY <1>1, Known
    <3> QED
      BY <2>4, <3>1, UnrefEffect
  <2>6. \A d \in Ids : Only(cls[d], clients[d], {"refs", "freed"})
    BY <2>3, <2>5 DEF Only
  <2>7. Len(clients) < Len(mode.kinds)
    BY <1>1, <1>5 DEF TypeInv, ThreadInv, Busy
  <2> QED
    BY <1>1, <1>3, <2>1, <2>2, <2>6, <2>7, ArriveAdmit
<1> QED
  BY <1>4, <1>5 DEF DestroyEnd

\* The actions of the main thread.
LEMMA ArriveMain ==
  ASSUME RccInv, ArriveInv, MainLink \/ MainHandle \/ AskDisconnect \/ DestroyRcc \/ DestroyEnd
  PROVE  ArriveInv'
<1>1. TypeInv
  BY DEF RccInv
<1>2. CASE MainLink
  <2>1. CASE \E c \in Ids : clients[c].listed /\ Disconnect(c, "link")
    BY <1>1, <1>2, <2>1, ArriveDisconnect DEF MainLink
  <2>2. CASE Admit(clients) /\ UNCHANGED main /\ \A c \in Ids : ~clients[c].listed
    <3>1. clients \in Seq(Client)
      BY <1>1 DEF TypeInv, ClientInv
    <3>2. \A d \in Ids : Only(clients[d], clients[d], {"refs", "freed"})
      BY DEF Only
    <3> QED
      BY <1>1, <1>2, <2>2, <3>1, <3>2, ArriveAdmit DEF MainLink
  <2> QED
    BY <1>2, <2>1, <2>2 DEF MainLink
<1>3. CASE MainHandle
  <2>1. PICK m : m = Head(mq)
    OBVIOUS
  <2>2. m.client \in Ids /\ main = Idle /\ UNCHANGED <<mode, dst>>
    BY <1>1, <1>3, <2>1, MainHandleEffect DEF MainHandle
  <2>3. CASE ~clients[m.client].disconnecting /\ Disconnect(m.client, "unref")
    <3>1. clients[m.client].listed
      BY <2>2, <2>3 DEF ArriveInv, ListedOf
    <3> QED
      BY <1>1, <2>2, <2>3, <3>1, ArriveDisconnect
  <2>4. CASE /\ UNCHANGED <<main, mig>>
             /\ \E q \in Client : \E r :
                   /\ Only(q, clients[m.client], {"completed"})
                   /\ r = Unref(q, 1) /\ Becomes(m.client, r)
    <3>1. PICK q, r : /\ q \in Client /\ Only(q, clients[m.client], {"completed"})
                      /\ r = Unref(q, 1) /\ Becomes(m.client, r)
      BY <2>4
    <3>2. r \in Client /\ Only(r, q, {"refs", "freed"})
      BY <3>1, UnrefEffect
    <3>3. Only(r, clients[m.client], {"refs", "freed", "completed"})
      BY <3>1, <3>2 DEF Only, Fields
    <3>4. r.chan = clients[m.client].chan
      BY <3>3 DEF Only, Fields
    <3>5. r.during = clients[m.client].during
      BY <3>3 DEF Only, Fields
    <3>6. MainKept(r, clients[m.client]) /\ SameWalk
      BY <2>4, <3>4 DEF MainKept, SameWalk
    <3> QED
      BY <1>1, <2>2, <2>4, <3>1, <3>2, <3>3, <3>5, <3>6, ArriveKept
  <2> QED
    BY <1>1, <1>3, <2>1, <2>3, <2>4, MainHandleEffect
<1>4. CASE AskDisconnect
  <2>1. SameWalk
    BY <1>1, <1>4, AskEffect DEF SameWalk, AskDisconnect
  <2> QED
    BY <1>4, <2>1, ArriveStill DEF AskDisconnect
<1> QED
  BY <1>2, <1>3, <1>4, ArriveDestroyRcc, ArriveDestroyEnd

\* Channels are linked.
LEMMA ArriveLinks ==
  ASSUME TypeInv, NEW c \in Ids, NEW q, NEW S, Links(c, q, S),
         NEW F, Only(q, clients[c], F), F \cap {"listed", "disconnecting", "chan", "kind"} = {}
  PROVE  \E r \in Client : /\ Becomes(c, r)
                           /\ Only(r, clients[c], F \cup {"ring", "chan", "waits", "migrated"})
                           /\ MainKept(r, clients[c]) /\ r.during = q.during
<1>1. PICK r \in Client : Becomes(c, r) /\ RingOf(r) /\ Creates(r, q, S) /\ S \subseteq Chans \ {Main}
  BY DEF Links
<1>2. q.chan = clients[c].chan
  BY DEF Only, Fields
<1>3. r.during = q.during
  BY <1>1 DEF Creates, Only, Fields
<1>4. r.chan[Main] = q.chan[Main]
  BY <1>1 DEF Creates, Made, Chans
<1>5. Only(r, clients[c], F \cup {"ring", "chan", "waits", "migrated"})
  BY <1>1 DEF Creates, Only
<1> QED
  BY <1>1, <1>2, <1>3, <1>4, <1>5 DEF MainKept

\* The steps of a migration on the main channel.
LEMMA ArriveClient ==
  ASSUME RccInv, CountInv, ArriveInv, NEW c \in Ids, DstDoSeamless(c) \/ MigrateEnd(c) \/ Migrate(c)
  PROVE  ArriveInv'
<1>1. TypeInv /\ UNCHANGED <<mode, main>> /\ main = Idle /\ SameWalk
  BY DEF RccInv, DstDoSeamless, MigrateEnd, Migrate, SameWalk
<1>2. /\ ListedOf(clients[c], c, mig, Len(clients), main) /\ MigOf(clients[c], c, mig)
      /\ KindOf(clients[c], c, mig, dst, mode.kinds) /\ SeamlessBy(dst, Ids, mig)
  BY DEF ArriveInv, CountInv
<1>3. CASE DstDoSeamless(c)
  <2>1. c \in mig /\ clients[c].kind = "seamless" /\ clients[c].listed
    BY <1>2, <1>3 DEF DstDoSeamless, ListedOf
  <2>2. mode.kinds[c] = "seamless"
    BY <1>2, <2>1 DEF KindOf
  <2>3. PICK W : W = ToSet(clients[c].ring) \cap NeedData
    OBVIOUS
  <2>4. CASE /\ \E q : /\ Only(q, clients[c], {"pending", "seamless", "waits", "migrated"})
                       /\ Links(c, q, ToSet(clients[c].pending) \ Remote)
             /\ mig' = mig \ {c} /\ dst'
    <3>1. PICK q : /\ Only(q, clients[c], {"pending", "seamless", "waits", "migrated"})
                   /\ Links(c, q, ToSet(clients[c].pending) \ Remote)
      BY <2>4
    <3>2. PICK r \in Client :
              /\ Becomes(c, r) /\ MainKept(r, clients[c]) /\ r.during = q.during
              /\ Only(r, clients[c], {"pending", "seamless", "waits", "migrated"}
                                        \cup {"ring", "chan", "waits", "migrated"})
      BY <1>1, <3>1, ArriveLinks
    <3>3. r.listed = clients[c].listed
      BY <3>2 DEF Only, Fields
    <3>4. r.disconnecting = clients[c].disconnecting
      BY <3>2 DEF Only, Fields
    <3>5. r.kind = clients[c].kind
      BY <3>2 DEF Only, Fields
    <3>6. r.during = clients[c].during
      BY <3>1, <3>2 DEF Only, Fields
    <3>7. ListedOf(r, c, mig', Len(clients), main')
      BY <1>1, <1>2, <2>1, <3>2, <3>3, <3>4 DEF ListedOf, MainKept
    <3>8. KindOf(r, c, mig', dst', mode.kinds)
      BY <1>2, <2>4, <3>5, <3>6 DEF KindOf
    <3>9. SeamlessBy(dst', Ids, mig')
      BY <2>2, <2>4 DEF SeamlessBy
    <3>10. \A d \in Ids \ {c} : d \in mig' <=> d \in mig
      BY <2>4
    <3> QED
      BY <1>1, <2>1, <3>2, <3>7, <3>8, <3>9, <3>10, ArriveFrame
  <2>5. CASE /\ \E r \in Client : /\ Becomes(c, r)
                                  /\ Only(r, clients[c], {"kind"}) /\ r.kind = "semi"
             /\ UNCHANGED <<wq, mig>> /\ ~dst'
    <3>1. PICK r \in Client : Becomes(c, r) /\ Only(r, clients[c], {"kind"}) /\ r.kind = "semi"
      BY <2>5
    <3>2. r.chan = clients[c].chan
      BY <3>1 DEF Only, Fields
    <3>3. r.listed = clients[c].listed
      BY <3>1 DEF Only, Fields
    <3>4. r.disconnecting = clients[c].disconnecting
      BY <3>1 DEF Only, Fields
    <3>5. r.during = clients[c].during
      BY <3>1 DEF Only, Fields
    <3>6. ListedOf(r, c, mig', Len(clients), main')
      BY <1>1, <1>2, <2>5, <3>2, <3>3, <3>4 DEF ListedOf
    <3>7. KindOf(r, c, mig', dst', mode.kinds)
      BY <1>2, <2>1, <2>5, <3>1, <3>5 DEF KindOf
    <3>8. SeamlessBy(dst', Ids, mig')
      BY <2>5 DEF SeamlessBy
    <3> QED
      BY <1>1, <2>1, <2>5, <3>1, <3>6, <3>7, <3>8, ArriveFrame
  <2> QED
    BY <1>1, <1>3, <2>3, <2>4, <2>5, DstDoSeamlessEffect
<1>4. CASE MigrateEnd(c)
  <2>1. PICK q : /\ Only(q, clients[c], {"pending", "during"}) /\ ~q.during
                 /\ Links(c, q, ToSet(clients[c].pending) \ Remote)
    BY <1>1, <1>4, MigrateEndEffect
  <2>2. mig' = mig \ {c} /\ UNCHANGED dst
    BY <1>1, <1>4, MigrateEndEffect DEF MigrateEnd
  <2>3. PICK r \in Client :
            /\ Becomes(c, r) /\ MainKept(r, clients[c]) /\ r.during = q.during
            /\ Only(r, clients[c], {"pending", "during"} \cup {"ring", "chan", "waits", "migrated"})
    BY <1>1, <2>1, ArriveLinks
  <2>4. r.listed = clients[c].listed
    BY <2>3 DEF Only, Fields
  <2>5. r.disconnecting = clients[c].disconnecting
    BY <2>3 DEF Only, Fields
  <2>6. r.kind = clients[c].kind
    BY <2>3 DEF Only, Fields
  <2>7. ListedOf(r, c, mig', Len(clients), main')
    BY <1>1, <1>2, <2>2, <2>3, <2>4, <2>5 DEF ListedOf, MainKept
  <2>8. KindOf(r, c, mig', dst', mode.kinds)
    BY <1>2, <2>1, <2>3, <2>6 DEF KindOf
  <2>9. SeamlessBy(dst', Ids, mig')
    BY <1>2, <2>2 DEF SeamlessBy
  <2>10. \A d \in Ids \ {c} : d \in mig' <=> d \in mig
    BY <2>2
  <2> QED
    BY <1>1, <2>2, <2>3, <2>7, <2>8, <2>9, <2>10, ArriveFrame
<1>5. CASE Migrate(c)
  <2>1. PICK r \in Client : Becomes(c, r) /\ RingOf(r) /\ Only(r, clients[c], {"left"})
    BY <1>1, <1>5, MigrateEffect
  <2>2. r.chan = clients[c].chan
    BY <2>1 DEF Only, Fields
  <2>3. r.during = clients[c].during
    BY <2>1 DEF Only, Fields
  <2>4. MainKept(r, clients[c]) /\ UNCHANGED <<mode, mig, dst>>
    BY <1>5, <2>2 DEF MainKept, Migrate
  <2> QED
    BY <1>1, <2>1, <2>3, <2>4, ArriveKept
<1> QED
  BY <1>3, <1>4, <1>5

\* A connection is lost.
LEMMA ArriveDrop ==
  ASSUME TypeInv, ArriveInv, NEW c \in Ids, NEW q \in Client, RingOf(q),
         Only(q, clients[c], {"sent", "unexpected"}),
         NEW ch \in Chans, clients[c].chan[ch] = "on", Drop(c, q, ch),
         UNCHANGED <<mode, mig, dst, main>>
  PROVE  ArriveInv'
<1>1. q.chan = clients[c].chan
  BY DEF Only, Fields
<1>2. PICK r \in Client :
            /\ Becomes(c, r) /\ RingOf(r) /\ Only(r, q, {"chan", "refs"})
            /\ \A x \in Chans : r.chan[x] = IF x = ch THEN "off" ELSE q.chan[x]
  BY <1>1, DropEffect
<1>3. Only(r, clients[c], {"sent", "unexpected", "chan", "refs"})
  BY <1>2 DEF Only, Fields
<1>4. r.during = clients[c].during
  BY <1>3 DEF Only, Fields
<1>5. MainKept(r, clients[c]) /\ SameWalk
  BY <1>1, <1>2 DEF MainKept, SameWalk, Chans
<1> QED
  BY <1>2, <1>3, <1>4, <1>5, ArriveKept

\* The actions on one channel.
LEMMA ArriveChannel ==
  ASSUME RccInv, ArriveInv, NEW c \in Ids, NEW ch \in Chans,
         \/ ch \in mode.chans /\ (OtherLink(c, ch) \/ Latency(c, ch))
         \/ MigrateData(c, ch) \/ Lose(c, ch)
  PROVE  ArriveInv'
<1>1. TypeInv /\ UNCHANGED <<mode, mig, dst, main>>
  BY DEF RccInv, OtherLink, Latency, MigrateData, Lose
<1>2. SameWalk
  BY <1>1 DEF SameWalk
<1>3. CASE ch \in mode.chans /\ OtherLink(c, ch)
  <2>1. PICK q, S : Only(q, clients[c], {"links", "pending"}) /\ Links(c, q, S)
    BY <1>1, <1>3, OtherLinkEffect
  <2>2. PICK r \in Client :
            /\ Becomes(c, r) /\ MainKept(r, clients[c]) /\ r.during = q.during
            /\ Only(r, clients[c], {"links", "pending"} \cup {"ring", "chan", "waits", "migrated"})
    BY <1>1, <2>1, ArriveLinks
  <2>3. r.during = clients[c].during
    BY <2>1, <2>2 DEF Only, Fields
  <2> QED
    BY <1>1, <1>2, <2>2, <2>3, ArriveKept
<1>4. CASE Latency(c, ch)
  BY <1>1, <1>2, <1>4, ArriveStill DEF Latency
<1>5. CASE MigrateData(c, ch)
  <2>1. clients[c].chan[ch] = "on"
    BY <1>5 DEF MigrateData
  <2>2. CASE \E r : Becomes(c, r) /\ DataArrives(c, ch, r)
    <3>1. PICK r : Becomes(c, r) /\ DataArrives(c, ch, r)
      BY <2>2
    <3>2. r \in Client
      BY <3>1 DEF DataArrives
    <3>3. Only(r, clients[c], {"sent", "waits", "migrated", "during", "seamless", "completed"})
      BY <3>1 DEF DataArrives, Only
    <3>4. r.during => clients[c].during
      BY <3>1 DEF DataArrives, Only, Fields
    <3>5. r.chan = clients[c].chan
      BY <3>3 DEF Only, Fields
    <3>6. MainKept(r, clients[c])
      BY <3>5 DEF MainKept
    <3> QED
      BY <1>1, <1>2, <3>1, <3>2, <3>3, <3>4, <3>6, ArriveKept
  <2>3. CASE \E q \in Client : /\ RingOf(q) /\ Only(q, clients[c], {"sent", "unexpected"})
                               /\ Drop(c, q, ch)
    BY <1>1, <2>1, <2>3, ArriveDrop
  <2> QED
    BY <1>1, <1>5, <2>2, <2>3, MigrateDataEffect
<1>6. CASE Lose(c, ch)
  <2>1. Only(clients[c], clients[c], {"sent", "unexpected"})
    BY DEF Only
  <2>2. clients[c] \in Client /\ RingOf(clients[c])
    BY <1>1, Known
  <2> QED
    BY <1>1, <1>6, <2>1, <2>2, ArriveDrop DEF Lose
<1> QED
  BY <1>3, <1>4, <1>5, <1>6

\* The actions of a worker.
LEMMA ArriveWorker ==
  ASSUME RccInv, ArriveInv, NEW w \in Workers, WorkerRef(w) \/ WorkerPost(w) \/ WorkerHandle(w)
  PROVE  ArriveInv'
<1>1. TypeInv /\ UNCHANGED <<mode, mig, dst>>
  BY DEF RccInv, WorkerRef, WorkerPost, WorkerHandle
<1>2. CASE WorkerRef(w)
  <2>1. PICK c \in Ids : c = worker[w].client
    BY <1>1, <1>2, IdleWorker DEF WorkerRef
  <2>2. PICK r \in Client : Becomes(c, r) /\ RingOf(r) /\ Only(r, clients[c], {"refs"})
    BY <1>1, <1>2, <2>1, WorkerRefEffect
  <2>3. r.chan = clients[c].chan
    BY <2>2 DEF Only, Fields
  <2>4. r.during = clients[c].during
    BY <2>2 DEF Only, Fields
  <2>5. MainKept(r, clients[c]) /\ SameWalk
    BY <1>2, <2>3 DEF MainKept, SameWalk, WorkerRef
  <2> QED
    BY <1>1, <2>2, <2>4, <2>5, ArriveKept
<1>3. CASE WorkerPost(w)
  <2>1. SameWalk /\ UNCHANGED clients
    BY <1>3 DEF WorkerPost, SameWalk
  <2> QED
    BY <1>1, <2>1, ArriveStill
<1>4. CASE WorkerHandle(w)
  <2>1. wq[w] # <<>> /\ wq' = [wq EXCEPT ![w] = Tail(@)] /\ Handle(w, Head(wq[w]))
    BY <1>4 DEF WorkerHandle
  <2>2. PICK m \in Requests : /\ m = Head(wq[w]) /\ m = wq[w][1] /\ m.client \in Ids
                              /\ m.chan \in Remote /\ m.chan \in Chans /\ 1 \in DOMAIN wq[w]
    BY <2>1, WorkerHead
  <2>3. CASE m.type = "connect"
    <3>1. Becomes(m.client, Create(clients[m.client], <<m.chan>>)) /\ UNCHANGED main
      BY <2>1, <2>2, <2>3 DEF Handle, Becomes
    <3>2. Links(m.client, clients[m.client], {m.chan})
      BY <1>1, <2>2, <3>1, ConnectEffect
    <3>3. Only(clients[m.client], clients[m.client], {"links"})
      BY DEF Only
    <3>4. PICK c \in Ids, cl \in Client, ch \in Chans : c = m.client /\ cl = clients[c] /\ ch = m.chan
      BY <1>1, <2>2, Known
    <3>5. Links(c, cl, {ch}) /\ Only(cl, cl, {"links"}) /\ cl = clients[c]
      BY <3>2, <3>3, <3>4
    <3>6. PICK r \in Client :
              /\ Becomes(c, r) /\ MainKept(r, cl) /\ r.during = cl.during
              /\ Only(r, cl, {"links"} \cup {"ring", "chan", "waits", "migrated"})
      BY <1>1, <3>5, ArriveLinks
    <3>7. SameWalk
      BY <3>1 DEF SameWalk
    <3> QED
      BY <1>1, <3>5, <3>6, <3>7, ArriveKept
  <2>4. CASE m.type = "migrate"
    <3>1. UNCHANGED clients /\ SameWalk
      BY <2>1, <2>2, <2>4 DEF Handle, SameWalk
    <3> QED
      BY <1>1, <3>1, ArriveStill
  <2>5. CASE m.type = "disconnect"
    <3>1. /\ clients' = [clients EXCEPT ![m.client].chan[m.chan] = "off"]
          /\ main' = [main EXCEPT !.step = "acked"]
      BY <2>1, <2>2, <2>5 DEF Handle
    <3>2. Alive(m.client, m.chan) /\ main # Idle
      BY <2>2, <2>5 DEF RccInv, AliveInv, AskInv, Busy
    <3>3. PICK r \in Client : /\ Becomes(m.client, r) /\ RingOf(r)
                              /\ Only(r, clients[m.client], {"chan"})
                              /\ \A x \in Chans : r.chan[x] = IF x = m.chan THEN "off"
                                                              ELSE clients[m.client].chan[x]
      BY <1>1, <2>2, <3>1, <3>2, DisconnectedEffect, ZenonT(30)
    <3>4. r.during = clients[m.client].during
      BY <3>3 DEF Only, Fields
    <3>5. Main \in Chans /\ Main # m.chan
      BY <2>2, ClientAssumption DEF Chans
    <3>6. MainKept(r, clients[m.client])
      BY <3>3, <3>5 DEF MainKept
    <3>7. SameWalk
      BY <1>1, <3>1, <3>2, AckEffect DEF SameWalk, Busy
    <3> QED
      BY <1>1, <2>2, <3>3, <3>4, <3>6, <3>7, ArriveKept
  <2> QED
    BY <2>2, <2>3, <2>4, <2>5 DEF Requests
<1> QED
  BY <1>2, <1>3, <1>4

\* ArriveInv is inductive.
LEMMA ArriveNext == RccInv /\ CountInv /\ ArriveInv /\ [Next]_vars => ArriveInv'
<1> SUFFICES ASSUME RccInv, CountInv, ArriveInv, [Next]_vars PROVE ArriveInv'
  OBVIOUS
<1>1. {Main} \cup mode.chans \subseteq Chans
  BY ChansOf DEF RccInv
<1>2. CASE MainLink \/ MainHandle \/ AskDisconnect \/ DestroyRcc \/ DestroyEnd
  BY <1>2, ArriveMain
<1>3. CASE \E c \in Ids : DstDoSeamless(c) \/ MigrateEnd(c) \/ Migrate(c)
  BY <1>3, ArriveClient
<1>4. CASE \E c \in Ids : \E ch \in mode.chans : OtherLink(c, ch) \/ Latency(c, ch)
  <2>1. PICK c \in Ids, ch \in Chans : ch \in mode.chans /\ (OtherLink(c, ch) \/ Latency(c, ch))
    BY <1>1, <1>4
  <2> QED
    BY <2>1, ArriveChannel
<1>5. CASE \E c \in Ids : \E ch \in {Main} \cup mode.chans : MigrateData(c, ch) \/ Lose(c, ch)
  <2>1. PICK c \in Ids, ch \in Chans : MigrateData(c, ch) \/ Lose(c, ch)
    BY <1>1, <1>5
  <2> QED
    BY <2>1, ArriveChannel
<1>6. CASE \E w \in Workers : WorkerRef(w) \/ WorkerPost(w) \/ WorkerHandle(w)
  BY <1>6, ArriveWorker
<1>7. CASE UNCHANGED vars
  <2>1. UNCHANGED <<mode, clients, mig, dst>> /\ SameWalk
    BY <1>7 DEF vars, SameWalk
  <2> QED
    BY <2>1, ArriveStill
<1> QED
  BY <1>2, <1>3, <1>4, <1>5, <1>6, <1>7 DEF Next

\* The assertion of reds_handle_other_links: the links of a client wait exactly as long as it
\* is in mig_target_clients.
LEMMA LinkWaits ==
  ASSUME TypeInv, CountInv, ArriveInv, SeamlessLast, NEW c \in Ids,
         main = Idle, clients[c].chan[Main] = "on"
  PROVE  clients[c].during /\ ~dst <=> c \in mig
<1>1. /\ ListedOf(clients[c], c, mig, Len(clients), main) /\ MigOf(clients[c], c, mig)
      /\ KindOf(clients[c], c, mig, dst, mode.kinds) /\ SeamlessBy(dst, Ids, mig)
  BY DEF ArriveInv, CountInv
<1>2. clients[c].listed /\ c = Len(clients)
  BY <1>1 DEF ListedOf, Walked
<1>3. ASSUME c \in mig, dst PROVE FALSE
  <2>1. PICK i \in Ids : mode.kinds[i] = "seamless" /\ i \notin mig
    BY <1>1, <1>3 DEF SeamlessBy
  <2>2. i < c /\ i \in DOMAIN mode.kinds /\ c \in DOMAIN mode.kinds
    <3>1. Ids = 1 .. Len(clients) /\ Len(clients) \in Nat /\ mode.kinds \in Seq(Kinds)
      BY Known
    <3>2. Len(clients) <= Len(mode.kinds)
      BY DEF TypeInv, ClientInv
    <3> QED
      BY <1>2, <1>3, <2>1, <3>1, <3>2
  <2>3. mode.kinds[c] = "fresh"
    BY <2>1, <2>2 DEF SeamlessLast
  <2> QED
    BY <1>1, <1>3, <2>3 DEF MigOf, KindOf
<1> QED
  BY <1>1, <1>2, <1>3 DEF MigOf, KindOf

\* No assertion fails.
LEMMA AbortNext ==
  ASSUME RccInv, CountInv, ArriveInv, SeamlessLast, ~aborted, [Next]_vars
  PROVE  ~aborted'
<1>1. TypeInv
  BY DEF RccInv
<1>2. ASSUME NEW c \in Ids, NEW ch, OtherLink(c, ch) PROVE ~aborted'
  <2>1. main = Idle /\ clients[c].chan[Main] = "on"
    BY <1>2 DEF OtherLink
  <2>2. clients[c].during /\ ~dst <=> c \in mig
    BY <1>1, <2>1, LinkWaits
  <2>3. clients[c] \in Client /\ dst \in BOOLEAN
    BY <1>1, Known, Flags
  <2>4. (clients[c].during /\ ~dst) = (c \in mig)
    BY <2>2, <2>3 DEF Client
  <2> QED
    BY <1>2, <2>4 DEF OtherLink
<1>3. ASSUME NEW c \in Ids, DstDoSeamless(c) PROVE ~aborted'
  <2>1. c \in mig /\ MigOf(clients[c], c, mig)
    BY <1>3 DEF DstDoSeamless, CountInv
  <2> QED
    BY <1>3, <2>1 DEF DstDoSeamless, MigOf
<1>4. ASSUME NEW c \in Ids, MigrateEnd(c) PROVE ~aborted'
  <2>1. clients[c].kind = "semi" /\ MigOf(clients[c], c, mig)
    BY <1>4 DEF MigrateEnd, CountInv
  <2> QED
    BY <1>4, <2>1 DEF MigrateEnd, MigOf
<1>5. ASSUME DestroyRcc PROVE ~aborted'
  <2>1. Victim \in Remote => main.step = "acked"
    BY <1>5 DEF DestroyRcc, Victim
  <2>2. Victim \in Remote => clients[main.client].chan[Victim] = "off"
    BY <1>5, <2>1 DEF DestroyRcc, RccInv, AskInv, Busy
  <2> QED
    BY <1>5, <2>2 DEF DestroyRcc, Victim
<1>6. CASE UNCHANGED aborted
  BY <1>6
<1> QED
  BY <1>2, <1>3, <1>4, <1>5, <1>6
     DEF Next, vars, MainLink, MainHandle, AskDisconnect, DestroyEnd, Migrate, Latency,
         MigrateData, Lose, WorkerRef, WorkerPost, WorkerHandle

\* All that the assertions need.
AssertInv == RccInv /\ CountInv /\ ArriveInv /\ (SeamlessLast => ~aborted)

\* It holds at the start, and a step keeps it.
LEMMA AssertInit == Init => AssertInv
<1> SUFFICES ASSUME Init PROVE AssertInv
  OBVIOUS
<1>1. RccInv
  BY RccInit
<1>2. Ids = {} /\ ~dst /\ ~aborted
  BY DEF Init, Ids
<1>3. CountInv /\ ArriveInv
  BY <1>2 DEF CountInv, ArriveInv, SeamlessBy
<1> QED
  BY <1>1, <1>2, <1>3 DEF AssertInv

\* AssertInv is inductive.
LEMMA AssertNext == AssertInv /\ [Next]_vars => AssertInv'
<1> SUFFICES ASSUME AssertInv, [Next]_vars PROVE AssertInv'
  OBVIOUS
<1>1. RccInv /\ CountInv /\ ArriveInv /\ (SeamlessLast => ~aborted)
  BY DEF AssertInv
<1>2. RccInv'
  BY <1>1, RccNext
<1>3. CountInv'
  BY <1>1, CountNext
<1>4. ArriveInv'
  BY <1>1, ArriveNext
<1>5. SeamlessLast' => SeamlessLast
  BY ModeKept DEF SeamlessLast
<1>6. SeamlessLast => ~aborted'
  BY <1>1, AbortNext
<1> QED
  BY <1>2, <1>3, <1>4, <1>5, <1>6 DEF AssertInv

\* The assertions of reds_handle_other_links, red_client_destroy and
\* red_channel_client_set_migration_seamless hold, and red_client_semi_seamless_migrate_complete
\* meets no seamless client, however the threads interleave and however late a worker is,
\* as long as no client migrates after the target of a seamless migration.
THEOREM AssertionsHold == Spec => [](SeamlessLast => NeverAborts)
<1>1. AssertInv => (SeamlessLast => NeverAborts)
  BY DEF AssertInv, NeverAborts
<1> QED
  BY <1>1, AssertInit, AssertNext, PTL DEF Spec

-----------------------------------------------------------------------------
(* The data of the source finds the channel waiting. *)

\* A CONNECT for channel ch of client c is in the queues q.
Asked(q, c, ch) ==
    \E w \in Workers : \E i \in DOMAIN q[w] :
        q[w][i].type = "connect" /\ q[w][i].client = c /\ q[w][i].chan = ch

\* The target of a seamless migration before the handshake is over, where M is
\* mig_target_clients and q are the queues: it has its main channel only, and its links
\* are pending.  If it leaves the list now it stays like this.
BeforeOf(cl, c, M, q) ==
    /\ ~cl.seamless /\ cl.during /\ cl.sent = {} /\ (c \in M \/ ~cl.listed)
    /\ \A ch \in Chans : ~Asked(q, c, ch) /\ (ch # Main => cl.chan[ch] = "none")
    /\ cl.listed => \A ch \in Chans : cl.links[ch] > 0 => ch \in ToSet(cl.pending)

\* And afterwards: a connected channel that has not had its data waits for it.  None can
\* be created any more once the first data has come, for the client has linked them all.
AfterOf(cl, c, M, q) ==
    /\ c \notin M /\ (cl.sent = {} => cl.during /\ cl.seamless)
    /\ \A ch \in NeedData : cl.chan[ch] = "on" /\ ch \notin cl.sent => ch \in cl.waits
    /\ \A ch \in Chans : cl.links[ch] > 0 /\ cl.chan[ch] = "none" => Asked(q, c, ch)
    /\ cl.sent # {} =>
          \A ch \in Chans : ch \in mode.chans \/ Asked(q, c, ch) => cl.chan[ch] # "none"

DataOf(cl, c, M, q) ==
    /\ ~cl.unexpected
    /\ cl.kind = "seamless" => BeforeOf(cl, c, M, q) \/ AfterOf(cl, c, M, q)

DataInv == \A c \in Ids : DataOf(clients[c], c, mig, wq)

\* How the queues move.
LEMMA AskedGrows ==
  ASSUME TypeInv, NEW t, NEW e, NEW S, NEW n, Grows(t, e, S, n), NEW d, NEW ch
  PROVE  /\ Asked(wq, d, ch) => Asked(wq', d, ch)
         /\ Asked(wq', d, ch) => Asked(wq, d, ch) \/ (t = "connect" /\ d = e /\ ch \in S)
<1>1. ASSUME Asked(wq, d, ch) PROVE Asked(wq', d, ch)
  <2>1. PICK v \in Workers : \E i \in DOMAIN wq[v] :
              wq[v][i].type = "connect" /\ wq[v][i].client = d /\ wq[v][i].chan = ch
    BY <1>1 DEF Asked
  <2>2. PICK i \in DOMAIN wq[v] :
              wq[v][i].type = "connect" /\ wq[v][i].client = d /\ wq[v][i].chan = ch
    BY <2>1
  <2>3. i \in DOMAIN wq'[v] /\ wq'[v][i] = wq[v][i]
    BY DEF Grows
  <2> QED
    BY <2>2, <2>3 DEF Asked
<1>2. ASSUME Asked(wq', d, ch), ~Asked(wq, d, ch) PROVE t = "connect" /\ d = e /\ ch \in S
  <2>1. PICK v \in Workers : \E i \in DOMAIN wq'[v] :
              wq'[v][i].type = "connect" /\ wq'[v][i].client = d /\ wq'[v][i].chan = ch
    BY <1>2 DEF Asked
  <2>2. PICK i \in DOMAIN wq'[v] :
              wq'[v][i].type = "connect" /\ wq'[v][i].client = d /\ wq'[v][i].chan = ch
    BY <2>1
  <2>3. CASE i \in DOMAIN wq[v]
    BY <1>2, <2>2, <2>3 DEF Grows, Asked
  <2>4. CASE i \notin DOMAIN wq[v]
    BY <2>2, <2>4 DEF Grows
  <2> QED
    BY <2>3, <2>4
<1> QED
  BY <1>1, <1>2

\* A worker reads a request.
LEMMA AskedShrinks ==
  ASSUME TypeInv, NEW w \in Workers, Shrinks(w), wq[w] # <<>>, NEW d, NEW ch
  PROVE  /\ Asked(wq', d, ch) => Asked(wq, d, ch)
         /\ Asked(wq, d, ch) => \/ Asked(wq', d, ch)
                                \/ /\ wq[w][1].type = "connect" /\ wq[w][1].client = d
                                   /\ wq[w][1].chan = ch
<1>1. ASSUME Asked(wq', d, ch) PROVE Asked(wq, d, ch)
  <2>1. PICK v \in Workers : \E i \in DOMAIN wq'[v] :
              wq'[v][i].type = "connect" /\ wq'[v][i].client = d /\ wq'[v][i].chan = ch
    BY <1>1 DEF Asked
  <2>2. PICK i \in DOMAIN wq'[v] :
              wq'[v][i].type = "connect" /\ wq'[v][i].client = d /\ wq'[v][i].chan = ch
    BY <2>1
  <2>3. CASE v = w
    BY <2>2, <2>3 DEF Shrinks, Asked
  <2>4. CASE v # w
    BY <2>2, <2>4 DEF Shrinks, Asked
  <2> QED
    BY <2>3, <2>4
<1>2. ASSUME Asked(wq, d, ch),
             ~(wq[w][1].type = "connect" /\ wq[w][1].client = d /\ wq[w][1].chan = ch)
      PROVE  Asked(wq', d, ch)
  <2>1. PICK v \in Workers : \E i \in DOMAIN wq[v] :
              wq[v][i].type = "connect" /\ wq[v][i].client = d /\ wq[v][i].chan = ch
    BY <1>2 DEF Asked
  <2>2. PICK i \in DOMAIN wq[v] :
              wq[v][i].type = "connect" /\ wq[v][i].client = d /\ wq[v][i].chan = ch
    BY <2>1
  <2>3. CASE v # w
    BY <2>2, <2>3 DEF Shrinks, Asked
  <2>4. CASE v = w
    <3>1. i # 1
      BY <1>2, <2>2, <2>4
    <3>2. wq[w] \in Seq(Requests) /\ wq'[w] \in Seq(Requests) /\ Len(wq'[w]) = Len(wq[w]) - 1
      BY DEF Shrinks, TypeInv, QueueInv
    <3>3. PICK j \in Nat : j = i - 1 /\ j \in DOMAIN wq'[w] /\ j + 1 = i
      BY <2>4, <3>1, <3>2
    <3>4. wq'[w][j] = wq[w][i]
      BY <3>3 DEF Shrinks
    <3> QED
      BY <2>2, <2>4, <3>3, <3>4 DEF Asked
  <2> QED
    BY <2>3, <2>4
<1> QED
  BY <1>1, <1>2

\* dispatcher_send_message: each worker has the requests for its channels.
LEMMA SentAsks ==
  ASSUME QueueInv, NEW c, NEW chs \in Seq(Chans), NEW ch \in Remote, ch \in ToSet(chs),
         wq' = Sent("connect", c, chs)
  PROVE  Asked(wq', c, ch)
<1>1. PICK w \in Workers : w = Worker[ch]
  BY DEF Workers
<1>2. PICK S : S = {x \in Remote : Worker[x] = w}
  OBVIOUS
<1>3. PICK mine \in Seq(Chans) : mine = Kept(chs, S)
  BY KeptElements
<1>4. ToSet(mine) = ToSet(chs) \cap S
  BY <1>3, KeptElements DEF ToSet, Range
<1>5. PICK k \in DOMAIN mine : mine[k] = ch
  BY <1>1, <1>2, <1>4 DEF ToSet
<1>6. PICK n \in Nat : n = Len(mine) /\ DOMAIN mine = 1 .. n
  BY <1>3
<1>7. PICK q : q = [i \in 1 .. n |-> Msg("connect", c, mine[i])]
  OBVIOUS
<1>8. PICK s \in Seq(Requests) : s = wq[w]
  BY DEF QueueInv
<1>9. wq'[w] = s \o q
  BY <1>2, <1>3, <1>6, <1>7, <1>8 DEF Sent
<1>10. PICK l \in Nat : l = Len(s)
  OBVIOUS
<1>11. PICK T : T = {Msg("connect", c, x) : x \in Chans} \cup Requests
  OBVIOUS
<1>12. q \in Seq(T) /\ Len(q) = n /\ s \in Seq(T)
  <2>1. \A i \in 1 .. n : q[i] \in T
    BY <1>3, <1>6, <1>7, <1>11
  <2>2. q \in Seq(T) /\ Len(q) = n
    BY <1>7, <2>1
  <2>3. Requests \subseteq T
    BY <1>11
  <2>4. s \in Seq(T)
    BY <2>3
  <2> QED
    BY <2>2, <2>4
<1>13. /\ Len(s \o q) = l + n /\ s \o q \in Seq(T)
       /\ \A i \in 1 .. l + n : (s \o q)[i] = IF i <= l THEN s[i] ELSE q[i - l]
  <2>1. /\ Len(s \o q) = Len(s) + Len(q)
        /\ \A i \in 1 .. Len(s) + Len(q) :
              (s \o q)[i] = IF i <= Len(s) THEN s[i] ELSE q[i - Len(s)]
    BY <1>12, Joined, Zenon
  <2>2. l = Len(s) /\ n = Len(q)
    BY <1>10, <1>12
  <2>3. s \o q \in Seq(T)
    BY <1>12, ConcatProperties
  <2> QED
    BY <2>1, <2>2, <2>3, Zenon
<1>14. PICK j \in 1 .. l + n : j = l + k /\ ~(j <= l) /\ j - l = k
  BY <1>5, <1>6
<1>15. (s \o q)[j] = Msg("connect", c, ch)
  BY <1>5, <1>6, <1>7, <1>13, <1>14
<1>16. j \in DOMAIN (s \o q)
  BY <1>13
<1>17. PICK m : m = Msg("connect", c, ch)
  OBVIOUS
<1>18. m.type = "connect" /\ m.client = c /\ m.chan = ch
  BY <1>17 DEF Msg
<1>19. j \in DOMAIN wq'[w] /\ wq'[w][j] = m
  BY <1>9, <1>15, <1>16, <1>17
<1> QED
  BY <1>18, <1>19 DEF Asked

\* One client changes, and no other is asked for or becomes a target.
LEMMA DataFrame ==
  ASSUME TypeInv, DataInv, UNCHANGED mode, NEW c \in Ids, NEW r \in Client, Becomes(c, r),
         \A d \in Ids \ {c} : d \in mig' <=> d \in mig,
         \A d \in Ids \ {c} : \A ch \in Chans : Asked(wq', d, ch) <=> Asked(wq, d, ch),
         DataOf(r, c, mig', wq')
  PROVE  DataInv'
<1>1. /\ Ids' = Ids /\ clients'[c] = r /\ \A d \in Ids \ {c} : clients'[d] = clients[d]
  BY OneChanged DEF TypeInv, ClientInv
<1>2. ASSUME NEW d \in Ids PROVE DataOf(clients'[d], d, mig', wq')
  <2>1. CASE d # c
    <3>1. DataOf(clients[d], d, mig, wq) /\ clients'[d] = clients[d]
      BY <1>1, <2>1 DEF DataInv
    <3>2. \A ch \in Chans : Asked(wq', d, ch) <=> Asked(wq, d, ch)
      BY <2>1
    <3>3. BeforeOf(clients[d], d, mig, wq) => BeforeOf(clients[d], d, mig', wq')
      BY <2>1, <3>2 DEF BeforeOf
    <3>4. AfterOf(clients[d], d, mig, wq) => AfterOf(clients[d], d, mig', wq')
      BY <2>1, <3>2 DEF AfterOf
    <3> QED
      BY <3>1, <3>3, <3>4 DEF DataOf
  <2> QED
    BY <1>1, <2>1
<1>3. \A d \in Ids' : DataOf(clients'[d], d, mig', wq')
  BY <1>1, <1>2
<1> QED
  BY <1>3 DEF DataInv, DataOf, BeforeOf, AfterOf, Asked

\* What the data is about stays in the client that changes.  It may leave the list.
SameData(r, cl) ==
    /\ r.kind = cl.kind /\ r.during = cl.during /\ r.seamless = cl.seamless
    /\ r.sent = cl.sent /\ r.waits = cl.waits /\ r.links = cl.links
    /\ r.unexpected = cl.unexpected
    /\ \A ch \in Chans : /\ r.chan[ch] = "none" <=> cl.chan[ch] = "none"
                         /\ r.chan[ch] = "on" => cl.chan[ch] = "on"
    /\ r.listed => cl.listed /\ r.pending = cl.pending

\* It does when the fields it is about are not among those that change.
LEMMA DataFields ==
  ASSUME NEW cl, NEW r, NEW F, Only(r, cl, F),
         F \cap {"kind", "during", "seamless", "sent", "waits", "links", "unexpected"} = {},
         \A ch \in Chans : /\ r.chan[ch] = "none" <=> cl.chan[ch] = "none"
                           /\ r.chan[ch] = "on" => cl.chan[ch] = "on",
         r.listed => r.listed = cl.listed /\ r.pending = cl.pending
  PROVE  SameData(r, cl)
<1>1. r.kind = cl.kind
  BY DEF Only, Fields
<1>2. r.during = cl.during
  BY DEF Only, Fields
<1>3. r.seamless = cl.seamless
  BY DEF Only, Fields
<1>4. r.sent = cl.sent /\ r.waits = cl.waits /\ r.links = cl.links
  BY DEF Only, Fields
<1>5. r.unexpected = cl.unexpected
  BY DEF Only, Fields
<1> QED
  BY <1>1, <1>2, <1>3, <1>4, <1>5 DEF SameData

\* What holds of the client holds of one with the same data.
LEMMA DataSame ==
  ASSUME NEW cl \in Client, NEW r \in Client, NEW c, NEW M, NEW N, NEW q, NEW p,
         DataOf(cl, c, M, q), SameData(r, cl),
         \A ch \in Chans : Asked(p, c, ch) <=> Asked(q, c, ch),
         c \in N => c \in M, c \in M => c \in N \/ ~r.listed
  PROVE  DataOf(r, c, N, p)
<1>1. /\ r.kind = cl.kind /\ r.during = cl.during /\ r.seamless = cl.seamless
      /\ r.sent = cl.sent /\ r.waits = cl.waits /\ r.links = cl.links
      /\ r.unexpected = cl.unexpected
  BY DEF SameData
<1>2. ASSUME NEW ch \in Chans
      PROVE  /\ r.chan[ch] = "none" <=> cl.chan[ch] = "none"
             /\ r.chan[ch] = "on" => cl.chan[ch] = "on"
             /\ Asked(p, c, ch) <=> Asked(q, c, ch)
  BY DEF SameData
<1>3. r.listed => cl.listed /\ r.pending = cl.pending
  BY DEF SameData
<1>4. ASSUME BeforeOf(cl, c, M, q) PROVE BeforeOf(r, c, N, p)
  <2>1. \A ch \in Chans : ~Asked(q, c, ch) /\ (ch # Main => cl.chan[ch] = "none")
    BY <1>4 DEF BeforeOf
  <2>2. \A ch \in Chans : ~Asked(p, c, ch) /\ (ch # Main => r.chan[ch] = "none")
    BY <1>2, <2>1
  <2>3. ~r.seamless /\ r.during /\ r.sent = {} /\ (c \in N \/ ~r.listed)
    BY <1>1, <1>3, <1>4 DEF BeforeOf
  <2>4. cl.listed => \A ch \in Chans : cl.links[ch] > 0 => ch \in ToSet(cl.pending)
    BY <1>4 DEF BeforeOf
  <2>5. r.listed => \A ch \in Chans : r.links[ch] > 0 => ch \in ToSet(r.pending)
    BY <1>1, <1>3, <2>4
  <2> QED
    BY <2>2, <2>3, <2>5 DEF BeforeOf
<1>5. ASSUME AfterOf(cl, c, M, q) PROVE AfterOf(r, c, N, p)
  <2>1. \A ch \in NeedData : r.chan[ch] = "on" /\ ch \notin r.sent => ch \in r.waits
    <3>1. \A ch \in NeedData : cl.chan[ch] = "on" /\ ch \notin cl.sent => ch \in cl.waits
      BY <1>5 DEF AfterOf
    <3>2. NeedData \subseteq Chans
      BY ClientAssumption
    <3> QED
      BY <1>1, <1>2, <3>1, <3>2
  <2>2. c \notin N /\ (r.sent = {} => r.during /\ r.seamless)
    BY <1>1, <1>5 DEF AfterOf
  <2>3. \A ch \in Chans : r.links[ch] > 0 /\ r.chan[ch] = "none" => Asked(p, c, ch)
    <3>1. \A ch \in Chans : cl.links[ch] > 0 /\ cl.chan[ch] = "none" => Asked(q, c, ch)
      BY <1>5 DEF AfterOf
    <3> QED
      BY <1>1, <1>2, <3>1
  <2>4. r.sent # {} =>
            \A ch \in Chans : ch \in mode.chans \/ Asked(p, c, ch) => r.chan[ch] # "none"
    <3>1. cl.sent # {} =>
            \A ch \in Chans : ch \in mode.chans \/ Asked(q, c, ch) => cl.chan[ch] # "none"
      BY <1>5 DEF AfterOf
    <3> QED
      BY <1>1, <1>2, <3>1
  <2> QED
    BY <2>1, <2>2, <2>3, <2>4 DEF AfterOf
<1> QED
  BY <1>1, <1>4, <1>5 DEF DataOf

\* A step of one client that leaves the migration alone.
LEMMA DataKept ==
  ASSUME TypeInv, DataInv, UNCHANGED mode, NEW c \in Ids, NEW r \in Client, Becomes(c, r),
         \A d \in Ids \ {c} : d \in mig' <=> d \in mig,
         \A d \in Ids : \A ch \in Chans : Asked(wq', d, ch) <=> Asked(wq, d, ch),
         SameData(r, clients[c]), c \in mig' => c \in mig, c \in mig => c \in mig' \/ ~r.listed
  PROVE  DataInv'
<1>1. PICK cl, M, N, q, p : /\ cl = clients[c] /\ cl \in Client
                            /\ M = mig /\ N = mig' /\ q = wq /\ p = wq'
  BY Known
<1>2. DataOf(cl, c, M, q)
  BY <1>1 DEF DataInv
<1>3. DataOf(r, c, N, p)
  BY <1>1, <1>2, DataSame
<1> QED
  BY <1>1, <1>3, DataFrame

\* No client changes, and none is asked for.
LEMMA DataStill ==
  ASSUME DataInv, UNCHANGED <<mode, clients, mig>>,
         \A d \in Ids : \A ch \in Chans : Asked(wq', d, ch) <=> Asked(wq, d, ch)
  PROVE  DataInv'
<1>1. Ids' = Ids
  BY DEF Ids
<1>2. ASSUME NEW d \in Ids PROVE DataOf(clients'[d], d, mig', wq')
  <2>1. DataOf(clients[d], d, mig, wq)
    BY DEF DataInv
  <2>2. BeforeOf(clients[d], d, mig, wq) => BeforeOf(clients[d], d, mig', wq')
    BY DEF BeforeOf
  <2>3. AfterOf(clients[d], d, mig, wq) => AfterOf(clients[d], d, mig', wq')
    BY DEF AfterOf
  <2> QED
    BY <2>1, <2>2, <2>3 DEF DataOf
<1>3. \A d \in Ids' : DataOf(clients'[d], d, mig', wq')
  BY <1>1, <1>2
<1> QED
  BY <1>3 DEF DataInv, DataOf, BeforeOf, AfterOf, Asked

\* Each action keeps DataInv.  reds_client_disconnect.
LEMMA DataDisconnect ==
  ASSUME TypeInv, DataInv, NEW c \in Ids, NEW then, Disconnect(c, then), UNCHANGED <<mode, wq>>
  PROVE  DataInv'
<1>1. PICK r \in Client : /\ Becomes(c, r)
                          /\ Only(r, clients[c], {"disconnecting", "listed", "pending"})
                          /\ ~r.listed
  BY DisconnectEffect
<1>2. r.chan = clients[c].chan
  BY <1>1 DEF Only, Fields
<1>3. SameData(r, clients[c])
  BY <1>1, <1>2, DataFields
<1>4. mig' = mig \ {c}
  BY DEF Disconnect
<1>5. \A d \in Ids : \A ch \in Chans : Asked(wq', d, ch) <=> Asked(wq, d, ch)
  BY DEF Asked
<1> QED
  BY <1>1, <1>3, <1>4, <1>5, DataKept

\* reds_handle_main_link: the new client has its main channel only.
LEMMA DataAdmit ==
  ASSUME TypeInv, DataInv, Len(clients) < Len(mode.kinds), UNCHANGED <<mode, wq>>,
         NEW cls \in Seq(Client), Len(cls) = Len(clients), Admit(cls),
         \A d \in Ids : Only(cls[d], clients[d], {"refs", "freed"})
  PROVE  DataInv'
<1>1. PICK n : n = Len(clients) + 1
  OBVIOUS
<1>2. PICK kind \in Kinds :
            /\ kind = mode.kinds[n] /\ Adds(cls, red_client_new(kind))
            /\ mig' = IF kind = "fresh" THEN mig ELSE mig \cup {n}
  BY <1>1, AdmitEffect
<1>3. PICK r : r = red_client_new(kind)
  OBVIOUS
<1>4. /\ Ids' = Ids \cup {n} /\ n \notin Ids /\ clients'[n] = r
      /\ \A d \in Ids : clients'[d] = cls[d]
  BY <1>1, <1>2, <1>3 DEF Adds
<1>5. \A d \in Ids' : \A ch \in Chans : Asked(wq', d, ch) <=> Asked(wq, d, ch)
  BY DEF Asked
<1>6. DataOf(r, n, mig', wq')
  <2>1. r.kind = kind /\ r.sent = {} /\ r.unexpected = FALSE /\ r.seamless = FALSE
    BY <1>3 DEF red_client_new
  <2>2. r.during = (kind # "fresh")
    BY <1>3 DEF red_client_new
  <2>3. \A ch \in Chans : r.links[ch] = 0 /\ (ch # Main => r.chan[ch] = "none")
    BY <1>3 DEF red_client_new
  <2>4. \A ch \in Chans : ~Asked(wq, n, ch)
    BY <1>4 DEF Asked, TypeInv, QueueInv
  <2>5. \A ch \in Chans : ~Asked(wq', n, ch)
    BY <1>4, <1>5, <2>4
  <2>6. kind = "seamless" => n \in mig'
    BY <1>2
  <2>7. \A ch \in Chans : ~(r.links[ch] > 0)
    BY <2>3
  <2>8. kind = "seamless" => BeforeOf(r, n, mig', wq')
    BY <2>1, <2>2, <2>3, <2>5, <2>6, <2>7 DEF BeforeOf
  <2> QED
    BY <2>1, <2>8 DEF DataOf
<1>7. ASSUME NEW d \in Ids PROVE DataOf(clients'[d], d, mig', wq')
  <2>1. PICK cl, s, M, N, q, p : /\ cl = clients[d] /\ s = cls[d] /\ s = clients'[d]
                                 /\ cl \in Client /\ s \in Client
                                 /\ M = mig /\ N = mig' /\ q = wq /\ p = wq'
    <3>1. clients[d] \in Client /\ cls[d] \in Client
      BY Known DEF Ids
    <3> QED
      BY <1>4, <3>1
  <2>2. Only(s, cl, {"refs", "freed"})
    BY <2>1
  <2>3. s.chan = cl.chan /\ s.pending = cl.pending
    BY <2>2 DEF Only, Fields
  <2>4. s.listed = cl.listed
    BY <2>2 DEF Only, Fields
  <2>5. SameData(s, cl)
    BY <2>2, <2>3, <2>4, DataFields
  <2>6. d \in N <=> d \in M
    BY <1>2, <1>4, <2>1
  <2>7. DataOf(cl, d, M, q) /\ \A ch \in Chans : Asked(p, d, ch) <=> Asked(q, d, ch)
    BY <1>4, <1>5, <2>1 DEF DataInv
  <2>8. DataOf(s, d, N, p)
    BY <2>1, <2>5, <2>6, <2>7, DataSame
  <2> QED
    BY <2>1, <2>8
<1>8. \A d \in Ids' : DataOf(clients'[d], d, mig', wq')
  BY <1>4, <1>6, <1>7
<1> QED
  BY <1>8 DEF DataInv, DataOf, BeforeOf, AfterOf, Asked

\* The queues as they are.
SameAsked == \A d \in Ids : \A ch \in Chans : Asked(wq', d, ch) <=> Asked(wq, d, ch)

\* The queues do not move, or get no CONNECT.
LEMMA StillAsked ==
  /\ UNCHANGED wq => SameAsked
  /\ TypeInv => \A t, e, S, n : Grows(t, e, S, n) /\ t # "connect" => SameAsked
<1>1. UNCHANGED wq => SameAsked
  BY DEF SameAsked, Asked
<1>2. ASSUME TypeInv, NEW t, NEW e, NEW S, NEW n, Grows(t, e, S, n), t # "connect" PROVE SameAsked
  BY <1>2, AskedGrows DEF SameAsked
<1> QED
  BY <1>1, <1>2

\* The actions of the main thread.
LEMMA DataMain ==
  ASSUME RccInv, DataInv, MainLink \/ MainHandle \/ AskDisconnect \/ DestroyRcc \/ DestroyEnd
  PROVE  DataInv'
<1>1. TypeInv /\ UNCHANGED mode
  BY DEF RccInv, MainLink, MainHandle, AskDisconnect, DestroyRcc, DestroyEnd
<1>2. CASE MainLink
  <2>1. CASE \E c \in Ids : Disconnect(c, "link")
    BY <1>1, <1>2, <2>1, DataDisconnect DEF MainLink
  <2>2. CASE Admit(clients)
    <3>1. clients \in Seq(Client)
      BY <1>1 DEF TypeInv, ClientInv
    <3>2. \A d \in Ids : Only(clients[d], clients[d], {"refs", "freed"})
      BY DEF Only
    <3> QED
      BY <1>1, <1>2, <2>2, <3>1, <3>2, DataAdmit DEF MainLink
  <2> QED
    BY <1>2, <2>1, <2>2 DEF MainLink
<1>3. CASE MainHandle
  <2>1. PICK m : m = Head(mq)
    OBVIOUS
  <2>2. m.client \in Ids /\ UNCHANGED wq
    BY <1>1, <1>3, <2>1, MainHandleEffect DEF MainHandle
  <2>3. CASE Disconnect(m.client, "unref")
    BY <1>1, <2>2, <2>3, DataDisconnect
  <2>4. CASE /\ UNCHANGED <<main, mig>>
             /\ \E q \in Client : \E r :
                   /\ Only(q, clients[m.client], {"completed"})
                   /\ r = Unref(q, 1) /\ Becomes(m.client, r)
    <3>1. PICK q, r : /\ q \in Client /\ Only(q, clients[m.client], {"completed"})
                      /\ r = Unref(q, 1) /\ Becomes(m.client, r)
      BY <2>4
    <3>2. r \in Client /\ Only(r, q, {"refs", "freed"})
      BY <3>1, UnrefEffect
    <3>3. Only(r, clients[m.client], {"refs", "freed", "completed"})
      BY <3>1, <3>2 DEF Only, Fields
    <3>4. r.chan = clients[m.client].chan /\ r.pending = clients[m.client].pending
      BY <3>3 DEF Only, Fields
    <3>5. r.listed = clients[m.client].listed
      BY <3>3 DEF Only, Fields
    <3>6. SameData(r, clients[m.client])
      BY <3>3, <3>4, <3>5, DataFields
    <3> QED
      BY <1>1, <2>2, <2>4, <3>1, <3>2, <3>6, StillAsked, DataKept DEF SameAsked
  <2> QED
    BY <1>1, <1>3, <2>1, <2>3, <2>4, MainHandleEffect
<1>4. CASE AskDisconnect
  <2>1. Grows("disconnect", main.client, {Victim}, 1) /\ UNCHANGED <<clients, mig>>
    BY <1>1, <1>4, AskEffect DEF AskDisconnect
  <2>2. SameAsked
    BY <1>1, <2>1, StillAsked
  <2> QED
    BY <1>1, <2>1, <2>2, DataStill DEF SameAsked
<1>5. CASE DestroyRcc
  <2>1. main # Idle /\ main.walk # <<>> /\ UNCHANGED <<wq, mig>>
    BY <1>5 DEF DestroyRcc
  <2>2. PICK u \in Ids : u = main.client
    BY <1>1, <2>1, BusyMain
  <2>3. PICK r \in Client : /\ Becomes(u, r) /\ Only(r, clients[u], {"chan", "ring"})
                            /\ \A x \in Chans : r.chan[x] = IF x = Victim THEN "gone"
                                                            ELSE clients[u].chan[x]
    BY <1>1, <1>5, <2>2, DestroyRccEffect
  <2>4. clients[u].chan[Victim] # "none"
    BY <1>1, <2>1, <2>2, BusyMain DEF RccInv, WalkInv, Busy, Alive
  <2>5. r.pending = clients[u].pending
    BY <2>3 DEF Only, Fields
  <2>6. r.listed = clients[u].listed
    BY <2>3 DEF Only, Fields
  <2>7. \A ch \in Chans : /\ r.chan[ch] = "none" <=> clients[u].chan[ch] = "none"
                          /\ r.chan[ch] = "on" => clients[u].chan[ch] = "on"
    BY <2>3, <2>4
  <2>8. SameData(r, clients[u])
    BY <2>3, <2>5, <2>6, <2>7, DataFields
  <2> QED
    BY <1>1, <2>1, <2>3, <2>8, StillAsked, DataKept DEF SameAsked
<1>6. CASE DestroyEnd
  <2>1. main # Idle /\ UNCHANGED wq
    BY <1>6 DEF DestroyEnd
  <2>2. PICK c \in Ids : c = main.client
    BY <1>1, <2>1, BusyMain
  <2>3. CASE clients' = [clients EXCEPT ![main.client] = Unref(@, 2)] /\ UNCHANGED mig
    <3>1. PICK cls : cls = clients' /\ Releases(cls, 2)
      BY <2>3 DEF Releases
    <3>2. PICK r \in Client : /\ cls = [clients EXCEPT ![c] = r] /\ RingOf(r)
                              /\ r = Unref(clients[c], 2)
      BY <1>1, <2>1, <2>2, <3>1, Released
    <3>3. Becomes(c, r) /\ clients[c] \in Client
      BY <1>1, <3>1, <3>2, Known DEF Becomes
    <3>4. Only(r, clients[c], {"refs", "freed"})
      BY <3>2, <3>3, UnrefEffect
    <3>5. r.chan = clients[c].chan /\ r.pending = clients[c].pending
      BY <3>4 DEF Only, Fields
    <3>6. r.listed = clients[c].listed
      BY <3>4 DEF Only, Fields
    <3>7. SameData(r, clients[c])
      BY <3>4, <3>5, <3>6, DataFields
    <3> QED
      BY <1>1, <2>1, <2>3, <3>3, <3>7, StillAsked, DataKept DEF SameAsked
  <2>4. CASE main.then = "link" /\ Admit([clients EXCEPT ![main.client] = Unref(@, 1)])
    <3>1. PICK cls : Releases(cls, 1) /\ Admit(cls)
      BY <2>4 DEF Releases
    <3>2. /\ cls \in Seq(Client) /\ Len(cls) = Len(clients)
      BY <1>1, <2>1, <3>1, Released
    <3>3. \A d \in Ids \ {c} : cls[d] = clients[d]
      BY <1>1, <2>1, <2>2, <3>1, Released
    <3>4. cls[c] = Unref(clients[c], 1) /\ clients[c] \in Client
      BY <1>1, <2>1, <2>2, <3>1, Released, Known
    <3>5. Only(cls[c], clients[c], {"refs", "freed"})
      BY <3>4, UnrefEffect
    <3>6. \A d \in Ids : Only(cls[d], clients[d], {"refs", "freed"})
      BY <3>3, <3>5 DEF Only
    <3>7. Len(clients) < Len(mode.kinds)
      BY <1>1, <2>1, <2>4 DEF TypeInv, ThreadInv, Busy
    <3> QED
      BY <1>1, <2>1, <3>1, <3>2, <3>6, <3>7, DataAdmit
  <2> QED
    BY <1>6, <2>3, <2>4 DEF DestroyEnd
<1> QED
  BY <1>2, <1>3, <1>4, <1>5, <1>6

\* Channels are created after the handshake: they wait, or the first data has come and
\* there is none left to create.
LEMMA AfterCreates ==
  ASSUME NEW cl \in Client, NEW r \in Client, NEW S, S \subseteq Chans, Creates(r, cl, S),
         NEW c, NEW N, NEW p, c \notin N, cl.sent = {} => cl.during /\ cl.seamless,
         \A ch \in NeedData : cl.chan[ch] = "on" /\ ch \notin cl.sent => ch \in cl.waits,
         \A ch \in Chans \ S : cl.links[ch] > 0 /\ cl.chan[ch] = "none" => Asked(p, c, ch),
         cl.sent # {} => \A ch \in Chans : ch \in mode.chans \/ Asked(p, c, ch) \/ ch \in S
                                             => cl.chan[ch] # "none"
  PROVE  AfterOf(r, c, N, p)
<1>1. r.sent = cl.sent /\ r.links = cl.links
  BY DEF Creates, Only, Fields
<1>2. r.during = cl.during
  BY DEF Creates, Only, Fields
<1>3. r.seamless = cl.seamless
  BY DEF Creates, Only, Fields
<1>4. ASSUME NEW ch \in Chans
      PROVE  /\ r.chan[ch] = "none" => cl.chan[ch] = "none" /\ ch \notin S
             /\ r.chan[ch] = "on" => cl.chan[ch] = "on" \/ (cl.chan[ch] = "none" /\ ch \in S)
  BY DEF Creates, Made
<1>5. ASSUME NEW ch \in NeedData, r.chan[ch] = "on", ch \notin r.sent PROVE ch \in r.waits
  <2>1. ch \in Chans
    BY ClientAssumption
  <2>2. CASE cl.chan[ch] = "on"
    BY <1>1, <1>5, <2>2 DEF Creates
  <2>3. CASE cl.chan[ch] = "none" /\ ch \in S
    <3>1. cl.during /\ cl.seamless
      BY <2>1, <2>3
    <3>2. ch \in Waiting(cl, S)
      BY <2>3, <3>1 DEF Waiting, Made
    <3> QED
      BY <3>2 DEF Creates
  <2> QED
    BY <1>4, <1>5, <2>1, <2>2, <2>3
<1>6. r.sent = {} => r.during /\ r.seamless
  BY <1>1, <1>2, <1>3
<1>7. ASSUME NEW ch \in Chans, r.links[ch] > 0, r.chan[ch] = "none" PROVE Asked(p, c, ch)
  <2>1. cl.chan[ch] = "none" /\ ch \in Chans \ S
    BY <1>4, <1>7
  <2> QED
    BY <1>1, <1>7, <2>1
<1>8. ASSUME r.sent # {}, NEW ch \in Chans, ch \in mode.chans \/ Asked(p, c, ch)
      PROVE  r.chan[ch] # "none"
  BY <1>1, <1>4, <1>8
<1> QED
  BY <1>5, <1>6, <1>7, <1>8 DEF AfterOf

\* A client with a main channel is in the list when the main thread is idle.
LEMMA IdleListed ==
  ASSUME ArriveInv, NEW c \in Ids, main = Idle, clients[c].chan[Main] = "on"
  PROVE  clients[c].listed
BY DEF ArriveInv, ListedOf, Walked

\* reds_handle_other_links.
LEMMA DataOtherLink ==
  ASSUME TypeInv, CountInv, ArriveInv, DataInv, SeamlessLast,
         NEW c \in Ids, NEW ch \in mode.chans, OtherLink(c, ch)
  PROVE  DataInv'
<1>1. main = Idle /\ clients[c].chan[Main] = "on" /\ UNCHANGED <<mode, mig>>
  BY DEF OtherLink
<1>2. clients[c].listed /\ (clients[c].during /\ ~dst <=> c \in mig)
  BY <1>1, IdleListed, LinkWaits
<1>3. PICK cl \in Client : cl = clients[c] /\ RingOf(cl) /\ DataOf(cl, c, mig, wq)
  BY Known DEF DataInv
<1>4. PICK q : /\ Only(q, cl, {"links", "pending"})
               /\ \A x \in Chans : x # ch => q.links[x] = cl.links[x]
               /\ \/ /\ cl.during /\ ~dst
                     /\ Links(c, q, {}) /\ UNCHANGED wq
                     /\ ToSet(q.pending) = {ch} \cup ToSet(cl.pending)
                  \/ /\ ~(cl.during /\ ~dst)
                     /\ Links(c, q, {ch} \ Remote) /\ Grows("connect", c, {ch}, 1)
  BY <1>3, OtherLinkEffect
<1>5. /\ q.chan = cl.chan /\ q.sent = cl.sent /\ q.waits = cl.waits /\ q.kind = cl.kind
  BY <1>4 DEF Only, Fields
<1>6. q.during = cl.during
  BY <1>4 DEF Only, Fields
<1>7. q.seamless = cl.seamless
  BY <1>4 DEF Only, Fields
<1>8. q.unexpected = cl.unexpected
  BY <1>4 DEF Only, Fields
<1>9. q.listed = cl.listed
  BY <1>4 DEF Only, Fields
<1>10. PICK S : /\ Links(c, q, S) /\ S \subseteq {ch} \ Remote
                /\ ~(cl.during /\ ~dst) => S = {ch} \ Remote
  BY <1>4
<1>11. PICK r \in Client : Becomes(c, r) /\ RingOf(r) /\ Creates(r, q, S) /\ q \in Client
  BY <1>10 DEF Links
<1>12. r.kind = cl.kind /\ r.sent = cl.sent /\ r.links = q.links /\ r.pending = q.pending
  BY <1>5, <1>11 DEF Creates, Only, Fields
<1>13. r.unexpected = cl.unexpected
  BY <1>8, <1>11 DEF Creates, Only, Fields
<1>14. \A d \in Ids \ {c} : \A x \in Chans : Asked(wq', d, x) <=> Asked(wq, d, x)
  <2>1. CASE UNCHANGED wq
    BY <2>1 DEF Asked
  <2>2. CASE Grows("connect", c, {ch}, 1)
    BY <2>2, AskedGrows
  <2> QED
    BY <1>4, <2>1, <2>2
<1>15. ch \in Chans /\ <<ch>> \in Seq(Chans) /\ ToSet(<<ch>>) = {ch}
  BY Known, ClientAssumption DEF Chans, ToSet
<1>16. ASSUME cl.kind = "seamless", BeforeOf(cl, c, mig, wq) PROVE BeforeOf(r, c, mig', wq')
  <2>1. c \in mig /\ cl.during /\ ~dst
    BY <1>2, <1>3, <1>16 DEF BeforeOf
  <2>2. Links(c, q, {}) /\ UNCHANGED wq /\ ToSet(q.pending) = {ch} \cup ToSet(cl.pending)
    BY <1>4, <2>1
  <2>3. r.during = cl.during
    BY <1>6, <1>11 DEF Creates, Only, Fields
  <2>4. r.seamless = cl.seamless
    BY <1>7, <1>11 DEF Creates, Only, Fields
  <2>5. \A x \in Chans : x # Main => r.chan[x] = "none"
    <3>1. PICK s \in Client : Becomes(c, s) /\ Creates(s, q, {})
      BY <2>2 DEF Links
    <3>2. s = r
      <4>1. clients'[c] = s /\ clients'[c] = r
        BY <1>11, <3>1, OneChanged DEF TypeInv, ClientInv
      <4> QED
        BY <4>1
    <3>3. \A x \in Chans : s.chan[x] = q.chan[x]
      BY <3>1 DEF Creates, Made
    <3> QED
      BY <1>5, <1>16, <3>2, <3>3 DEF BeforeOf
  <2>6. \A x \in Chans : ~Asked(wq', c, x)
    BY <1>16, <2>2 DEF BeforeOf, Asked
  <2>7. \A x \in Chans : r.links[x] > 0 => x \in ToSet(r.pending)
    <3>1. \A x \in Chans : cl.links[x] > 0 => x \in ToSet(cl.pending)
      BY <1>2, <1>3, <1>16 DEF BeforeOf
    <3> QED
      BY <1>4, <1>12, <2>2, <3>1
  <2> QED
    BY <1>1, <1>12, <1>16, <2>1, <2>3, <2>4, <2>5, <2>6, <2>7 DEF BeforeOf
<1>17. ASSUME cl.kind = "seamless", AfterOf(cl, c, mig, wq) PROVE AfterOf(r, c, mig', wq')
  <2>1. ~(cl.during /\ ~dst) /\ c \notin mig'
    BY <1>1, <1>2, <1>3, <1>17 DEF AfterOf
  <2>2. Grows("connect", c, {ch}, 1) /\ S = {ch} \ Remote /\ wq' = Sent("connect", c, <<ch>>)
    BY <1>3, <1>4, <1>10, <2>1 DEF OtherLink
  <2>3. \A x \in Chans : /\ Asked(wq, c, x) => Asked(wq', c, x)
                         /\ Asked(wq', c, x) => Asked(wq, c, x) \/ x = ch
    BY <2>2, AskedGrows
  <2>4. ch \in Remote => Asked(wq', c, ch)
    BY <1>15, <2>2, SentAsks DEF TypeInv
  <2>5. q.sent = {} => q.during /\ q.seamless
    BY <1>5, <1>6, <1>7, <1>17 DEF AfterOf
  <2>6. \A x \in NeedData : q.chan[x] = "on" /\ x \notin q.sent => x \in q.waits
    BY <1>5, <1>17 DEF AfterOf
  <2>7. ASSUME NEW x \in Chans \ S, q.links[x] > 0, q.chan[x] = "none" PROVE Asked(wq', c, x)
    <3>1. CASE x = ch
      BY <2>2, <2>4, <2>7, <3>1
    <3>2. CASE x # ch
      <4>1. cl.links[x] > 0 /\ cl.chan[x] = "none"
        BY <1>4, <1>5, <2>7, <3>2
      <4>2. Asked(wq, c, x)
        BY <1>17, <4>1 DEF AfterOf
      <4> QED
        BY <2>3, <4>2
    <3> QED
      BY <3>1, <3>2
  <2>8. ASSUME q.sent # {}, NEW x \in Chans, x \in mode.chans \/ Asked(wq', c, x) \/ x \in S
        PROVE  q.chan[x] # "none"
    <3>1. x \in mode.chans \/ Asked(wq, c, x)
      BY <2>2, <2>3, <2>8
    <3>2. cl.sent # {}
      BY <1>5, <2>8
    <3>3. cl.chan[x] # "none"
      BY <1>17, <3>1, <3>2 DEF AfterOf
    <3> QED
      BY <1>5, <3>3
  <2>9. PICK N, p : N = mig' /\ p = wq'
    OBVIOUS
  <2>10. S \subseteq Chans /\ c \notin N
    BY <1>15, <2>1, <2>2, <2>9
  <2>11. AfterOf(r, c, N, p)
    BY <1>11, <2>5, <2>6, <2>7, <2>8, <2>9, <2>10, AfterCreates
  <2> QED
    BY <2>9, <2>11
<1>18. DataOf(r, c, mig', wq')
  BY <1>3, <1>12, <1>13, <1>16, <1>17 DEF DataOf
<1> QED
  BY <1>1, <1>11, <1>14, <1>18, DataFrame

\* MIGRATE_DST_DO_SEAMLESS accepted: what was linked so far waits, what was pending is
\* created and waits, or is asked for.
LEMMA DataAccepted ==
  ASSUME TypeInv, ArriveInv, DataInv, NEW c \in Ids, DstDoSeamless(c), dst', UNCHANGED mode,
         NEW q, Only(q, clients[c], {"pending", "seamless", "waits", "migrated"}), q.seamless,
         q.waits = ToSet(clients[c].ring) \cap NeedData,
         Links(c, q, ToSet(clients[c].pending) \ Remote), mig' = mig \ {c}
  PROVE  DataInv'
<1>1. PICK cl \in Client : cl = clients[c] /\ RingOf(cl) /\ DataOf(cl, c, mig, wq)
  BY Known DEF DataInv
<1>2. c \in mig /\ cl.kind = "seamless" /\ cl.listed
  BY <1>1 DEF DstDoSeamless, ArriveInv, ListedOf
<1>3. BeforeOf(cl, c, mig, wq)
  BY <1>1, <1>2 DEF DataOf, AfterOf
<1>4. cl.pending \in Seq(Chans) /\ wq' = Sent("connect", c, cl.pending)
  <2>1. LinkPending(c, SetSeamless(clients[c]))
    BY DEF DstDoSeamless
  <2>2. SetSeamless(clients[c]).pending = cl.pending
    BY <1>1 DEF SetSeamless, Client
  <2> QED
    BY <2>1, <2>2 DEF LinkPending, Client
<1>5. Grows("connect", c, ToSet(cl.pending), Len(cl.pending))
  BY <1>4, Known, SentEffect DEF TypeInv
<1>6. q.chan = cl.chan /\ q.sent = {} /\ q.kind = cl.kind /\ q.links = cl.links
  BY <1>1, <1>3 DEF Only, Fields, BeforeOf
<1>7. q.during = cl.during
  BY <1>1 DEF Only, Fields
<1>8. q.unexpected = cl.unexpected
  BY <1>1 DEF Only, Fields
<1>9. PICK S : S = ToSet(cl.pending) \ Remote /\ Links(c, q, S)
  BY <1>1
<1>10. PICK r \in Client : Becomes(c, r) /\ Creates(r, q, S) /\ q \in Client /\ S \subseteq Chans
  BY <1>9 DEF Links
<1>11. q.during /\ q.seamless
  BY <1>3, <1>7 DEF BeforeOf
<1>12. \A x \in NeedData : q.chan[x] = "on" => x \in q.waits
  BY <1>1, <1>6, ClientAssumption DEF RingOf
<1>13. ASSUME NEW x \in Chans \ S, q.links[x] > 0 PROVE Asked(wq', c, x)
  <2>1. x \in ToSet(cl.pending)
    BY <1>2, <1>3, <1>6, <1>13 DEF BeforeOf
  <2>2. x \in Remote
    BY <1>9, <1>13, <2>1
  <2> QED
    BY <1>4, <2>1, <2>2, SentAsks DEF TypeInv
<1>14. PICK N, p : N = mig' /\ p = wq' /\ c \notin N
  OBVIOUS
<1>15. AfterOf(r, c, N, p)
  BY <1>6, <1>10, <1>11, <1>12, <1>13, <1>14, AfterCreates
<1>16. r.unexpected = cl.unexpected
  BY <1>8, <1>10 DEF Creates, Only, Fields
<1>17. DataOf(r, c, mig', wq')
  BY <1>1, <1>14, <1>15, <1>16 DEF DataOf
<1>18. \A d \in Ids \ {c} : \A x \in Chans : Asked(wq', d, x) <=> Asked(wq, d, x)
  BY <1>5, AskedGrows
<1>19. \A d \in Ids \ {c} : d \in mig' <=> d \in mig
  OBVIOUS
<1> QED
  BY <1>10, <1>17, <1>18, <1>19, DataFrame

\* The steps of a migration on the main channel.
LEMMA DataClient ==
  ASSUME RccInv, ArriveInv, DataInv, NEW c \in Ids, DstDoSeamless(c) \/ MigrateEnd(c) \/ Migrate(c)
  PROVE  DataInv'
<1>1. TypeInv /\ UNCHANGED mode
  BY DEF RccInv, DstDoSeamless, MigrateEnd, Migrate
<1>2. DataOf(clients[c], c, mig, wq)
  BY DEF DataInv
<1>3. CASE DstDoSeamless(c)
  <2>1. PICK W : W = ToSet(clients[c].ring) \cap NeedData
    OBVIOUS
  <2>2. CASE /\ \E q : /\ Only(q, clients[c], {"pending", "seamless", "waits", "migrated"})
                       /\ q.seamless /\ q.waits = W
                       /\ Links(c, q, ToSet(clients[c].pending) \ Remote)
             /\ mig' = mig \ {c} /\ dst'
    BY <1>1, <1>3, <2>1, <2>2, DataAccepted
  <2>3. CASE /\ \E r \in Client : /\ Becomes(c, r)
                                  /\ Only(r, clients[c], {"kind"}) /\ r.kind = "semi"
             /\ UNCHANGED <<wq, mig>>
    <3>1. PICK r \in Client : Becomes(c, r) /\ Only(r, clients[c], {"kind"}) /\ r.kind = "semi"
      BY <2>3
    <3>2. r.unexpected = clients[c].unexpected
      BY <3>1 DEF Only, Fields
    <3>3. DataOf(r, c, mig', wq')
      BY <1>2, <3>1, <3>2 DEF DataOf
    <3>4. SameAsked /\ UNCHANGED mig
      BY <2>3, StillAsked
    <3> QED
      BY <1>1, <3>1, <3>3, <3>4, DataFrame DEF SameAsked
  <2> QED
    BY <1>1, <1>3, <2>1, <2>2, <2>3, DstDoSeamlessEffect
<1>4. CASE MigrateEnd(c)
  <2>1. PICK q : /\ Only(q, clients[c], {"pending", "during"})
                 /\ Links(c, q, ToSet(clients[c].pending) \ Remote)
    BY <1>1, <1>4, MigrateEndEffect
  <2>2. PICK n \in Nat : Grows("connect", c, ToSet(clients[c].pending), n)
    BY <1>1, <1>4, MigrateEndEffect
  <2>3. mig' = mig \ {c} /\ clients[c].kind = "semi"
    BY <1>1, <1>4, MigrateEndEffect DEF MigrateEnd
  <2>4. PICK r \in Client : Becomes(c, r) /\ Only(r, q, {"ring", "chan", "waits", "migrated"})
    BY <2>1 DEF Links, Creates
  <2>5. r.kind = clients[c].kind
    BY <2>1, <2>4 DEF Only, Fields
  <2>6. r.unexpected = clients[c].unexpected
    BY <2>1, <2>4 DEF Only, Fields
  <2>7. DataOf(r, c, mig', wq')
    BY <1>2, <2>3, <2>5, <2>6 DEF DataOf
  <2>8. \A d \in Ids \ {c} : \A x \in Chans : Asked(wq', d, x) <=> Asked(wq, d, x)
    BY <1>1, <2>2, AskedGrows
  <2>9. \A d \in Ids \ {c} : d \in mig' <=> d \in mig
    BY <2>3
  <2> QED
    BY <1>1, <2>4, <2>7, <2>8, <2>9, DataFrame
<1>5. CASE Migrate(c)
  <2>1. PICK r \in Client : Becomes(c, r) /\ RingOf(r) /\ Only(r, clients[c], {"left"})
    BY <1>1, <1>5, MigrateEffect
  <2>2. PICK n \in Nat : Grows("migrate", c, {ch \in Chans : clients[c].chan[ch] = "on"}, n)
    BY <1>1, <1>5, MigrateEffect
  <2>3. r.chan = clients[c].chan /\ r.pending = clients[c].pending
    BY <2>1 DEF Only, Fields
  <2>4. r.listed = clients[c].listed
    BY <2>1 DEF Only, Fields
  <2>5. SameData(r, clients[c])
    BY <2>1, <2>3, <2>4, DataFields
  <2>6. SameAsked
    BY <1>1, <2>2, StillAsked
  <2>7. UNCHANGED mig
    BY <1>5 DEF Migrate
  <2> QED
    BY <1>1, <2>1, <2>5, <2>6, <2>7, DataKept DEF SameAsked
<1> QED
  BY <1>3, <1>4, <1>5

\* red_channel_handle_migrate_data finds the channel waiting.
LEMMA DataArrived ==
  ASSUME RccInv, ArriveInv, DataInv, ~mode.late, NEW c \in Ids, NEW ch \in Chans, MigrateData(c, ch)
  PROVE  DataInv'
<1>1. TypeInv /\ UNCHANGED <<mode, mig, wq>>
  BY DEF RccInv, MigrateData
<1>2. PICK cl \in Client : cl = clients[c] /\ DataOf(cl, c, mig, wq)
  BY <1>1, Known DEF DataInv
<1>3. /\ Runs(ch) /\ cl.chan[ch] = "on" /\ cl.kind = "seamless" /\ c \notin mig
      /\ ch \in NeedData /\ ch \notin cl.sent /\ ~Outstanding(c)
      /\ \A other \in mode.chans : cl.links[other] > 0
  BY <1>2 DEF MigrateData
<1>4. ~BeforeOf(cl, c, mig, wq)
  <2>1. SUFFICES ASSUME BeforeOf(cl, c, mig, wq) PROVE FALSE
    OBVIOUS
  <2>2. ch = Main
    BY <1>3, <2>1 DEF BeforeOf
  <2>3. main = Idle
    BY <1>3, <2>2, ClientAssumption DEF Runs
  <2>4. cl.listed
    BY <1>2, <1>3, <2>2, <2>3, IdleListed
  <2> QED
    BY <1>3, <2>1, <2>4 DEF BeforeOf
<1>5. AfterOf(cl, c, mig, wq) /\ ~cl.unexpected
  BY <1>2, <1>3, <1>4 DEF DataOf
<1>6. ch \in cl.waits
  BY <1>3, <1>5 DEF AfterOf
<1>7. PICK r : Becomes(c, r) /\ DataArrives(c, ch, r)
  BY <1>1, <1>2, <1>6, MigrateDataEffect
<1>8. /\ r \in Client /\ r.sent = cl.sent \cup {ch} /\ r.waits = cl.waits \ {ch}
      /\ Only(r, cl, {"sent", "waits", "migrated", "during", "seamless", "completed"})
  BY <1>2, <1>7 DEF DataArrives, Only
<1>9. r.chan = cl.chan /\ r.links = cl.links
  BY <1>8 DEF Only, Fields
<1>10. r.unexpected = cl.unexpected
  BY <1>8 DEF Only, Fields
<1>11. \A x \in Chans : ~Asked(wq, c, x)
  BY <1>3 DEF Asked, Outstanding
<1>12. \A x \in Chans : Asked(wq', c, x) <=> Asked(wq, c, x)
  BY <1>1 DEF Asked
<1>13. \A x \in NeedData : r.chan[x] = "on" /\ x \notin r.sent => x \in r.waits
  BY <1>5, <1>8, <1>9 DEF AfterOf
<1>14. \A x \in Chans : cl.links[x] > 0 => cl.chan[x] # "none"
  BY <1>5, <1>11 DEF AfterOf
<1>15. \A x \in Chans : x \in mode.chans \/ Asked(wq', c, x) => r.chan[x] # "none"
  BY <1>3, <1>9, <1>11, <1>12, <1>14
<1>16. c \notin mig' /\ r.sent # {}
  BY <1>1, <1>3, <1>8
<1>17. AfterOf(r, c, mig', wq')
  BY <1>9, <1>13, <1>14, <1>15, <1>16 DEF AfterOf
<1>18. DataOf(r, c, mig', wq')
  BY <1>5, <1>10, <1>17 DEF DataOf
<1> QED
  BY <1>1, <1>7, <1>8, <1>18, StillAsked, DataFrame DEF SameAsked

\* The other actions on one channel.
LEMMA DataChannel ==
  ASSUME RccInv, DataInv, NEW c \in Ids, NEW ch \in Chans, Latency(c, ch) \/ Lose(c, ch)
  PROVE  DataInv'
<1>1. TypeInv /\ UNCHANGED <<mode, mig, wq>>
  BY DEF RccInv, Latency, Lose
<1>2. SameAsked
  BY <1>1, StillAsked
<1>3. CASE Latency(c, ch)
  BY <1>1, <1>2, <1>3, DataStill DEF Latency, SameAsked
<1>4. CASE Lose(c, ch)
  <2>1. PICK cl \in Client : cl = clients[c] /\ RingOf(cl)
    BY <1>1, Known
  <2>2. cl.chan[ch] = "on" /\ Drop(c, cl, ch)
    BY <1>4, <2>1 DEF Lose
  <2>3. PICK r \in Client :
            /\ Becomes(c, r) /\ RingOf(r) /\ Only(r, cl, {"chan", "refs"})
            /\ \A x \in Chans : r.chan[x] = IF x = ch THEN "off" ELSE cl.chan[x]
    BY <1>1, <2>1, <2>2, DropEffect
  <2>4. r.pending = cl.pending
    BY <2>3 DEF Only, Fields
  <2>5. r.listed = cl.listed
    BY <2>3 DEF Only, Fields
  <2>6. \A x \in Chans : /\ r.chan[x] = "none" <=> cl.chan[x] = "none"
                         /\ r.chan[x] = "on" => cl.chan[x] = "on"
    BY <2>2, <2>3
  <2>7. SameData(r, cl)
    BY <2>3, <2>4, <2>5, <2>6, DataFields
  <2> QED
    BY <1>1, <1>2, <2>1, <2>3, <2>7, DataKept DEF SameAsked
<1> QED
  BY <1>3, <1>4

\* handle_dev_display_connect: the client has had its handshake.
LEMMA DataConnect ==
  ASSUME RccInv, DataInv, NEW w \in Workers, wq[w] # <<>>, Shrinks(w), UNCHANGED <<mode, mig>>,
         NEW m, m = wq[w][1], m.type = "connect", m.client \in Ids, m.chan \in Remote,
         1 \in DOMAIN wq[w], Links(m.client, clients[m.client], {m.chan})
  PROVE  DataInv'
<1>1. TypeInv
  BY DEF RccInv
<1>2. PICK c \in Ids, ch \in Remote : c = m.client /\ ch = m.chan
  OBVIOUS
<1>3. PICK cl \in Client : cl = clients[c] /\ DataOf(cl, c, mig, wq)
  BY <1>1, Known DEF DataInv
<1>4. ch \in Chans /\ Asked(wq, c, ch)
  BY <1>2 DEF Asked, Chans
<1>5. PICK r \in Client : Becomes(c, r) /\ Creates(r, cl, {ch})
  BY <1>2, <1>3 DEF Links
<1>6. \A d \in Ids, x \in Chans :
         /\ Asked(wq', d, x) => Asked(wq, d, x)
         /\ Asked(wq, d, x) => Asked(wq', d, x) \/ (d = c /\ x = ch)
  BY <1>1, <1>2, AskedShrinks
<1>7. r.kind = cl.kind
  BY <1>5 DEF Creates, Only, Fields
<1>8. r.unexpected = cl.unexpected
  BY <1>5 DEF Creates, Only, Fields
<1>9. ASSUME AfterOf(cl, c, mig, wq) PROVE AfterOf(r, c, mig', wq')
  <2>1. PICK N, p : N = mig' /\ p = wq'
    OBVIOUS
  <2>2. c \notin N /\ (cl.sent = {} => cl.during /\ cl.seamless)
    BY <1>9, <2>1 DEF AfterOf
  <2>3. \A x \in NeedData : cl.chan[x] = "on" /\ x \notin cl.sent => x \in cl.waits
    BY <1>9 DEF AfterOf
  <2>4. \A x \in Chans \ {ch} : cl.links[x] > 0 /\ cl.chan[x] = "none" => Asked(p, c, x)
    <3>1. \A x \in Chans : cl.links[x] > 0 /\ cl.chan[x] = "none" => Asked(wq, c, x)
      BY <1>9 DEF AfterOf
    <3> QED
      BY <1>6, <2>1, <3>1
  <2>5. cl.sent # {} => \A x \in Chans : x \in mode.chans \/ Asked(p, c, x) \/ x \in {ch}
                                            => cl.chan[x] # "none"
    <3>1. cl.sent # {} => \A x \in Chans : x \in mode.chans \/ Asked(wq, c, x)
                                            => cl.chan[x] # "none"
      BY <1>9 DEF AfterOf
    <3> QED
      BY <1>4, <1>6, <2>1, <3>1
  <2>6. {ch} \subseteq Chans
    BY <1>4
  <2>7. AfterOf(r, c, N, p)
    BY <1>5, <2>2, <2>3, <2>4, <2>5, <2>6, AfterCreates
  <2> QED
    BY <2>1, <2>7
<1>10. ~BeforeOf(cl, c, mig, wq)
  BY <1>4 DEF BeforeOf
<1>11. DataOf(r, c, mig', wq')
  BY <1>3, <1>7, <1>8, <1>9, <1>10 DEF DataOf
<1>12. \A d \in Ids \ {c} : \A x \in Chans : Asked(wq', d, x) <=> Asked(wq, d, x)
  BY <1>6
<1> QED
  BY <1>1, <1>5, <1>11, <1>12, DataFrame

\* The actions of a worker.
LEMMA DataWorker ==
  ASSUME RccInv, DataInv, NEW w \in Workers, WorkerRef(w) \/ WorkerPost(w) \/ WorkerHandle(w)
  PROVE  DataInv'
<1>1. TypeInv /\ UNCHANGED <<mode, mig>>
  BY DEF RccInv, WorkerRef, WorkerPost, WorkerHandle
<1>2. CASE WorkerRef(w)
  <2>1. PICK c \in Ids : c = worker[w].client
    BY <1>1, <1>2, IdleWorker DEF WorkerRef
  <2>2. PICK r \in Client : Becomes(c, r) /\ RingOf(r) /\ Only(r, clients[c], {"refs"})
    BY <1>1, <1>2, <2>1, WorkerRefEffect
  <2>3. r.chan = clients[c].chan /\ r.pending = clients[c].pending
    BY <2>2 DEF Only, Fields
  <2>4. r.listed = clients[c].listed
    BY <2>2 DEF Only, Fields
  <2>5. SameData(r, clients[c])
    BY <2>2, <2>3, <2>4, DataFields
  <2>6. SameAsked
    BY <1>2, StillAsked DEF WorkerRef
  <2> QED
    BY <1>1, <2>2, <2>5, <2>6, DataKept DEF SameAsked
<1>3. CASE WorkerPost(w)
  BY <1>1, <1>3, StillAsked, DataStill DEF WorkerPost, SameAsked
<1>4. CASE WorkerHandle(w)
  <2>1. wq[w] # <<>> /\ wq' = [wq EXCEPT ![w] = Tail(@)] /\ Handle(w, Head(wq[w]))
    BY <1>4 DEF WorkerHandle
  <2>2. PICK m \in Requests : /\ m = Head(wq[w]) /\ m = wq[w][1] /\ m.client \in Ids
                              /\ m.chan \in Remote /\ m.chan \in Chans /\ 1 \in DOMAIN wq[w]
    BY <2>1, WorkerHead
  <2>3. Shrinks(w)
    BY <2>1, WorkerHead
  <2>4. CASE m.type = "connect"
    <3>1. Becomes(m.client, Create(clients[m.client], <<m.chan>>))
      BY <2>1, <2>2, <2>4 DEF Handle, Becomes
    <3>2. Links(m.client, clients[m.client], {m.chan})
      BY <1>1, <2>2, <3>1, ConnectEffect
    <3> QED
      BY <1>1, <2>1, <2>2, <2>3, <2>4, <3>2, DataConnect
  <2>5. m.type # "connect" => SameAsked
    BY <1>1, <2>1, <2>2, <2>3, AskedShrinks DEF SameAsked
  <2>6. CASE m.type = "migrate"
    <3>1. UNCHANGED clients
      BY <2>1, <2>2, <2>6 DEF Handle
    <3> QED
      BY <1>1, <2>5, <2>6, <3>1, DataStill DEF SameAsked
  <2>7. CASE m.type = "disconnect"
    <3>1. clients' = [clients EXCEPT ![m.client].chan[m.chan] = "off"]
      BY <2>1, <2>2, <2>7 DEF Handle
    <3>2. Alive(m.client, m.chan)
      BY <2>2, <2>7 DEF RccInv, AliveInv
    <3>3. clients[m.client].chan[m.chan] = "on" \/ clients[m.client].chan[m.chan] = "off"
      BY <3>2 DEF Alive
    <3>4. PICK r \in Client : /\ Becomes(m.client, r) /\ RingOf(r)
                              /\ Only(r, clients[m.client], {"chan"})
                              /\ \A x \in Chans : r.chan[x] = IF x = m.chan THEN "off"
                                                              ELSE clients[m.client].chan[x]
      BY <1>1, <2>2, <3>1, <3>2, DisconnectedEffect, ZenonT(30)
    <3>5. r.pending = clients[m.client].pending
      BY <3>4 DEF Only, Fields
    <3>6. r.listed = clients[m.client].listed
      BY <3>4 DEF Only, Fields
    <3>7. \A x \in Chans : /\ r.chan[x] = "none" <=> clients[m.client].chan[x] = "none"
                           /\ r.chan[x] = "on" => clients[m.client].chan[x] = "on"
      BY <3>3, <3>4
    <3>8. SameData(r, clients[m.client])
      BY <3>4, <3>5, <3>6, <3>7, DataFields
    <3> QED
      BY <1>1, <2>2, <2>5, <2>7, <3>4, <3>8, DataKept DEF SameAsked
  <2> QED
    BY <2>2, <2>4, <2>6, <2>7 DEF Requests
<1> QED
  BY <1>2, <1>3, <1>4

\* DataInv is inductive.
LEMMA DataNext ==
  ASSUME RccInv, CountInv, ArriveInv, DataInv, SeamlessLast, ~mode.late, [Next]_vars
  PROVE  DataInv'
<1>1. {Main} \cup mode.chans \subseteq Chans /\ TypeInv
  BY ChansOf DEF RccInv
<1>2. CASE MainLink \/ MainHandle \/ AskDisconnect \/ DestroyRcc \/ DestroyEnd
  BY <1>2, DataMain
<1>3. CASE \E c \in Ids : DstDoSeamless(c) \/ MigrateEnd(c) \/ Migrate(c)
  BY <1>3, DataClient
<1>4. CASE \E c \in Ids : \E ch \in mode.chans : OtherLink(c, ch)
  BY <1>1, <1>4, DataOtherLink
<1>5. CASE \E c \in Ids : \E ch \in Chans : Latency(c, ch) \/ Lose(c, ch)
  BY <1>5, DataChannel
<1>6. CASE \E c \in Ids : \E ch \in Chans : MigrateData(c, ch)
  BY <1>6, DataArrived
<1>7. CASE \E w \in Workers : WorkerRef(w) \/ WorkerPost(w) \/ WorkerHandle(w)
  BY <1>7, DataWorker
<1>8. CASE UNCHANGED vars
  BY <1>8, StillAsked, DataStill DEF vars, SameAsked
<1> QED
  BY <1>1, <1>2, <1>3, <1>4, <1>5, <1>6, <1>7, <1>8 DEF Next

\* All that the data needs.
ExpectInv == AssertInv /\ (SeamlessLast /\ ~mode.late => DataInv)

\* The data of the source finds the channel waiting, however the links, the handshake and
\* the data of the channels interleave, where the workers handle a CONNECT in time.
THEOREM DataAlwaysExpected == Spec => [](SeamlessLast /\ ~mode.late => DataExpected)
<1>1. Init => ExpectInv
  <2>1. Init => Ids = {}
    BY DEF Init, Ids
  <2>2. Init => DataInv
    BY <2>1 DEF DataInv
  <2>3. Init => AssertInv
    BY AssertInit
  <2> QED
    BY <2>2, <2>3 DEF ExpectInv
<1>2. ExpectInv /\ [Next]_vars => ExpectInv'
  <2> SUFFICES ASSUME ExpectInv, [Next]_vars PROVE ExpectInv'
    OBVIOUS
  <2>1. AssertInv /\ (SeamlessLast /\ ~mode.late => DataInv)
    BY DEF ExpectInv
  <2>2. AssertInv'
    BY <2>1, AssertNext
  <2>3. SeamlessLast' => SeamlessLast
    BY ModeKept DEF SeamlessLast
  <2>4. mode' = mode
    BY ModeKept
  <2>5. SeamlessLast /\ ~mode.late => DataInv'
    BY <2>1, DataNext DEF AssertInv
  <2> QED
    BY <2>2, <2>3, <2>4, <2>5 DEF ExpectInv
<1>3. ExpectInv => (SeamlessLast /\ ~mode.late => DataExpected)
  BY DEF ExpectInv, DataInv, DataOf, DataExpected
<1> QED
  BY <1>1, <1>2, <1>3, PTL DEF Spec
=============================================================================
