------------------------ MODULE H264Stream_proofs ------------------------
(***************************************************************************)
(* What H264Stream promises, for any number of clients, commands, retries   *)
(* and any pace: what its tests of time compute; its types; with one display *)
(* client at a time the bytes, the distance and the order of the frames; and *)
(* with one client that only gets pictures, that the worker survives and     *)
(* loses no update of the screen.                                            *)
(***************************************************************************)
EXTENDS H264Stream, SequenceParts_proofs

-----------------------------------------------------------------------------
(* What the two timeval tests compute, for every time and every pace. *)

\* Elapsed, by how many seconds apart the two times are.
LEMMA ElapsedCases ==
  ASSUME NEW t \in Times, NEW l \in Times
  PROVE  /\ Elapsed(t, l) \in Int
         /\ t.sec = l.sec => Elapsed(t, l) = t.usec - l.usec
         /\ t.sec = l.sec + 1 => Elapsed(t, l) = Second + t.usec - l.usec
         /\ t.sec >= l.sec + 2 => Elapsed(t, l) > Second
         /\ t.sec < l.sec => Elapsed(t, l) < 0
<1> USE PacingAssumption
<1>1. /\ t.sec \in Nat /\ l.sec \in Nat
      /\ t.usec \in 0 .. Second - 1 /\ l.usec \in 0 .. Second - 1
  BY DEF Times
<1>2. PICK d \in Int : d = t.sec - l.sec
  BY <1>1
<1>3. Elapsed(t, l) = d * Second + (t.usec - l.usec)
  BY <1>1, <1>2 DEF Elapsed
<1>4. Elapsed(t, l) \in Int
  <2>1. d * Second \in Int
    BY <1>2
  <2> QED
    BY <1>1, <1>3, <2>1
<1>5. CASE d = 0
  <2>1. d * Second = 0
    BY <1>5
  <2>2. t.sec = l.sec
    BY <1>1, <1>2, <1>5
  <2> QED
    BY <1>1, <1>3, <2>1, <2>2
<1>6. CASE d = 1
  BY <1>1, <1>2, <1>3, <1>6
<1>7. CASE d >= 2
  <2>1. d * Second >= 2 * Second
    BY <1>7
  <2> QED
    BY <1>1, <1>2, <1>3, <1>7, <2>1
<1>8. CASE d < 0
  <2>1. d * Second <= -Second
    BY <1>8
  <2> QED
    BY <1>1, <1>2, <1>3, <1>8, <2>1
<1> QED
  BY <1>4, <1>5, <1>6, <1>7, <1>8

\* As long as the clock does not run backwards, a frame is dropped exactly when
\* at most Pace microseconds have passed since the last one that was sent.
THEOREM PacedIsElapsed ==
  ASSUME NEW t \in Times, NEW l \in Times, Elapsed(t, l) >= 0
  PROVE  Paced(t, l) <=> Elapsed(t, l) <= Pace
<1> USE PacingAssumption
<1>1. /\ t.sec \in Nat /\ l.sec \in Nat
      /\ t.usec \in 0 .. Second - 1 /\ l.usec \in 0 .. Second - 1
  BY DEF Times
<1>2. t.sec >= l.sec
  BY <1>1, ElapsedCases
<1>3. CASE t.sec = l.sec
  BY <1>1, <1>3, ElapsedCases DEF Paced
<1>4. CASE t.sec = l.sec + 1
  BY <1>1, <1>4, ElapsedCases DEF Paced
<1>5. CASE t.sec >= l.sec + 2
  BY <1>1, <1>5, ElapsedCases DEF Paced
<1> QED
  BY <1>1, <1>2, <1>3, <1>4, <1>5

\* A frame is due for insertion exactly when a second has passed.
THEOREM InsertDueIsElapsed ==
  ASSUME NEW t \in Times, NEW l \in Times
  PROVE  InsertDue(t, l) <=> Elapsed(t, l) >= Second
<1> USE PacingAssumption
<1>1. /\ t.sec \in Nat /\ l.sec \in Nat
      /\ t.usec \in 0 .. Second - 1 /\ l.usec \in 0 .. Second - 1
  BY DEF Times
<1>2. CASE t.sec < l.sec
  BY <1>1, <1>2, ElapsedCases DEF InsertDue
<1>3. CASE t.sec = l.sec
  BY <1>1, <1>3, ElapsedCases DEF InsertDue
<1>4. CASE t.sec = l.sec + 1
  BY <1>1, <1>4, ElapsedCases DEF InsertDue
<1>5. CASE t.sec >= l.sec + 2
  BY <1>1, <1>5, ElapsedCases DEF InsertDue
<1> QED
  BY <1>1, <1>2, <1>3, <1>4, <1>5

-----------------------------------------------------------------------------
(* Types.  The parts of the invariant need each other's. *)

\* Where the worker is, and in which pass over the clients.
ControlInv ==
    /\ pc \in {"poll", "events", "commands", "insert", "push", "write",
               "aborted", "crashed", "hung"}
    /\ loop \in {"insert", "push"} /\ next \in {"events", "poll"}
    /\ pc \in {"push", "insert"} => loop = pc
    /\ timeout \in {"none", "cmd", "inf"} /\ repoll \in 0 .. Retries + 1

\* Nothing is left to do between two passes, so that the clients may change.
PassInv ==
    /\ mode \in Modes
    /\ clients \in Seq(Clients) /\ IsInjective(clients) /\ Len(clients) <= mode.clients
    /\ todo \in Seq(Connected) /\ Len(todo) <= Len(clients)
    /\ pc \in {"poll", "events", "commands"} => todo = <<>>
    /\ pc = "write" => todo # <<>>

PictureInv ==
    /\ ring \in Nat /\ screen \in Nat /\ draws \in 0 .. MaxDraws /\ ring + screen <= draws
    /\ canvas \in BOOLEAN /\ avc \in BOOLEAN /\ lastDrop \in BOOLEAN
    /\ others \in Nat /\ connects \in Nat /\ destroys \in Nat

\* A client that is gone has nothing to send.
SendInv ==
    /\ pipe \in [Clients -> Seq(PipeItems)] /\ out \in [Clients -> Messages]
    /\ shown \in [Clients -> 0 .. MaxDraws]
    /\ \A c \in Clients \ Connected : out[c] = NoMsg

TimeInv ==
    /\ lastTime \in Times /\ clock \in Times /\ clock.sec = MaxSec
    /\ sentAt \in [Clients -> Times] /\ burst \subseteq Clients

TypeInv == ControlInv /\ PassInv /\ PictureInv /\ SendInv /\ TimeInv

\* The parts of the invariant say at least what TypeOK says.
LEMMA TypeInvTypes == TypeInv => TypeOK
BY Zenon DEF TypeInv, TypeOK, ControlInv, PassInv, PictureInv, SendInv, TimeInv

\* What the worker builds is a message, and what it queues a pipe item.
LEMMA MessageTypes ==
  /\ Epoch \in Times
  /\ NoMsg \in Messages /\ Msg("reset", 0) \in Messages
  /\ NoMsg.kind = "none" /\ NoMsg.own /\ PipeItems \subseteq Messages
  /\ Msg("other", 0) \in PipeItems
  /\ \A v \in 0 .. MaxDraws : /\ Msg("draw", v) \in PipeItems /\ Msg("image", v) \in PipeItems
                              /\ Msg("frame", v) \in Messages
  /\ \A m \in Messages : [m EXCEPT !.own = FALSE] \in Messages
<1> USE PacingAssumption, StreamAssumption
<1>1. Epoch \in Times
  BY DEF Epoch, Times
<1>2. NoMsg \in Messages /\ NoMsg.kind = "none" /\ NoMsg.own /\ Msg("reset", 0) \in Messages
  BY DEF NoMsg, Msg, Messages, Pictures
<1>3. PipeItems \subseteq Messages /\ Msg("other", 0) \in PipeItems
  BY DEF Msg, Messages, PipeItems, Pictures
<1>4. ASSUME NEW v \in 0 .. MaxDraws
      PROVE  /\ Msg("draw", v) \in PipeItems /\ Msg("image", v) \in PipeItems
             /\ Msg("frame", v) \in Messages
  BY DEF Msg, Messages, PipeItems, Pictures
<1>5. ASSUME NEW m \in Messages PROVE [m EXCEPT !.own = FALSE] \in Messages
  BY DEF Messages
<1> QED
  BY <1>1, <1>2, <1>3, <1>4, <1>5

\* A server without clients, commands and frames is of its types.
LEMMA TypeInit == Init => TypeInv
<1> SUFFICES ASSUME Init PROVE TypeInv
  OBVIOUS
<1>1. MaxSec \in Nat /\ Second \in Nat /\ Second > 0
  BY PacingAssumption, StreamAssumption
<1>2. PICK n \in Nat : n = mode.clients
  BY StreamAssumption DEF Init, Mode
<1>3. Range(clients) = {} /\ Len(clients) = 0 /\ IsInjective(clients)
  BY DEF Init, Range, IsInjective
<1>4. ControlInv
  BY StreamAssumption DEF Init, ControlInv
<1>5. PassInv
  BY <1>2, <1>3 DEF Init, PassInv
<1>6. PictureInv
  <2>1. draws \in 0 .. MaxDraws /\ ring + screen <= draws
    BY StreamAssumption DEF Init
  <2> QED
    BY <2>1, Zenon, 0 \in Nat DEF Init, PictureInv
<1>7. SendInv
  BY MessageTypes, StreamAssumption DEF Init, SendInv
<1>8. TimeInv
  BY <1>1, MessageTypes DEF Init, TimeInv, Times
<1> QED
  BY <1>4, <1>5, <1>6, <1>7, <1>8 DEF TypeInv

\* Time only moves forward, and the record with it.
LEMMA AdvanceType ==
  ASSUME TimeInv, Advance
  PROVE  /\ clock' \in Times /\ clock'.sec = MaxSec /\ lastTime' \in Times
         /\ sentAt' \in [Clients -> Times]
<1>1. Second \in Nat /\ clock \in Times /\ lastTime \in Times /\ clock.sec = MaxSec
      /\ sentAt \in [Clients -> Times]
  BY PacingAssumption DEF TimeInv
<1>2. \A t \in Times : Earlier(t) \in Times
  BY <1>1, MessageTypes DEF Earlier, Times
<1>3. CASE clock.usec < Second - 1
  BY <1>1, <1>3 DEF Advance, Times
<1>4. CASE ~(clock.usec < Second - 1)
  BY <1>1, <1>2, <1>4 DEF Advance, Times
<1> QED
  BY <1>3, <1>4

\* The clients of a pass are connected; its first one is done first.
LEMMA PassClients ==
  ASSUME PassInv
  PROVE  /\ Connected \subseteq Clients
         /\ clients \in Seq(Connected) /\ Len(clients) \in Nat
         /\ todo # <<>> => /\ Head(todo) \in Connected /\ Tail(todo) \in Seq(Connected)
                           /\ Len(Tail(todo)) = Len(todo) - 1 /\ Len(todo) \in Nat
<1>1. clients \in Seq(Clients) /\ todo \in Seq(Connected)
  BY DEF PassInv
<1>2. Connected \subseteq Clients
  BY <1>1 DEF Connected, Range
<1>3. clients \in Seq(Connected) /\ Len(clients) \in Nat
  BY <1>1 DEF Connected, Range
<1>4. ASSUME todo # <<>>
      PROVE  /\ Head(todo) \in Connected /\ Tail(todo) \in Seq(Connected)
             /\ Len(Tail(todo)) = Len(todo) - 1 /\ Len(todo) \in Nat
  <2> HIDE DEF Connected
  <2> QED
    BY <1>1, <1>4
<1> QED
  BY <1>2, <1>3, <1>4

\* The worker and its threads move between the program counters of the model only.
LEMMA ControlStep ==
  ASSUME ControlInv, [Next]_vars
  PROVE  ControlInv'
<1> USE DEF sendVars, paceVars, boundVars
<1>1. ASSUME UNCHANGED <<pc, loop, next, timeout, repoll>> PROVE ControlInv'
  BY <1>1 DEF ControlInv
<1>2. CASE \/ Tick \/ GuestDraw \/ UNCHANGED vars
  BY <1>1, <1>2, Zenon
  DEF Tick, GuestDraw, vars
<1>3. CASE PollEvent
  BY <1>3 DEF PollEvent, ControlInv, Pass
<1>4. CASE PollTimeout
  BY <1>4 DEF PollTimeout, ControlInv, Pass
<1>5. CASE EventsDone
  BY <1>5 DEF EventsDone, ControlInv, Pass
<1>6. CASE ProcessCommand
  <2>1. \/ UNCHANGED <<pc, loop, next, timeout>>
        \/ timeout' = "none" /\ pc' = "push" /\ loop' = "push" /\ next' = "poll"
    BY <1>6, Zenon DEF ProcessCommand, Pass
  <2>2. repoll' = 0
    BY <1>6, Zenon DEF ProcessCommand
  <2> QED
    BY <2>1, <2>2, StreamAssumption DEF ControlInv
<1>7. CASE PipesFull
  BY <1>7 DEF PipesFull, ControlInv, Pass
<1>8. CASE RingIsEmpty
  BY <1>8, StreamAssumption DEF RingIsEmpty, ControlInv, Pass
<1>9. CASE PushRetry
  BY <1>9 DEF PushRetry, ControlInv, Pass
<1>10. CASE PushItem
  BY <1>10 DEF PushItem, ControlInv, Pass
<1>11. CASE PushClientDone
  BY <1>11 DEF PushClientDone, ControlInv, Pass
<1>12. CASE InsertFrame
  BY <1>12 DEF InsertFrame, ControlInv, Pass
<1>13. CASE WriteDone
  BY <1>13 DEF WriteDone, ControlInv, Pass
<1>14. CASE WriteBlocks
  BY <1>14 DEF WriteBlocks, ControlInv, Pass
<1>15. CASE WriteNothing
  BY <1>15 DEF WriteNothing, ControlInv, Pass
<1>16. CASE PassDone
  BY <1>16 DEF PassDone, ControlInv, Pass
<1>17. CASE PipesAddOther
  BY <1>17 DEF PipesAddOther, ControlInv, Pass
<1>18. CASE CreatePrimary
  BY <1>18 DEF CreatePrimary, ControlInv, Pass
<1>19. ASSUME NEW b \in BOOLEAN, HandleAvc(b) PROVE ControlInv'
  BY <1>1, <1>19, Zenon DEF HandleAvc
<1>20. ASSUME NEW c \in Clients, WriteEvent(c) PROVE ControlInv'
  BY <1>20 DEF WriteEvent, ControlInv, Pass
<1>21. ASSUME NEW c \in Clients, NewDisplayChannel(c) PROVE ControlInv'
  BY <1>1, <1>21, Zenon DEF NewDisplayChannel
<1>22. ASSUME NEW c \in Clients, Disconnect(c) PROVE ControlInv'
  BY <1>1, <1>22, Zenon DEF Disconnect
<1>23. ASSUME NEW slow \in SUBSET Clients, DestroyPrimary(slow) PROVE ControlInv'
  BY <1>1, <1>23, Zenon DEF DestroyPrimary
<1> QED
  BY <1>2, <1>3, <1>4, <1>5, <1>6, <1>7, <1>8, <1>9, <1>10, <1>11, <1>12,
     <1>13, <1>14, <1>15, <1>16, <1>17, <1>18, <1>19, <1>20, <1>21, <1>22,
     <1>23 DEF Next, Thread

\* Every picture rendered is a command the guest has put into the ring, taken once.
LEMMA PictureStep ==
  ASSUME PictureInv, [Next]_vars
  PROVE  PictureInv'
<1> USE DEF sendVars, paceVars, boundVars
<1>1. ASSUME UNCHANGED <<ring, screen, draws, canvas, avc, lastDrop, others, connects,
                         destroys>>
      PROVE  PictureInv'
  BY <1>1 DEF PictureInv
<1>2. CASE \/ Tick \/ PollEvent \/ PollTimeout \/ EventsDone \/ PipesFull
           \/ RingIsEmpty \/ PushRetry \/ PushClientDone \/ WriteDone \/ WriteBlocks
           \/ WriteNothing \/ PassDone \/ UNCHANGED vars
  BY <1>1, <1>2, Zenon
  DEF Tick, PollEvent, PollTimeout, EventsDone, PipesFull, RingIsEmpty,
      PushRetry, PushClientDone, WriteDone, WriteBlocks, WriteNothing, PassDone,
      vars
<1>3. CASE GuestDraw
  BY <1>3, StreamAssumption DEF GuestDraw, PictureInv
<1>4. CASE ProcessCommand
  <2>1. UNCHANGED <<draws, canvas, avc, lastDrop, others, connects, destroys>>
    BY <1>4, Zenon DEF ProcessCommand
  <2>2. ring > 0 /\ ring' = ring - 1 /\ (screen' = screen + 1 \/ UNCHANGED screen)
    BY <1>4, Zenon DEF ProcessCommand, GetCommand
  <2> QED
    BY <2>1, <2>2 DEF PictureInv
<1>5. CASE PushItem
  <2>1. lastDrop' \in BOOLEAN
    BY <1>5 DEF PushItem, DropFrame, PictureInv
  <2>2. UNCHANGED <<ring, screen, draws, canvas, avc, others, connects, destroys>>
    BY <1>5, Zenon DEF PushItem
  <2> QED
    BY <2>1, <2>2 DEF PictureInv
<1>6. CASE InsertFrame
  BY <1>6 DEF InsertFrame, PictureInv
<1>7. CASE PipesAddOther
  BY <1>7 DEF PipesAddOther, PictureInv
<1>8. CASE CreatePrimary
  BY <1>8 DEF CreatePrimary, PictureInv
<1>9. ASSUME NEW b \in BOOLEAN, HandleAvc(b) PROVE PictureInv'
  BY <1>9 DEF HandleAvc, PictureInv
<1>10. ASSUME NEW c \in Clients, WriteEvent(c) PROVE PictureInv'
  BY <1>1, <1>10, Zenon DEF WriteEvent
<1>11. ASSUME NEW c \in Clients, NewDisplayChannel(c) PROVE PictureInv'
  <2>1. UNCHANGED <<ring, screen, draws, canvas, avc, others, destroys>>
    BY <1>11, Zenon DEF NewDisplayChannel
  <2>2. lastDrop' = FALSE /\ connects' = connects + 1
    BY <1>11, Zenon DEF NewDisplayChannel, RestartPacing
  <2>3. connects' \in Nat
    BY <2>2 DEF PictureInv
  <2> QED
    BY <2>1, <2>2, <2>3, Zenon DEF PictureInv
<1>12. ASSUME NEW c \in Clients, Disconnect(c) PROVE PictureInv'
  BY <1>1, <1>12, Zenon DEF Disconnect
<1>13. ASSUME NEW slow \in SUBSET Clients, DestroyPrimary(slow) PROVE PictureInv'
  <2>1. UNCHANGED <<ring, screen, draws, avc, lastDrop, others, connects>>
    BY <1>13, Zenon DEF DestroyPrimary
  <2>2. canvas' = FALSE /\ destroys' = destroys + 1
    BY <1>13, Zenon DEF DestroyPrimary
  <2>3. destroys' \in Nat
    BY <2>2 DEF PictureInv
  <2> QED
    BY <2>1, <2>2, <2>3, Zenon DEF PictureInv
<1> QED
  BY <1>2, <1>3, <1>4, <1>5, <1>6, <1>7, <1>8, <1>9, <1>10, <1>11, <1>12,
     <1>13 DEF Next, Thread

\* All times stay within the window that ends at the present second.
LEMMA TimeStep ==
  ASSUME PassInv, TimeInv, [Next]_vars
  PROVE  TimeInv'
<1> USE DEF sendVars, paceVars, boundVars
<1>1. ASSUME UNCHANGED <<lastTime, clock, sentAt, burst>> PROVE TimeInv'
  BY <1>1 DEF TimeInv
<1>2. CASE \/ GuestDraw \/ PollEvent \/ EventsDone \/ ProcessCommand \/ PipesFull
           \/ RingIsEmpty \/ PushRetry \/ PushClientDone \/ WriteDone \/ WriteBlocks
           \/ WriteNothing \/ PassDone \/ PipesAddOther \/ CreatePrimary
           \/ UNCHANGED vars
  BY <1>1, <1>2, Zenon
  DEF GuestDraw, PollEvent, EventsDone, ProcessCommand, PipesFull,
      RingIsEmpty, PushRetry, PushClientDone, WriteDone, WriteBlocks,
      WriteNothing, PassDone, PipesAddOther, CreatePrimary, vars
<1>3. CASE Tick
  BY <1>3, AdvanceType DEF Tick, TimeInv
<1>4. CASE PollTimeout
  BY <1>4, AdvanceType DEF PollTimeout, TimeInv
<1>5. CASE PushItem
  <2>1. Head(todo) \in Clients
    BY <1>5, PassClients DEF PushItem
  <2>2. \/ UNCHANGED <<lastTime, clock, sentAt, burst>>
        \/ lastTime' = clock /\ UNCHANGED <<clock, sentAt, burst>>
        \/ lastTime' = clock /\ UNCHANGED clock /\ EncodeFor(Head(todo))
    BY <1>5, Zenon DEF PushItem, DropFrame
  <2> QED
    BY <2>1, <2>2 DEF TimeInv, EncodeFor
<1>6. CASE InsertFrame
  <2>1. Head(todo) \in Clients
    BY <1>6, PassClients DEF InsertFrame
  <2>2. \/ UNCHANGED <<lastTime, clock, sentAt, burst>>
        \/ lastTime' = clock /\ UNCHANGED <<clock, sentAt, burst>>
        \/ lastTime' = clock /\ UNCHANGED clock /\ EncodeFor(Head(todo))
    BY <1>6, Zenon DEF InsertFrame, DropFrame
  <2> QED
    BY <2>1, <2>2 DEF TimeInv, EncodeFor
<1>7. ASSUME NEW b \in BOOLEAN, HandleAvc(b) PROVE TimeInv'
  BY <1>1, <1>7, Zenon DEF HandleAvc
<1>8. ASSUME NEW c \in Clients, WriteEvent(c) PROVE TimeInv'
  BY <1>1, <1>8, Zenon DEF WriteEvent
<1>9. ASSUME NEW c \in Clients, NewDisplayChannel(c) PROVE TimeInv'
  BY <1>9, MessageTypes DEF NewDisplayChannel, TimeInv, RestartPacing
<1>10. ASSUME NEW c \in Clients, Disconnect(c) PROVE TimeInv'
  BY <1>1, <1>10, Zenon DEF Disconnect
<1>11. ASSUME NEW slow \in SUBSET Clients, DestroyPrimary(slow) PROVE TimeInv'
  BY <1>1, <1>11, Zenon DEF DestroyPrimary
<1> QED
  BY <1>2, <1>3, <1>4, <1>5, <1>6, <1>7, <1>8, <1>9, <1>10, <1>11 DEF Next, Thread


\* What a step that changes no client has to leave of the pass.
LEMMA PassKept ==
  ASSUME PassInv, UNCHANGED <<clients, mode>>,
         todo' \in Seq(Connected), Len(todo') <= Len(clients),
         pc' \in {"poll", "events", "commands"} => todo' = <<>>,
         pc' = "write" => todo' # <<>>
  PROVE  PassInv'
<1>1. Connected' = Connected
  BY DEF Connected
<1> QED
  BY <1>1 DEF PassInv

\* A pass serves connected clients, each at most once, and is over when it ends.
LEMMA PassStep ==
  ASSUME ControlInv, PassInv, [Next]_vars
  PROVE  PassInv'
<1> USE DEF sendVars, paceVars, boundVars
<1>a. todo \in Seq(Connected) /\ Len(todo) \in Nat /\ Len(todo) <= Len(clients)
  BY DEF PassInv
<1>1. CASE \/ Tick \/ GuestDraw \/ PollEvent \/ PollTimeout \/ EventsDone \/ PushRetry
           \/ WriteNothing \/ UNCHANGED vars
  <2>1. UNCHANGED <<clients, mode, todo>>
    BY <1>1, Zenon DEF Tick, GuestDraw, PollEvent, PollTimeout, EventsDone, PushRetry,
                       WriteNothing, vars
  <2>2. /\ pc' \in {"poll", "events", "commands"} => pc \in {"poll", "events", "commands"}
        /\ pc' = "write" => pc = "write" \/ todo # <<>>
    BY <1>1 DEF Tick, GuestDraw, PollEvent, PollTimeout, EventsDone, PushRetry,
                WriteNothing, vars
  <2> QED
    BY <1>a, <2>1, <2>2, PassKept DEF PassInv
<1>2. CASE PipesFull \/ RingIsEmpty \/ PipesAddOther \/ CreatePrimary
  <2>1. UNCHANGED <<clients, mode>> /\ todo' = clients /\ pc' \in {"insert", "push"}
    BY <1>2 DEF PipesFull, RingIsEmpty, PipesAddOther, CreatePrimary, Pass
  <2> QED
    BY <2>1, PassKept, PassClients
<1>3. CASE PushItem \/ PushClientDone \/ InsertFrame \/ WriteDone \/ WriteBlocks
  <2>1. UNCHANGED <<clients, mode>>
    BY <1>3, Zenon DEF PushItem, PushClientDone, InsertFrame, WriteDone, WriteBlocks
  <2>2. todo # <<>> /\ todo' \in {todo, Tail(todo)}
    BY <1>3 DEF PushItem, PushClientDone, InsertFrame, WriteDone, WriteBlocks, PassInv
  <2>3. pc' = "write" => todo' = todo
    BY <1>3 DEF PushItem, PushClientDone, InsertFrame, WriteDone, WriteBlocks, ControlInv
  <2>4. pc' \notin {"poll", "events", "commands"}
    BY <1>3 DEF PushItem, PushClientDone, InsertFrame, WriteDone, WriteBlocks, ControlInv
  <2>5. todo' \in Seq(Connected) /\ Len(todo') <= Len(clients)
    BY <1>a, <2>2, PassClients
  <2> QED
    BY <2>1, <2>2, <2>3, <2>4, <2>5, PassKept
<1>4. CASE ProcessCommand
  <2>1. UNCHANGED <<clients, mode>> /\ pc = "commands"
    BY <1>4, Zenon DEF ProcessCommand
  <2>2. UNCHANGED <<pc, todo>> \/ (pc' = "push" /\ todo' = clients)
    BY <1>4, Zenon DEF ProcessCommand, Pass
  <2>3. todo' \in Seq(Connected) /\ Len(todo') <= Len(clients)
    BY <1>a, <2>2, PassClients
  <2> QED
    BY <2>1, <2>2, <2>3, PassKept DEF PassInv
<1>5. CASE PassDone
  <2>1. UNCHANGED <<clients, mode>>
    BY <1>5, Zenon DEF PassDone
  <2>2. \/ pc' = "push" /\ todo' = clients
        \/ pc' \in {"events", "poll"} /\ todo' = <<>>
    BY <1>5 DEF PassDone, Pass, ControlInv
  <2>3. <<>> \in Seq(Connected) /\ Len(<<>>) <= Len(clients)
    BY PassClients
  <2>4. todo' \in Seq(Connected) /\ Len(todo') <= Len(clients)
    <3>1. Len(clients) <= Len(clients)
      BY PassClients
    <3> QED
      BY <2>2, <2>3, <3>1, PassClients, Zenon
  <2> QED
    BY <2>1, <2>2, <2>4, PassKept
<1>6. ASSUME NEW c \in Clients, WriteEvent(c) PROVE PassInv'
  <2>1. UNCHANGED <<clients, mode>> /\ pc' = "push" /\ todo' = <<c>> /\ c \in Connected
    BY <1>6, Zenon DEF WriteEvent, Pass
  <2>2. Len(clients) \in Nat /\ Len(clients) # 0
    BY <2>1, PassClients DEF Connected, Range, PassInv
  <2>3. todo' \in Seq(Connected) /\ Len(todo') = 1
    BY <2>1
  <2> QED
    BY <2>1, <2>2, <2>3, PassKept
<1>7. ASSUME NEW b \in BOOLEAN, HandleAvc(b) PROVE PassInv'
  <2>1. UNCHANGED <<clients, mode, todo, pc>>
    BY <1>7, Zenon DEF HandleAvc
  <2> QED
    BY <1>a, <2>1, PassKept DEF PassInv
<1>8. ASSUME NEW c \in Clients, NewDisplayChannel(c) PROVE PassInv'
  <2>1. todo' = <<>> /\ UNCHANGED <<pc, todo, mode>>
    BY <1>8 DEF NewDisplayChannel, PassInv
  <2>2. /\ clients' = <<c>> \o clients /\ clients \in Seq(Clients) /\ IsInjective(clients)
        /\ Len(clients) < mode.clients /\ c \notin Connected /\ pc = "events"
    BY <1>8 DEF NewDisplayChannel, PassInv
  <2>3. PICK n \in Nat : n = Len(clients) /\ DOMAIN clients = 1 .. n
    BY <2>2
  <2>4. clients' \in Seq(Clients) /\ Len(clients') = n + 1
    BY <2>2, <2>3
  <2>5. /\ clients'[1] = c
        /\ \A i \in 2 .. n + 1 : clients'[i] = clients[i - 1] /\ i - 1 \in 1 .. n
    BY <2>2, <2>3
  <2>6. \A i \in 1 .. n : clients[i] # c
    BY <2>2, <2>3 DEF Connected, Range
  <2>7. IsInjective(clients')
    BY <2>2, <2>3, <2>4, <2>5, <2>6 DEF IsInjective
  <2>8. mode \in Modes /\ mode.clients \in Nat
    BY StreamAssumption DEF PassInv, Mode
  <2>9. n < mode.clients
    BY <2>2, <2>3
  <2>10. Len(clients') <= mode'.clients /\ Len(todo') <= Len(clients')
    BY <2>1, <2>3, <2>4, <2>8, <2>9
  <2> QED
    BY <2>1, <2>2, <2>4, <2>7, <2>8, <2>10 DEF PassInv
<1>9. ASSUME NEW c \in Clients, Disconnect(c) PROVE PassInv'
  <2>1. todo' = <<>> /\ UNCHANGED <<pc, mode>> /\ clients' = Kept(clients, Clients \ {c})
    BY <1>9 DEF Disconnect, PassInv
  <2>2. clients \in Seq(Clients) /\ IsInjective(clients)
    BY DEF PassInv
  <2>3. clients' \in Seq(Clients) /\ IsInjective(clients') /\ Len(clients') <= Len(clients)
    BY <2>1, <2>2, KeptElements
  <2>4. mode \in Modes /\ mode.clients \in Nat /\ Len(clients) <= mode.clients /\ pc = "events"
    BY <1>9, StreamAssumption DEF PassInv, Mode, Disconnect
  <2>5. Len(clients') <= mode'.clients /\ Len(todo') <= Len(clients')
    BY <2>1, <2>2, <2>3, <2>4
  <2> QED
    BY <2>1, <2>3, <2>4, <2>5 DEF PassInv
<1>10. ASSUME NEW slow \in SUBSET Clients, DestroyPrimary(slow) PROVE PassInv'
  <2>1. todo' = <<>> /\ UNCHANGED <<pc, mode>> /\ clients' = Kept(clients, Clients \ slow)
    BY <1>10 DEF DestroyPrimary, PassInv
  <2>2. clients \in Seq(Clients) /\ IsInjective(clients)
    BY DEF PassInv
  <2>3. clients' \in Seq(Clients) /\ IsInjective(clients') /\ Len(clients') <= Len(clients)
    BY <2>1, <2>2, KeptElements
  <2>4. mode \in Modes /\ mode.clients \in Nat /\ Len(clients) <= mode.clients /\ pc = "events"
    BY <1>10, StreamAssumption DEF PassInv, Mode, DestroyPrimary
  <2>5. Len(clients') <= mode'.clients /\ Len(todo') <= Len(clients')
    BY <2>1, <2>2, <2>3, <2>4
  <2> QED
    BY <2>1, <2>3, <2>4, <2>5 DEF PassInv
<1> QED
  BY <1>1, <1>2, <1>3, <1>4, <1>5, <1>6, <1>7, <1>8, <1>9, <1>10 DEF Next, Thread

\* red_pipes_add queues an item for every client.
LEMMA PipesAddType ==
  ASSUME SendInv, NEW m \in PipeItems, PipesAdd(m)
  PROVE  pipe' \in [Clients -> Seq(PipeItems)]
BY DEF SendInv, PipesAdd

\* Encoding for c gives c a whole frame, and overwrites those of the others.
LEMMA EncodeType ==
  ASSUME PictureInv, SendInv, NEW c \in Clients, EncodeFor(c)
  PROVE  /\ out' \in [Clients -> Messages]
         /\ out'[c] = Msg("frame", screen)
         /\ \A d \in Clients \ {c} :
              out'[d] = IF out[d].kind = "frame" THEN [out[d] EXCEPT !.own = FALSE] ELSE out[d]
<1>1. screen \in 0 .. MaxDraws
  BY StreamAssumption DEF PictureInv
<1>2. Msg("frame", screen) \in Messages /\ \A m \in Messages : [m EXCEPT !.own = FALSE] \in Messages
  BY <1>1, MessageTypes
<1> QED
  BY <1>2 DEF EncodeFor, SendInv

\* Pipes and messages being sent keep their types, and a client that leaves keeps none.
LEMMA SendStep ==
  ASSUME PassInv, PictureInv, SendInv, [Next]_vars
  PROVE  SendInv'
<1> USE DEF sendVars, paceVars, boundVars
<1>1. ASSUME UNCHANGED <<clients, pipe, out, shown>> PROVE SendInv'
  BY <1>1 DEF SendInv, Connected
<1>2. CASE \/ Tick \/ GuestDraw \/ PollEvent \/ PollTimeout \/ EventsDone
           \/ PipesFull \/ RingIsEmpty \/ PushRetry \/ PushClientDone \/ WriteBlocks
           \/ WriteNothing \/ PassDone \/ UNCHANGED vars
  BY <1>1, <1>2, Zenon
  DEF Tick, GuestDraw, PollEvent, PollTimeout, EventsDone, PipesFull,
      RingIsEmpty, PushRetry, PushClientDone, WriteBlocks, WriteNothing,
      PassDone, vars
<1>3. CASE ProcessCommand
  <2>1. screen + 1 \in 0 .. MaxDraws
    BY <1>3, StreamAssumption DEF ProcessCommand, PictureInv
  <2>2. PipesAdd(Msg("draw", screen + 1)) \/ UNCHANGED pipe
    BY <1>3, Zenon DEF ProcessCommand
  <2>3. pipe' \in [Clients -> Seq(PipeItems)]
    BY <2>1, <2>2, PipesAddType, MessageTypes DEF SendInv
  <2>4. UNCHANGED <<clients, out, shown>>
    BY <1>3, Zenon DEF ProcessCommand
  <2> QED
    BY <2>3, <2>4 DEF SendInv, Connected
<1>4. CASE PushItem
  <2> DEFINE c == Head(todo)
  <2>1. c \in Connected /\ c \in Clients
    BY <1>4, PassClients DEF PushItem
  <2>2. pipe[c] # <<>> /\ pipe' = [pipe EXCEPT ![c] = Tail(@)] /\ UNCHANGED <<clients, shown>>
    BY <1>4, Zenon DEF PushItem
  <2>3. \/ UNCHANGED out
        \/ EncodeFor(c)
        \/ out' = [out EXCEPT ![c] = Head(pipe[c])]
    BY <1>4, Zenon DEF PushItem, DropFrame
  <2> HIDE DEF c
  <2>4. /\ pipe' \in [Clients -> Seq(PipeItems)] /\ Head(pipe[c]) \in PipeItems
    BY <2>1, <2>2 DEF SendInv
  <2>5. out' \in [Clients -> Messages] /\ \A d \in Clients \ Connected : out'[d] = NoMsg
    <3>1. CASE UNCHANGED out
      BY <3>1 DEF SendInv
    <3>2. CASE EncodeFor(c)
      BY <2>1, <3>2, EncodeType, MessageTypes DEF SendInv
    <3>3. CASE out' = [out EXCEPT ![c] = Head(pipe[c])]
      BY <2>1, <2>4, <3>3, MessageTypes DEF SendInv
    <3> QED
      BY <2>3, <3>1, <3>2, <3>3
  <2> QED
    BY <2>2, <2>4, <2>5 DEF SendInv, Connected
<1>5. CASE InsertFrame
  <2> DEFINE c == Head(todo)
  <2>1. c \in Connected /\ c \in Clients
    BY <1>5, PassClients DEF InsertFrame
  <2>2. UNCHANGED <<clients, pipe, shown>>
    BY <1>5, Zenon DEF InsertFrame
  <2>3. \/ UNCHANGED out
        \/ EncodeFor(c)
        \/ out' = [out EXCEPT ![c] = Msg("reset", 0)]
    BY <1>5, Zenon DEF InsertFrame
  <2> HIDE DEF c
  <2>4. out' \in [Clients -> Messages] /\ \A d \in Clients \ Connected : out'[d] = NoMsg
    <3>1. CASE UNCHANGED out
      BY <3>1 DEF SendInv
    <3>2. CASE EncodeFor(c)
      BY <2>1, <3>2, EncodeType, MessageTypes DEF SendInv
    <3>3. CASE out' = [out EXCEPT ![c] = Msg("reset", 0)]
      BY <2>1, <3>3, MessageTypes DEF SendInv
    <3> QED
      BY <2>3, <3>1, <3>2, <3>3
  <2> QED
    BY <2>2, <2>4 DEF SendInv, Connected
<1>6. CASE WriteDone
  <2> DEFINE c == Head(todo)
  <2>1. c \in Connected /\ c \in Clients
    BY <1>6, PassClients DEF WriteDone, PassInv
  <2>2. /\ UNCHANGED <<clients, pipe>> /\ out' = [out EXCEPT ![c] = NoMsg]
        /\ UNCHANGED shown \/ shown' = [shown EXCEPT ![c] = out[c].ver]
    BY <1>6, Zenon DEF WriteDone
  <2> HIDE DEF c
  <2>3. out' \in [Clients -> Messages] /\ \A d \in Clients \ Connected : out'[d] = NoMsg
    BY <2>1, <2>2, MessageTypes DEF SendInv
  <2>4. out[c].ver \in 0 .. MaxDraws
    BY <2>1 DEF SendInv, Messages
  <2>5. shown' \in [Clients -> 0 .. MaxDraws]
    BY <2>2, <2>4 DEF SendInv
  <2> QED
    BY <2>2, <2>3, <2>5 DEF SendInv, Connected
<1>7. CASE PipesAddOther
  <2>1. pipe' \in [Clients -> Seq(PipeItems)]
    BY <1>7, PipesAddType, MessageTypes DEF PipesAddOther
  <2>2. UNCHANGED <<clients, out, shown>>
    BY <1>7, Zenon DEF PipesAddOther
  <2> QED
    BY <2>1, <2>2 DEF SendInv, Connected
<1>8. CASE CreatePrimary
  <2>1. pipe' \in [Clients -> Seq(PipeItems)]
    BY <1>8, PipesAddType, MessageTypes DEF CreatePrimary
  <2>2. UNCHANGED <<clients, out, shown>>
    BY <1>8, Zenon DEF CreatePrimary
  <2> QED
    BY <2>1, <2>2 DEF SendInv, Connected
<1>9. ASSUME NEW b \in BOOLEAN, HandleAvc(b) PROVE SendInv'
  BY <1>1, <1>9, Zenon DEF HandleAvc
<1>10. ASSUME NEW c \in Clients, WriteEvent(c) PROVE SendInv'
  BY <1>1, <1>10, Zenon DEF WriteEvent
<1>11. ASSUME NEW c \in Clients, NewDisplayChannel(c) PROVE SendInv'
  <2>1. screen \in 0 .. MaxDraws
    BY StreamAssumption DEF PictureInv
  <2>2. clients' = <<c>> \o clients /\ clients \in Seq(Clients)
    BY <1>11 DEF NewDisplayChannel, PassInv
  <2>3. Connected' = Connected \cup {c}
    BY <2>2, RangeConcat DEF Connected
  <2>4. pipe' \in [Clients -> Seq(PipeItems)] /\ shown' \in [Clients -> 0 .. MaxDraws]
    BY <1>11, <2>1, MessageTypes, StreamAssumption DEF NewDisplayChannel, SendInv
  <2>5. \A d \in Clients :
          out'[d] = IF out[d].kind = "frame" THEN [out[d] EXCEPT !.own = FALSE] ELSE out[d]
    BY <1>11 DEF NewDisplayChannel
  <2>6. out' \in [Clients -> Messages]
    BY <1>11, MessageTypes DEF NewDisplayChannel, SendInv
  <2>7. \A d \in Clients \ Connected' : out'[d] = NoMsg
    BY <2>3, <2>5, MessageTypes DEF SendInv
  <2> QED
    BY <2>4, <2>6, <2>7 DEF SendInv
<1>12. ASSUME NEW c \in Clients, Disconnect(c) PROVE SendInv'
  <2>1. clients' = Kept(clients, Clients \ {c}) /\ clients \in Seq(Clients)
    BY <1>12 DEF Disconnect, PassInv
  <2>2. Connected' = Connected \ {c}
    <3>1. Connected' = Connected \cap (Clients \ {c})
      BY <2>1, KeptElements DEF Connected
    <3> QED
      BY <3>1, PassClients
  <2>3. /\ pipe' = [pipe EXCEPT ![c] = <<>>] /\ out' = [out EXCEPT ![c] = NoMsg]
        /\ UNCHANGED shown
    BY <1>12, Zenon DEF Disconnect, ClearSentItem
  <2>4. \A d \in Clients \ Connected' : out'[d] = NoMsg
    BY <2>2, <2>3 DEF SendInv
  <2> QED
    BY <2>3, <2>4, MessageTypes DEF SendInv
<1>13. ASSUME NEW slow \in SUBSET Clients, DestroyPrimary(slow) PROVE SendInv'
  <2>1. out' = [d \in Clients |-> NoMsg]
    BY <1>13, Zenon DEF DestroyPrimary
  <2>2. \A d \in Clients : out[d].ver \in 0 .. MaxDraws
    BY DEF SendInv, Messages
  <2>3. shown' \in [Clients -> 0 .. MaxDraws]
    BY <1>13, <2>2 DEF DestroyPrimary, SendInv
  <2>4. \A d \in Clients : Append(Kept(pipe[d], NoDraws), Msg("other", 0)) \in Seq(PipeItems)
    <3> SUFFICES ASSUME NEW d \in Clients
                 PROVE  Append(Kept(pipe[d], NoDraws), Msg("other", 0)) \in Seq(PipeItems)
      OBVIOUS
    <3>1. pipe[d] \in Seq(PipeItems)
      BY DEF SendInv
    <3>2. Kept(pipe[d], NoDraws) \in Seq(PipeItems)
      BY <3>1, KeptElements
    <3> QED
      BY <3>2, MessageTypes
  <2>5. pipe' \in [Clients -> Seq(PipeItems)]
    BY <1>13, <2>4 DEF DestroyPrimary
  <2> QED
    BY <2>1, <2>3, <2>5, MessageTypes DEF SendInv
<1> QED
  BY <1>2, <1>3, <1>4, <1>5, <1>6, <1>7, <1>8, <1>9, <1>10, <1>11, <1>12,
     <1>13 DEF Next, Thread

\* Every step keeps the types, each part with the parts it needs.
LEMMA TypeStep == TypeInv /\ [Next]_vars => TypeInv'
BY ControlStep, PassStep, PictureStep, SendStep, TimeStep DEF TypeInv

\* ... so the types hold from the start of the server on.
LEMMA TypeInvHolds == Spec => []TypeInv
BY TypeInit, TypeStep, PTL DEF Spec

\* Every variable keeps its type; the pictures rendered never outnumber the commands
\* of the guest, and the clients of a pass are connected ones as long as it lasts.
THEOREM TypeCorrect == Spec => []TypeOK
BY TypeInvHolds, TypeInvTypes, PTL

-----------------------------------------------------------------------------
(* One client at a time: its frames keep their bytes and their distance. *)

\* The mode is settled when the server starts.
LEMMA ModeFixed ==
  ASSUME [Next]_vars
  PROVE  UNCHANGED mode
BY Zenon
   DEF Next, Thread, Tick, GuestDraw, PollEvent, PollTimeout, EventsDone,
       ProcessCommand, PipesFull, RingIsEmpty, PushRetry, PushItem, PushClientDone,
       InsertFrame, WriteDone, WriteBlocks, WriteNothing, PassDone, PipesAddOther,
       CreatePrimary, HandleAvc, WriteEvent, NewDisplayChannel, Disconnect,
       DestroyPrimary, boundVars, vars

\* With one client at a time, whoever connects is alone.
LEMMA OneClient ==
  ASSUME PassInv, mode.clients = 1
  PROVE  /\ \A c, d \in Connected : c = d
         /\ Len(clients) < mode.clients => Connected = {}
         /\ Len(todo) <= 1
<1>1. clients \in Seq(Clients) /\ Len(clients) <= 1 /\ Len(todo) <= Len(clients)
  BY DEF PassInv
<1>2. PICK n \in Nat : n = Len(clients) /\ DOMAIN clients = 1 .. n
  BY <1>1
<1>3. n = 0 \/ n = 1
  BY <1>1, <1>2
<1>4. DOMAIN clients \subseteq {1}
  BY <1>2, <1>3
<1>5. \A c, d \in Connected : c = d
  BY <1>4 DEF Connected, Range
<1>6. n < 1 => Connected = {}
  BY <1>2, <1>3 DEF Connected, Range
<1>7. Len(todo) \in Nat
  BY DEF PassInv
<1> QED
  BY <1>1, <1>2, <1>3, <1>5, <1>6, <1>7

\* The encoder's buffer still holds the frame that is being written.
OwnInv == mode.clients = 1 => \A c \in Clients : out[c].own

\* A frame is encoded only when the one client is being sent nothing.
LEMMA OwnStep ==
  ASSUME TypeInv, OwnInv, [Next]_vars
  PROVE  OwnInv'
<1> USE DEF sendVars, paceVars, boundVars
<1>a. PassInv /\ PictureInv /\ SendInv
  BY DEF TypeInv
<1>b. UNCHANGED mode
  BY ModeFixed
<1> SUFFICES ASSUME mode.clients = 1, \A c \in Clients : out[c].own
             PROVE  \A c \in Clients : out'[c].own
  BY <1>b DEF OwnInv
<1>e. ASSUME NEW c \in Connected, EncodeFor(c)
      PROVE  \A d \in Clients : out'[d].own
  <2>1. c \in Clients
    BY <1>a, PassClients
  <2>2. Msg("frame", screen).own
    BY DEF Msg
  <2>3. \A d \in Clients \ {c} : out[d] = NoMsg
    BY <1>a, <1>e, OneClient DEF SendInv
  <2> QED
    BY <1>a, <1>e, <2>1, <2>2, <2>3, EncodeType, MessageTypes
<1>h. todo # <<>> => Head(todo) \in Connected /\ Head(todo) \in Clients
  BY <1>a, PassClients
<1>1. CASE UNCHANGED out
  BY <1>1
<1>2. CASE PushItem
  <2>1. \/ UNCHANGED out
        \/ EncodeFor(Head(todo))
        \/ out' = [out EXCEPT ![Head(todo)] = Head(pipe[Head(todo)])]
    BY <1>2, Zenon DEF PushItem, DropFrame
  <2>2. Head(pipe[Head(todo)]) \in PipeItems /\ Head(todo) \in Connected
    BY <1>2, <1>a, <1>h DEF PushItem, SendInv
  <2>3. Head(pipe[Head(todo)]).own
    BY <2>2 DEF PipeItems
  <2> QED
    BY <1>a, <1>1, <1>e, <2>1, <2>2, <2>3 DEF SendInv
<1>3. CASE InsertFrame
  <2>1. \/ UNCHANGED out
        \/ EncodeFor(Head(todo))
        \/ out' = [out EXCEPT ![Head(todo)] = Msg("reset", 0)]
    BY <1>3, Zenon DEF InsertFrame
  <2>2. Head(todo) \in Connected
    BY <1>3, <1>h DEF InsertFrame
  <2>3. Msg("reset", 0).own
    BY DEF Msg
  <2> QED
    BY <1>a, <1>1, <1>e, <2>1, <2>2, <2>3 DEF SendInv
<1>4. CASE WriteDone
  <2>1. out' = [out EXCEPT ![Head(todo)] = NoMsg]
    BY <1>4, Zenon DEF WriteDone
  <2> QED
    BY <1>a, <2>1, MessageTypes DEF SendInv
<1>5. ASSUME NEW c \in Clients, NewDisplayChannel(c) PROVE \A d \in Clients : out'[d].own
  <2>1. \A d \in Clients : out[d] = NoMsg
    BY <1>a, <1>5, OneClient DEF SendInv, NewDisplayChannel
  <2>2. \A d \in Clients :
          out'[d] = IF out[d].kind = "frame" THEN [out[d] EXCEPT !.own = FALSE] ELSE out[d]
    BY <1>5 DEF NewDisplayChannel
  <2> QED
    BY <2>1, <2>2, MessageTypes
<1>6. ASSUME NEW c \in Clients, Disconnect(c) PROVE \A d \in Clients : out'[d].own
  BY <1>a, <1>6, MessageTypes DEF Disconnect, ClearSentItem, SendInv
<1>7. ASSUME NEW slow \in SUBSET Clients, DestroyPrimary(slow)
      PROVE  \A d \in Clients : out'[d].own
  BY <1>7, MessageTypes DEF DestroyPrimary
<1>8. CASE \/ Tick \/ GuestDraw \/ PollEvent \/ PollTimeout \/ EventsDone \/ ProcessCommand
           \/ PipesFull \/ RingIsEmpty \/ PushRetry \/ PushClientDone \/ WriteBlocks
           \/ WriteNothing \/ PassDone \/ PipesAddOther \/ CreatePrimary \/ UNCHANGED vars
  BY <1>1, <1>8, Zenon
     DEF Tick, GuestDraw, PollEvent, PollTimeout, EventsDone, ProcessCommand, PipesFull,
         RingIsEmpty, PushRetry, PushClientDone, WriteBlocks, WriteNothing, PassDone,
         PipesAddOther, CreatePrimary, vars
<1>9. CASE (\E b \in BOOLEAN : HandleAvc(b)) \/ (\E c \in Clients : WriteEvent(c))
  BY <1>1, <1>9, Zenon DEF HandleAvc, WriteEvent
<1> QED
  BY <1>2, <1>3, <1>4, <1>5, <1>6, <1>7, <1>8, <1>9 DEF Next, Thread

\* A frame is sent by reference to the encoder's bitstream buffer: as long as the one
\* client is being sent it, no other encoding overwrites it and no new client closes
\* the encoder.
THEOREM FrameIntactHolds == Spec => []FrameIntact
<1>1. Init => OwnInv
  BY MessageTypes DEF Init, OwnInv
<1>2. TypeInv /\ OwnInv /\ [Next]_vars => OwnInv'
  BY OwnStep
<1>3. TypeInv /\ OwnInv => FrameIntact
  BY PassClients DEF TypeInv, OwnInv, FrameIntact
<1> QED
  BY <1>1, <1>2, <1>3, TypeInvHolds, PTL DEF Spec

\* The last frame was sent in the past, and the one client got that one or none; the
\* worker that ends in insert_h264_frame has set last_time and sent nothing.
LastInPast ==
    \/ lastTime.sec < clock.sec
    \/ lastTime.sec = clock.sec /\ lastTime.usec <= clock.usec

Ended == pc \in {"aborted", "crashed"}

SentWhen == Ended \/ \A c \in Connected : sentAt[c] \in {Epoch, lastTime}

PaceInv == LastInPast /\ (mode.clients = 1 => burst = {} /\ SentWhen)

\* The clock goes on: what was in the past stays there, and two times that are the
\* same move back alike.
LEMMA AdvancePace ==
  ASSUME TimeInv, LastInPast, Advance
  PROVE  /\ LastInPast'
         /\ \A c \in Clients : sentAt[c] \in {Epoch, lastTime} => sentAt'[c] \in {Epoch, lastTime'}
<1>1. /\ Second \in Nat /\ MaxSec \in Nat /\ MaxSec >= 3 /\ clock.sec = MaxSec
      /\ clock.usec \in 0 .. Second - 1
      /\ lastTime \in Times /\ lastTime.sec \in Nat /\ lastTime.usec \in 0 .. Second - 1
  BY PacingAssumption, StreamAssumption DEF TimeInv, Times
<1>2. CASE clock.usec < Second - 1
  <2>1. /\ clock'.sec = MaxSec /\ clock'.usec = clock.usec + 1
        /\ UNCHANGED <<lastTime, sentAt>>
    BY <1>2 DEF Advance, TimeInv, Times
  <2>2. LastInPast'
    BY <1>1, <2>1 DEF LastInPast
  <2> QED
    BY <2>1, <2>2
<1>3. CASE ~(clock.usec < Second - 1)
  <2>1. /\ clock'.sec = MaxSec
        /\ lastTime' = Earlier(lastTime)
        /\ \A c \in Clients : sentAt'[c] = Earlier(sentAt[c])
    BY <1>3 DEF Advance, TimeInv, Times
  <2>2. Earlier(Epoch) = Epoch
    BY DEF Earlier, Epoch
  <2>3. lastTime'.sec < MaxSec
    <3>1. lastTime.sec <= MaxSec
      BY <1>1 DEF LastInPast
    <3>2. CASE lastTime.sec = 0
      BY <1>1, <2>1, <3>2 DEF Earlier, Epoch
    <3>3. CASE lastTime.sec # 0
      <4>1. lastTime' = [lastTime EXCEPT !.sec = lastTime.sec - 1]
        BY <2>1, <3>3 DEF Earlier
      <4>2. lastTime'.sec = lastTime.sec - 1
        BY <1>1, <4>1 DEF Times
      <4> QED
        BY <1>1, <3>1, <4>2
    <3> QED
      BY <3>2, <3>3
  <2>4. LastInPast'
    BY <2>1, <2>3 DEF LastInPast
  <2> QED
    BY <2>1, <2>2, <2>4
<1> QED
  BY <1>2, <1>3

\* A frame that is not dropped comes more than Pace after the last one.
LEMMA Unpaced ==
  ASSUME TimeInv, LastInPast, ~Paced(clock, lastTime)
  PROVE  ~(Elapsed(clock, lastTime) <= Pace)
<1>1. clock \in Times /\ lastTime \in Times
  BY DEF TimeInv
<1>2. /\ Second \in Nat /\ Second > 0 /\ clock.sec \in Nat /\ lastTime.sec \in Nat
      /\ clock.usec \in 0 .. Second - 1 /\ lastTime.usec \in 0 .. Second - 1
  BY <1>1, PacingAssumption DEF Times
<1>3. Elapsed(clock, lastTime) >= 0
  <2>1. CASE clock.sec = lastTime.sec
    BY <1>1, <1>2, <2>1, ElapsedCases DEF LastInPast
  <2>2. CASE clock.sec = lastTime.sec + 1
    BY <1>1, <1>2, <2>2, ElapsedCases
  <2>3. CASE clock.sec >= lastTime.sec + 2
    BY <1>1, <1>2, <2>3, ElapsedCases
  <2> QED
    BY <1>2, <2>1, <2>2, <2>3 DEF LastInPast
<1> QED
  BY <1>1, <1>3, PacedIsElapsed

\* No step that sends a frame comes within Pace of the one before.
LEMMA PaceStep ==
  ASSUME TypeInv, PaceInv, [Next]_vars
  PROVE  PaceInv'
<1> USE DEF sendVars, paceVars, boundVars
<1>a. PassInv /\ TimeInv /\ LastInPast
  BY DEF TypeInv, PaceInv
<1>h. todo # <<>> => Head(todo) \in Connected /\ Head(todo) \in Clients
  BY <1>a, PassClients
<1>1. ASSUME UNCHANGED <<mode, lastTime, clock, sentAt, burst>>, Ended' \/ ~Ended,
             Connected' \subseteq Connected
      PROVE  PaceInv'
  <2>1. LastInPast'
    BY <1>1, <1>a DEF LastInPast
  <2>2. mode.clients = 1 => SentWhen'
    BY <1>1 DEF PaceInv, SentWhen
  <2> QED
    BY <1>1, <2>1, <2>2 DEF PaceInv
<1>2. CASE \/ PollEvent \/ EventsDone \/ ProcessCommand \/ PipesFull \/ RingIsEmpty
           \/ PushRetry \/ PushClientDone \/ WriteDone \/ WriteBlocks \/ WriteNothing
           \/ PassDone \/ PipesAddOther \/ CreatePrimary
  <2>1. UNCHANGED <<mode, lastTime, clock, sentAt, burst, clients>>
    BY <1>2, Zenon
       DEF PollEvent, EventsDone, ProcessCommand, PipesFull, RingIsEmpty, PushRetry,
           PushClientDone, WriteDone, WriteBlocks, WriteNothing, PassDone, PipesAddOther,
           CreatePrimary
  <2>2. ~Ended
    BY <1>2
       DEF PollEvent, EventsDone, ProcessCommand, PipesFull, RingIsEmpty, PushRetry,
           PushClientDone, WriteDone, WriteBlocks, WriteNothing, PassDone, PipesAddOther,
           CreatePrimary, Ended
  <2> QED
    BY <1>1, <2>1, <2>2 DEF Connected
<1>3. CASE GuestDraw \/ UNCHANGED vars
  <2>1. UNCHANGED <<mode, lastTime, clock, sentAt, burst, clients, pc>>
    BY <1>3, Zenon DEF GuestDraw, vars
  <2> QED
    BY <1>1, <2>1 DEF Connected, Ended
<1>4. CASE Tick \/ PollTimeout
  <2>1. UNCHANGED <<mode, burst, clients>> /\ (Ended' \/ ~Ended)
    BY <1>4 DEF Tick, PollTimeout, Ended
  <2>2. CASE Advance
    <3>1. LastInPast'
      BY <1>a, <2>2, AdvancePace
    <3>2. mode.clients = 1 => SentWhen'
      BY <1>a, <2>1, <2>2, AdvancePace, PassClients DEF PaceInv, SentWhen, Connected
    <3> QED
      BY <2>1, <3>1, <3>2 DEF PaceInv
  <2>3. CASE UNCHANGED <<clock, lastTime, sentAt>>
    BY <1>1, <2>1, <2>3 DEF Connected
  <2> QED
    BY <1>4, <2>2, <2>3 DEF Tick, PollTimeout
<1>e. ASSUME NEW c \in Connected, EncodeFor(c), ~Paced(clock, lastTime), ~Ended,
             lastTime' = clock, UNCHANGED <<mode, clock, clients>>
      PROVE  PaceInv'
  <2>1. LastInPast'
    BY <1>e, <1>a DEF LastInPast, TimeInv, Times
  <2>2. ASSUME mode.clients = 1 PROVE burst' = {}
    <3>1. burst = {} /\ sentAt[c] \in {Epoch, lastTime}
      BY <1>e, <2>2 DEF PaceInv, SentWhen
    <3>2. ~(sentAt[c] # Epoch /\ Elapsed(clock, sentAt[c]) <= Pace)
      BY <1>a, <1>e, <3>1, Unpaced
    <3> QED
      BY <1>e, <3>1, <3>2 DEF EncodeFor
  <2>3. ASSUME mode.clients = 1 PROVE SentWhen'
    <3>1. Connected' = {c} /\ c \in Clients
      BY <1>a, <1>e, <2>3, OneClient, PassClients DEF Connected
    <3>2. sentAt'[c] = clock
      BY <1>a, <1>e, <3>1 DEF EncodeFor, TimeInv
    <3> QED
      BY <1>e, <3>1, <3>2 DEF SentWhen
  <2> QED
    BY <1>e, <2>1, <2>2, <2>3 DEF PaceInv
<1>5. CASE PushItem
  <2>1. Head(todo) \in Connected /\ ~Ended /\ UNCHANGED <<mode, clock, clients>>
    BY <1>5, <1>h DEF PushItem, Ended
  <2>2. \/ UNCHANGED <<lastTime, sentAt, burst>>
        \/ ~Paced(clock, lastTime) /\ lastTime' = clock /\ EncodeFor(Head(todo))
    BY <1>5, Zenon DEF PushItem, DropFrame
  <2>3. Connected' = Connected
    BY <2>1 DEF Connected
  <2> QED
    BY <1>1, <1>e, <2>1, <2>2, <2>3
<1>6. CASE InsertFrame
  <2>1. Head(todo) \in Connected /\ ~Ended /\ UNCHANGED <<mode, clock, clients>>
    BY <1>6, <1>h DEF InsertFrame, Ended
  <2>2. \/ UNCHANGED <<lastTime, sentAt, burst>>
        \/ ~Paced(clock, lastTime) /\ lastTime' = clock /\ EncodeFor(Head(todo))
        \/ lastTime' = clock /\ UNCHANGED <<sentAt, burst>> /\ Ended'
    BY <1>6 DEF InsertFrame, Ended
  <2>3. Connected' = Connected
    BY <2>1 DEF Connected
  <2>4. CASE lastTime' = clock /\ UNCHANGED <<sentAt, burst>> /\ Ended'
    <3>1. LastInPast'
      BY <1>a, <2>1, <2>4 DEF LastInPast, TimeInv, Times
    <3> QED
      BY <2>1, <2>4, <3>1 DEF PaceInv, SentWhen
  <2> QED
    BY <1>1, <1>e, <2>1, <2>2, <2>3, <2>4
<1>7. ASSUME NEW c \in Clients, NewDisplayChannel(c) PROVE PaceInv'
  <2>1. /\ UNCHANGED <<mode, clock, burst>> /\ lastTime' = Epoch
        /\ clients' = <<c>> \o clients /\ Len(clients) < mode.clients
        /\ sentAt' = [sentAt EXCEPT ![c] = Epoch]
    BY <1>7, Zenon DEF NewDisplayChannel, RestartPacing
  <2>2. LastInPast'
    BY <1>a, <2>1, StreamAssumption DEF LastInPast, Epoch, TimeInv
  <2>3. ASSUME mode.clients = 1 PROVE SentWhen'
    <3>1. Connected' = {c}
      <4>1. Connected' = Connected \cup {c}
        BY <1>a, <2>1, RangeConcat DEF Connected, PassInv
      <4> QED
        BY <1>a, <2>1, <2>3, <4>1, OneClient
    <3> QED
      BY <1>a, <2>1, <3>1 DEF SentWhen, TimeInv
  <2> QED
    BY <2>1, <2>2, <2>3 DEF PaceInv
<1>8. ASSUME NEW c \in Clients, Disconnect(c) PROVE PaceInv'
  <2>1. UNCHANGED <<mode, lastTime, clock, sentAt, burst, pc>>
        /\ clients' = Kept(clients, Clients \ {c})
    BY <1>8, Zenon DEF Disconnect
  <2>2. Connected' \subseteq Connected
    BY <1>a, <2>1, KeptElements DEF Connected, PassInv
  <2> QED
    BY <1>1, <2>1, <2>2 DEF Ended
<1>9. ASSUME NEW slow \in SUBSET Clients, DestroyPrimary(slow) PROVE PaceInv'
  <2>1. UNCHANGED <<mode, lastTime, clock, sentAt, burst, pc>>
        /\ clients' = Kept(clients, Clients \ slow)
    BY <1>9, Zenon DEF DestroyPrimary
  <2>2. Connected' \subseteq Connected
    BY <1>a, <2>1, KeptElements DEF Connected, PassInv
  <2> QED
    BY <1>1, <2>1, <2>2 DEF Ended
<1>10. CASE (\E b \in BOOLEAN : HandleAvc(b)) \/ (\E c \in Clients : WriteEvent(c))
  <2>1. UNCHANGED <<mode, lastTime, clock, sentAt, burst, clients>> /\ ~Ended
    BY <1>10 DEF HandleAvc, WriteEvent, Ended
  <2> QED
    BY <1>1, <2>1 DEF Connected
<1> QED
  BY <1>2, <1>3, <1>4, <1>5, <1>6, <1>7, <1>8, <1>9, <1>10 DEF Next, Thread

\* "make sure that <= 30fps": the one client never gets two frames within Pace, although
\* last_time is the worker's and insert_h264_frame sends frames of its own.
THEOREM FrameRateHolds == Spec => []FrameRate
<1>1. Init => PaceInv
  BY StreamAssumption DEF Init, PaceInv, LastInPast, SentWhen, Connected, Range, Epoch
<1>2. TypeInv /\ PaceInv /\ [Next]_vars => PaceInv'
  BY PaceStep
<1>3. PaceInv => FrameRate
  BY DEF PaceInv, FrameRate
<1> QED
  BY <1>1, <1>2, <1>3, TypeInvHolds, PTL DEF Spec

-----------------------------------------------------------------------------
(* The order of the pictures: what a client shows (sh), is being sent (o) and has *)
(* in its pipe (p), when n is the picture on the screen.                        *)

Pic(m) == m.kind \in Pictures

\* Nothing is newer than the screen, and what is being sent is not older than what
\* is shown.
Below(sh, o, p, n) ==
    /\ sh <= n
    /\ Pic(o) => sh <= o.ver /\ o.ver <= n
    /\ \A i \in 1 .. Len(p) : Pic(p[i]) => p[i].ver <= n

\* Drawables wait in the order they were rendered in.
InLine(sh, o, p) ==
    \A i \in 1 .. Len(p) : Pic(p[i]) =>
        /\ sh <= p[i].ver
        /\ Pic(o) => o.ver <= p[i].ver
        /\ \A j \in 1 .. Len(p) : i < j /\ Pic(p[j]) => p[i].ver <= p[j].ver

\* The image a new client gets is first in its pipe.
ImageAhead(p) == \A i \in 1 .. Len(p) : p[i].kind = "image" => i = 1
NoImage(p)    == \A i \in 1 .. Len(p) : p[i].kind # "image"

\* A new item at the end of the pipe, with what has been rendered, keeps the order.
LEMMA OrderAppend ==
  ASSUME NEW sh \in Nat, NEW o \in Messages, NEW p \in Seq(PipeItems), NEW n \in Nat,
         NEW m \in PipeItems, NEW k \in Nat, n <= k, m.ver <= k,
         Below(sh, o, p, n)
  PROVE  /\ Below(sh, o, Append(p, m), k)
         /\ InLine(sh, o, p) /\ (Pic(m) => n <= m.ver) => InLine(sh, o, Append(p, m))
         /\ m.kind # "image" /\ ImageAhead(p) => ImageAhead(Append(p, m))
         /\ m.kind # "image" /\ NoImage(p) => NoImage(Append(p, m))
<1>1. PICK l \in Nat : l = Len(p)
  OBVIOUS
<1>s. Append(p, m) \in Seq(PipeItems)
  OBVIOUS
<1>2. PICK q \in Seq(PipeItems) : q = Append(p, m)
  BY <1>s
<1>3. Len(q) = l + 1 /\ q[l + 1] = m /\ \A i \in 1 .. l : q[i] = p[i]
  BY <1>1, <1>2
<1>v. o.ver \in Nat /\ m.ver \in Nat /\ \A i \in 1 .. l : p[i].ver \in Nat
  BY <1>1, StreamAssumption DEF PipeItems, Messages
<1>4. Below(sh, o, q, k)
  <2>1. \A i \in 1 .. l : Pic(p[i]) => p[i].ver <= k
    BY <1>1, <1>v DEF Below
  <2>2. \A i \in 1 .. l + 1 : i \in 1 .. l \/ i = l + 1
    BY <1>1
  <2>3. \A i \in 1 .. Len(q) : Pic(q[i]) => q[i].ver <= k
    BY <1>3, <2>1, <2>2
  <2>4. sh <= k /\ (Pic(o) => sh <= o.ver /\ o.ver <= k)
    BY <1>v DEF Below
  <2> QED
    BY <2>3, <2>4 DEF Below
<1>5. ASSUME InLine(sh, o, p), Pic(m) => n <= m.ver
      PROVE  InLine(sh, o, q)
  <2> SUFFICES ASSUME NEW i \in 1 .. l + 1, Pic(q[i])
               PROVE  /\ sh <= q[i].ver
                      /\ Pic(o) => o.ver <= q[i].ver
                      /\ \A j \in 1 .. l + 1 : i < j /\ Pic(q[j]) => q[i].ver <= q[j].ver
    BY <1>3 DEF InLine
  <2>1. CASE i = l + 1
    BY <1>3, <1>5, <1>v, <2>1 DEF Below
  <2>2. CASE i \in 1 .. l
    <3>1. Pic(p[i]) /\ q[i] = p[i]
      BY <1>3, <2>2
    <3>2. /\ sh <= p[i].ver /\ (Pic(o) => o.ver <= p[i].ver)
          /\ \A j \in 1 .. l : i < j /\ Pic(p[j]) => p[i].ver <= p[j].ver
      BY <1>1, <1>5, <2>2, <3>1 DEF InLine
    <3>3. p[i].ver <= n
      BY <1>1, <2>2, <3>1 DEF Below
    <3>4. ASSUME NEW j \in 1 .. l + 1, i < j, Pic(q[j]) PROVE q[i].ver <= q[j].ver
      <4>1. CASE j = l + 1
        BY <1>3, <1>5, <1>v, <2>2, <3>1, <3>3, <3>4, <4>1
      <4>2. CASE j \in 1 .. l
        BY <1>3, <3>1, <3>2, <3>4, <4>2
      <4> QED
        BY <4>1, <4>2
    <3> QED
      BY <3>1, <3>2, <3>4
  <2> QED
    BY <2>1, <2>2
<1>6. ASSUME m.kind # "image"
      PROVE  (ImageAhead(p) => ImageAhead(q)) /\ (NoImage(p) => NoImage(q))
  <2>2. \A i \in 1 .. l + 1 : i \in 1 .. l \/ i = l + 1
    BY <1>1
  <2> QED
    BY <1>1, <1>3, <1>6, <2>2 DEF ImageAhead, NoImage
<1> QED
  BY <1>2, <1>4, <1>5, <1>6

\* Taking the first item keeps the order of the others; it was ahead of them.
LEMMA OrderTail ==
  ASSUME NEW sh \in Nat, NEW o \in Messages, NEW p \in Seq(PipeItems), NEW n \in Nat,
         p # <<>>, Below(sh, o, p, n), ImageAhead(p)
  PROVE  /\ Below(sh, o, Tail(p), n)
         /\ NoImage(Tail(p)) /\ ImageAhead(Tail(p))
         /\ (Pic(Head(p)) => sh <= Head(p).ver) => Below(sh, Head(p), Tail(p), n)
         /\ InLine(sh, o, p) => /\ InLine(sh, Head(p), Tail(p))
                                /\ Pic(Head(p)) => sh <= Head(p).ver
<1>1. PICK l \in Nat : l + 1 = Len(p)
  <2>1. Len(p) \in Nat /\ Len(p) # 0
    OBVIOUS
  <2> QED
    BY <2>1, Len(p) - 1 \in Nat
<1>s. Tail(p) \in Seq(PipeItems)
  OBVIOUS
<1>2. PICK q \in Seq(PipeItems) : q = Tail(p)
  BY <1>s
<1>3. Len(q) = l /\ Head(p) = p[1] /\ \A i \in 1 .. l : q[i] = p[i + 1]
  BY <1>1, <1>2
<1>4. 1 \in 1 .. l + 1 /\ \A i \in 1 .. l : i + 1 \in 1 .. l + 1 /\ 1 < i + 1
  BY <1>1
<1>5. /\ \A i \in 1 .. l : Pic(q[i]) => q[i].ver <= n
      /\ sh <= n /\ (Pic(o) => sh <= o.ver /\ o.ver <= n) /\ (Pic(p[1]) => p[1].ver <= n)
  BY <1>1, <1>3, <1>4 DEF Below
<1>6. /\ Below(sh, o, q, n)
      /\ (Pic(p[1]) => sh <= p[1].ver) => Below(sh, p[1], q, n)
  BY <1>3, <1>5 DEF Below
<1>7. NoImage(q) /\ ImageAhead(q)
  <2>1. \A i \in 1 .. l : q[i].kind # "image"
    BY <1>1, <1>3, <1>4 DEF ImageAhead
  <2> QED
    BY <1>3, <2>1 DEF ImageAhead, NoImage
<1>8. ASSUME InLine(sh, o, p)
      PROVE  InLine(sh, p[1], q) /\ (Pic(p[1]) => sh <= p[1].ver)
  <2>1. Pic(p[1]) => sh <= p[1].ver /\ \A j \in 1 .. l : Pic(q[j]) => p[1].ver <= q[j].ver
    BY <1>1, <1>3, <1>4, <1>8 DEF InLine
  <2>2. ASSUME NEW i \in 1 .. l, Pic(q[i])
        PROVE  sh <= q[i].ver /\ \A j \in 1 .. l : i < j /\ Pic(q[j]) => q[i].ver <= q[j].ver
    <3>1. Pic(p[i + 1]) /\ i + 1 \in 1 .. l + 1
      BY <1>3, <1>4, <2>2
    <3>2. sh <= p[i + 1].ver
          /\ \A j \in 1 .. l + 1 : i + 1 < j /\ Pic(p[j]) => p[i + 1].ver <= p[j].ver
      BY <1>1, <1>8, <3>1 DEF InLine
    <3>3. ASSUME NEW j \in 1 .. l, i < j, Pic(q[j]) PROVE q[i].ver <= q[j].ver
      <4>1. j + 1 \in 1 .. l + 1 /\ i + 1 < j + 1 /\ q[j] = p[j + 1]
        BY <1>3, <1>4, <3>3
      <4> QED
        BY <1>3, <3>2, <3>3, <4>1
    <3> QED
      BY <1>3, <3>2, <3>3
  <2> QED
    BY <1>3, <2>1, <2>2 DEF InLine
<1> QED
  BY <1>2, <1>3, <1>6, <1>7, <1>8

\* What is being sent may become a frame of the screen, or be written and shown.
LEMMA OrderWritten ==
  ASSUME NEW sh \in Nat, NEW o \in Messages, NEW p \in Seq(PipeItems), NEW n \in Nat,
         Below(sh, o, p, n)
  PROVE  /\ \A x : ~Pic(x) => Below(sh, x, p, n) /\ (InLine(sh, o, p) => InLine(sh, x, p))
         /\ Below(sh, Msg("frame", n), p, n)
         /\ Pic(o) => /\ sh <= o.ver /\ Below(o.ver, NoMsg, p, n)
                      /\ InLine(sh, o, p) => InLine(o.ver, NoMsg, p)
<1>1. ~Pic(NoMsg)
  BY MessageTypes DEF Pic, Pictures
<1>2. Msg("frame", n).ver = n
  BY DEF Msg
<1> QED
  BY <1>1, <1>2 DEF Below, InLine

\* Items that leave the pipe take nothing from the order of the others.
LEMMA OrderKept ==
  ASSUME NEW sh \in Nat, NEW o \in Messages, NEW p \in Seq(PipeItems), NEW n \in Nat,
         NEW S, Below(sh, o, p, n)
  PROVE  /\ Below(sh, o, Kept(p, S), n)
         /\ InLine(sh, o, p) => InLine(sh, o, Kept(p, S))
         /\ ImageAhead(p) => ImageAhead(Kept(p, S))
         /\ NoImage(p) => NoImage(Kept(p, S))
<1>1. PICK q \in Seq(PipeItems) : q = Kept(p, S)
  BY KeptPositions
<1>2. PICK f : Selects(f, p, S, q)
  BY <1>1, KeptPositions
<1>3. PICK l \in Nat : l = Len(q)
  BY <1>1
<1>4. PICK k \in Nat : k = Len(p) /\ DOMAIN p = 1 .. k
  OBVIOUS
<1>5. /\ \A i \in 1 .. l : f[i] \in 1 .. k /\ q[i] = p[f[i]]
      /\ \A i, j \in 1 .. l : i < j => f[i] < f[j]
  BY <1>2, <1>3, <1>4 DEF Selects
<1>6. Below(sh, o, q, n)
  BY <1>3, <1>4, <1>5 DEF Below
<1>7. InLine(sh, o, p) => InLine(sh, o, q)
  <2> SUFFICES ASSUME InLine(sh, o, p), NEW i \in 1 .. l, Pic(q[i])
               PROVE  /\ sh <= q[i].ver
                      /\ Pic(o) => o.ver <= q[i].ver
                      /\ \A j \in 1 .. l : i < j /\ Pic(q[j]) => q[i].ver <= q[j].ver
    BY <1>3 DEF InLine
  <2>1. f[i] \in 1 .. k /\ Pic(p[f[i]]) /\ q[i] = p[f[i]]
    BY <1>5
  <2>2. /\ sh <= p[f[i]].ver /\ (Pic(o) => o.ver <= p[f[i]].ver)
        /\ \A j \in 1 .. k : f[i] < j /\ Pic(p[j]) => p[f[i]].ver <= p[j].ver
    BY <1>4, <2>1 DEF InLine
  <2> QED
    BY <1>5, <2>1, <2>2
<1>8. ImageAhead(p) => ImageAhead(q)
  <2> SUFFICES ASSUME ImageAhead(p), NEW i \in 1 .. l, q[i].kind = "image"
               PROVE  i = 1
    BY <1>3 DEF ImageAhead
  <2>1. f[i] = 1
    BY <1>4, <1>5 DEF ImageAhead
  <2>2. 1 \in 1 .. l /\ f[1] \in 1 .. k
    BY <1>5
  <2> QED
    BY <1>5, <2>1, <2>2
<1>9. NoImage(p) => NoImage(q)
  BY <1>3, <1>4, <1>5 DEF NoImage
<1> QED
  BY <1>1, <1>6, <1>7, <1>8, <1>9

\* Frames are dropped and inserted only while DISPLAY_AVC is on.
Inserting == pc = "insert" \/ (pc = "write" /\ loop = "insert")

AvcInv == ~mode.avcOff => (Inserting => avc) /\ (lastDrop => avc)

\* With DISPLAY_AVC left on, no frame is dropped or inserted before it is on.
LEMMA AvcStep ==
  ASSUME TypeInv, AvcInv, [Next]_vars
  PROVE  AvcInv'
<1> USE DEF sendVars, paceVars, boundVars
<1>a. ControlInv
  BY DEF TypeInv
<1>b. UNCHANGED mode
  BY ModeFixed
<1>1. ASSUME UNCHANGED <<avc, lastDrop>>, Inserting' => Inserting PROVE AvcInv'
  BY <1>b, <1>1 DEF AvcInv
<1>2. CASE \/ Tick \/ GuestDraw \/ PollEvent \/ PollTimeout \/ EventsDone \/ PushRetry
           \/ PushClientDone \/ WriteDone \/ WriteBlocks \/ WriteNothing \/ UNCHANGED vars
  <2>1. UNCHANGED <<avc, lastDrop>>
    BY <1>2, Zenon
       DEF Tick, GuestDraw, PollEvent, PollTimeout, EventsDone, PushRetry, PushClientDone,
           WriteDone, WriteBlocks, WriteNothing, vars
  <2>2. Inserting' => Inserting
    BY <1>2, <1>a
       DEF Tick, GuestDraw, PollEvent, PollTimeout, EventsDone, PushRetry, PushClientDone,
           WriteDone, WriteBlocks, WriteNothing, vars, Inserting, ControlInv
  <2> QED
    BY <1>1, <2>1, <2>2
<1>3. CASE PipesFull \/ PipesAddOther \/ CreatePrimary \/ PassDone \/ ProcessCommand
  <2>1. UNCHANGED <<avc, lastDrop>>
    BY <1>3, Zenon DEF PipesFull, PipesAddOther, CreatePrimary, PassDone, ProcessCommand
  <2>2. pc' \in {"commands", "push", "events", "poll"}
    <3>1. CASE ProcessCommand
      BY <3>1 DEF ProcessCommand, Pass
    <3>2. CASE PipesFull \/ PipesAddOther \/ CreatePrimary \/ PassDone
      BY <1>a, <3>2 DEF PipesFull, PipesAddOther, CreatePrimary, PassDone, Pass, ControlInv
    <3> QED
      BY <1>3, <3>1, <3>2
  <2> QED
    BY <1>1, <2>1, <2>2 DEF Inserting
<1>4. CASE RingIsEmpty
  <2>1. UNCHANGED <<avc, lastDrop>> /\ (pc' = "push" \/ (pc' = "insert" /\ avc))
    BY <1>4 DEF RingIsEmpty, Pass, InsertNow
  <2> QED
    BY <1>b, <2>1 DEF AvcInv, Inserting
<1>5. CASE PushItem
  <2>1. /\ UNCHANGED <<avc, loop>> /\ pc' \in {"push", "write"} /\ loop = "push"
        /\ lastDrop' => lastDrop \/ avc
    BY <1>5, <1>a DEF PushItem, DropFrame, ControlInv
  <2> QED
    BY <1>b, <2>1 DEF AvcInv, Inserting
<1>6. CASE InsertFrame
  <2>1. UNCHANGED avc /\ Inserting
    BY <1>6 DEF InsertFrame, Inserting
  <2> QED
    BY <1>b, <2>1 DEF AvcInv
<1>7. ASSUME NEW b \in BOOLEAN, HandleAvc(b) PROVE AvcInv'
  <2>1. UNCHANGED <<pc, lastDrop>> /\ pc = "events" /\ avc' = b /\ (b \/ mode.avcOff)
    BY <1>7, Zenon DEF HandleAvc
  <2> QED
    BY <1>b, <2>1 DEF AvcInv, Inserting
<1>8. ASSUME NEW c \in Clients, NewDisplayChannel(c) PROVE AvcInv'
  <2>1. lastDrop' = FALSE /\ UNCHANGED <<pc, loop, avc>>
    BY <1>8, Zenon DEF NewDisplayChannel, RestartPacing
  <2> QED
    BY <1>b, <2>1 DEF AvcInv, Inserting
<1>9. ASSUME NEW c \in Clients, WriteEvent(c) \/ Disconnect(c) PROVE AvcInv'
  <2>1. UNCHANGED <<avc, lastDrop>> /\ pc' \in {"push", "events"}
    BY <1>9 DEF WriteEvent, Disconnect, Pass
  <2> QED
    BY <1>1, <2>1 DEF Inserting
<1>10. ASSUME NEW slow \in SUBSET Clients, DestroyPrimary(slow) PROVE AvcInv'
  <2>1. UNCHANGED <<avc, lastDrop, pc, loop>>
    BY <1>10, Zenon DEF DestroyPrimary
  <2> QED
    BY <1>1, <2>1 DEF Inserting
<1> QED
  BY <1>2, <1>3, <1>4, <1>5, <1>6, <1>7, <1>8, <1>9, <1>10 DEF Next, Thread

\* While the image of a new client waits, no frame has been dropped and none is inserted.
Quiet == ~lastDrop /\ ~Inserting

OrderOf(c) ==
    /\ Below(shown[c], out[c], pipe[c], screen)
    /\ avc \/ InLine(shown[c], out[c], pipe[c])
    /\ ImageAhead(pipe[c])
    /\ NoImage(pipe[c]) \/ (shown[c] = 0 /\ out[c] = NoMsg /\ Quiet)

OrderInv == mode.clients = 1 /\ ~mode.avcOff => \A c \in Connected : OrderOf(c)

\* Every step leaves the pictures of the one client in their order.
LEMMA OrderStep ==
  ASSUME TypeInv, AvcInv, OrderInv, [Next]_vars
  PROVE  OrderInv'
<1> USE DEF sendVars, paceVars, boundVars
<1>a. ControlInv /\ PassInv /\ PictureInv /\ SendInv
  BY DEF TypeInv
<1>b. UNCHANGED mode
  BY ModeFixed
<1> SUFFICES ASSUME mode.clients = 1, ~mode.avcOff, \A c \in Connected : OrderOf(c)
             PROVE  \A c \in Connected' : OrderOf(c)'
  BY <1>b DEF OrderInv
<1>c. /\ screen \in Nat
      /\ \A c \in Connected : /\ c \in Clients /\ shown[c] \in Nat /\ out[c] \in Messages
                              /\ pipe[c] \in Seq(PipeItems)
  BY <1>a, PassClients, StreamAssumption DEF PictureInv, SendInv
<1>d. \A c, d \in Connected : c = d
  BY <1>a, OneClient
<1>h. todo # <<>> => Head(todo) \in Connected /\ Head(todo) \in Clients
  BY <1>a, PassClients
<1>1. ASSUME UNCHANGED <<clients, pipe, out, shown, screen, avc>>, Quiet => Quiet'
      PROVE  \A c \in Connected' : OrderOf(c)'
  BY <1>1 DEF OrderOf, Connected
<1>2. CASE \/ Tick \/ GuestDraw \/ PollEvent \/ PollTimeout \/ EventsDone \/ PipesFull
           \/ RingIsEmpty \/ PushRetry \/ PushClientDone \/ WriteBlocks \/ WriteNothing
           \/ PassDone \/ UNCHANGED vars
  <2>1. UNCHANGED <<clients, pipe, out, shown, screen, avc, lastDrop>>
    BY <1>2, Zenon
       DEF Tick, GuestDraw, PollEvent, PollTimeout, EventsDone, PipesFull, RingIsEmpty,
           PushRetry, PushClientDone, WriteBlocks, WriteNothing, PassDone, vars
  <2>2. Inserting' => Inserting \/ lastDrop
    BY <1>2, <1>a
       DEF Tick, GuestDraw, PollEvent, PollTimeout, EventsDone, PipesFull, RingIsEmpty,
           PushRetry, PushClientDone, WriteBlocks, WriteNothing, PassDone, vars, Inserting,
           ControlInv, Pass, InsertNow
  <2> QED
    BY <1>1, <2>1, <2>2 DEF Quiet
<1>3. ASSUME NEW b \in BOOLEAN, HandleAvc(b) PROVE \A c \in Connected' : OrderOf(c)'
  <2>1. /\ UNCHANGED <<clients, pipe, out, shown, screen, lastDrop, pc, loop>>
        /\ avc' = b /\ (b \/ mode.avcOff)
    BY <1>3, Zenon DEF HandleAvc
  <2>2. avc'
    BY <2>1
  <2> QED
    BY <2>1, <2>2 DEF OrderOf, Connected, Quiet, Inserting
<1>p. ASSUME NEW m \in PipeItems, m.kind # "image", PipesAdd(m), screen' \in Nat,
             screen <= screen', m.ver <= screen', Pic(m) => screen <= m.ver,
             UNCHANGED <<clients, out, shown, avc>>, Quiet => Quiet'
      PROVE  \A c \in Connected' : OrderOf(c)'
  <2> SUFFICES ASSUME NEW c \in Connected PROVE OrderOf(c)'
    BY <1>p DEF Connected
  <2>1. pipe'[c] = Append(pipe[c], m)
    BY <1>c, <1>p DEF PipesAdd
  <2>2. /\ Below(shown[c], out[c], pipe[c], screen) /\ ImageAhead(pipe[c])
        /\ avc \/ InLine(shown[c], out[c], pipe[c])
        /\ NoImage(pipe[c]) \/ (shown[c] = 0 /\ out[c] = NoMsg /\ Quiet)
    BY DEF OrderOf
  <2>3. /\ Below(shown[c], out[c], pipe'[c], screen') /\ ImageAhead(pipe'[c])
        /\ InLine(shown[c], out[c], pipe[c]) => InLine(shown[c], out[c], pipe'[c])
        /\ NoImage(pipe[c]) => NoImage(pipe'[c])
    BY <1>c, <1>p, <2>1, <2>2, OrderAppend
  <2> QED
    BY <1>p, <2>2, <2>3 DEF OrderOf
<1>4. CASE PipesAddOther \/ CreatePrimary
  <2> DEFINE m == Msg("other", 0)
  <2>1. PipesAdd(m) /\ UNCHANGED <<clients, out, shown, screen, avc, lastDrop>> /\ pc' = "push"
    BY <1>4, Zenon DEF PipesAddOther, CreatePrimary, Pass
  <2>2. m \in PipeItems /\ m.kind # "image" /\ ~Pic(m) /\ m.ver = 0
    BY MessageTypes DEF Msg, Pic, Pictures
  <2>3. Quiet => Quiet'
    BY <2>1 DEF Quiet, Inserting
  <2> HIDE DEF m
  <2> QED
    BY <1>c, <1>p, <2>1, <2>2, <2>3
<1>5. CASE ProcessCommand
  <2> DEFINE m == Msg("draw", screen + 1)
  <2>1. /\ UNCHANGED <<clients, out, shown, avc, lastDrop>>
        /\ (screen' = screen + 1 /\ PipesAdd(m)) \/ UNCHANGED <<screen, pipe>>
    BY <1>5, Zenon DEF ProcessCommand
  <2>2. pc' \in {"commands", "push"}
    BY <1>5 DEF ProcessCommand, Pass
  <2>3. Quiet => Quiet'
    BY <2>1, <2>2 DEF Quiet, Inserting
  <2>4. CASE UNCHANGED <<screen, pipe>>
    BY <1>1, <2>1, <2>3, <2>4
  <2>5. CASE screen' = screen + 1 /\ PipesAdd(m)
    <3>1. screen + 1 \in 0 .. MaxDraws
      BY <1>5, <1>a, StreamAssumption DEF ProcessCommand, PictureInv
    <3>2. m \in PipeItems /\ m.kind # "image" /\ m.ver = screen + 1
      BY <3>1, MessageTypes DEF Msg
    <3> HIDE DEF m
    <3> QED
      BY <1>c, <1>p, <2>1, <2>3, <2>5, <3>2
  <2> QED
    BY <2>1, <2>4, <2>5
<1>6. CASE PushItem
  <2>0. PICK c \in Connected : c = Head(todo)
    BY <1>6, <1>h DEF PushItem
  <2> DEFINE p == pipe[c]
  <2>1. /\ c \in Connected /\ out[c] = NoMsg /\ p # <<>>
        /\ pipe' = [pipe EXCEPT ![c] = Tail(@)]
        /\ UNCHANGED <<clients, shown, screen, avc>>
    BY <1>6, <2>0 DEF PushItem
  <2>2. \/ avc /\ p[1].kind = "draw" /\ UNCHANGED out
        \/ avc /\ p[1].kind = "draw" /\ EncodeFor(c)
        \/ ~(avc /\ p[1].kind = "draw") /\ out' = [out EXCEPT ![c] = Head(p)]
    BY <1>6, <2>0, <2>1, <1>c DEF PushItem, DropFrame
  <2> SUFFICES OrderOf(c)'
    BY <1>d, <2>1 DEF Connected
  <2>3. /\ Below(shown[c], out[c], p, screen) /\ ImageAhead(p)
        /\ avc \/ InLine(shown[c], out[c], p)
        /\ NoImage(p) \/ shown[c] = 0
    BY <2>1 DEF OrderOf
  <2>4. /\ p \in Seq(PipeItems) /\ shown[c] \in Nat /\ out[c] \in Messages /\ c \in Clients
        /\ Head(p) = p[1] /\ p[1] \in PipeItems /\ 1 \in 1 .. Len(p)
    BY <1>c, <2>1
  <2>5. pipe'[c] = Tail(p)
    BY <1>a, <2>1, <2>4 DEF SendInv
  <2>6. p[1].ver \in Nat /\ p[1].kind \in {"draw", "image", "other"}
    BY <2>4, StreamAssumption DEF PipeItems, Messages
  <2> HIDE DEF p
  <2>7. /\ Below(shown[c], out[c], pipe'[c], screen)
        /\ NoImage(pipe'[c]) /\ ImageAhead(pipe'[c])
        /\ (Pic(p[1]) => shown[c] <= p[1].ver) => Below(shown[c], p[1], pipe'[c], screen)
        /\ InLine(shown[c], out[c], p) => /\ InLine(shown[c], p[1], pipe'[c])
                                          /\ Pic(p[1]) => shown[c] <= p[1].ver
    BY <1>c, <2>1, <2>3, <2>4, <2>5, OrderTail
  <2>8. /\ Below(shown[c], out'[c], pipe'[c], screen)
        /\ avc \/ InLine(shown[c], out'[c], pipe'[c])
    <3>1. CASE avc /\ UNCHANGED out
      BY <2>7, <3>1
    <3>2. CASE avc /\ EncodeFor(c)
      <4>1. out'[c] = Msg("frame", screen)
        BY <1>a, <2>4, <3>2, EncodeType
      <4>2. pipe'[c] \in Seq(PipeItems)
        BY <2>1, <2>4, <2>5 DEF p
      <4> QED
        BY <1>c, <2>4, <2>7, <3>2, <4>1, <4>2, OrderWritten
    <3>3. CASE ~(avc /\ p[1].kind = "draw") /\ out' = [out EXCEPT ![c] = Head(p)]
      <4>1. out'[c] = p[1]
        BY <1>a, <2>4, <3>3 DEF SendInv
      <4>2. Pic(p[1]) => shown[c] <= p[1].ver
        <5>1. CASE ~avc
          BY <2>3, <2>7, <5>1
        <5>2. CASE avc /\ p[1].kind = "image"
          BY <2>3, <2>4, <2>6, <5>2 DEF NoImage
        <5>3. CASE p[1].kind = "other"
          BY <5>3 DEF Pic, Pictures
        <5> QED
          BY <2>6, <3>3, <5>1, <5>2, <5>3
      <4> QED
        BY <2>3, <2>7, <4>1, <4>2
    <3> QED
      BY <2>2, <3>1, <3>2, <3>3
  <2> QED
    BY <2>1, <2>7, <2>8 DEF OrderOf
<1>7. CASE InsertFrame
  <2>0. PICK c \in Connected : c = Head(todo)
    BY <1>7, <1>h DEF InsertFrame
  <2>1. c \in Connected /\ UNCHANGED <<clients, pipe, shown, screen, avc>> /\ Inserting
    BY <1>7, <2>0 DEF InsertFrame, Inserting
  <2>2. \/ UNCHANGED out
        \/ EncodeFor(c)
        \/ out' = [out EXCEPT ![c] = Msg("reset", 0)]
    BY <1>7, <2>0, Zenon DEF InsertFrame
  <2>3. avc
    BY <2>1 DEF AvcInv
  <2> SUFFICES OrderOf(c)'
    BY <1>d, <2>1 DEF Connected
  <2>4. /\ Below(shown[c], out[c], pipe[c], screen) /\ ImageAhead(pipe[c])
        /\ NoImage(pipe[c])
    BY <2>1 DEF OrderOf, Quiet
  <2>5. Below(shown[c], out'[c], pipe[c], screen)
    <3>1. CASE UNCHANGED out
      BY <2>4, <3>1
    <3>2. CASE EncodeFor(c)
      BY <1>a, <1>c, <2>1, <2>4, <3>2, EncodeType, OrderWritten
    <3>3. CASE out' = [out EXCEPT ![c] = Msg("reset", 0)]
      <4>1. out'[c] = Msg("reset", 0) /\ ~Pic(Msg("reset", 0))
        BY <1>a, <1>c, <2>1, <3>3 DEF SendInv, Pic, Pictures, Msg
      <4> QED
        BY <1>c, <2>1, <2>4, <4>1, OrderWritten
    <3> QED
      BY <2>2, <3>1, <3>2, <3>3
  <2> QED
    BY <2>1, <2>3, <2>4, <2>5 DEF OrderOf
<1>8. CASE WriteDone
  <2>0. PICK c \in Connected : c = Head(todo)
    BY <1>8, <1>a, <1>h DEF WriteDone, PassInv
  <2>1. c \in Connected /\ UNCHANGED <<clients, pipe, screen, avc, lastDrop>>
    BY <1>8, <2>0 DEF WriteDone
  <2>2. /\ out' = [out EXCEPT ![c] = NoMsg]
        /\ shown' = IF Pic(out[c]) THEN [shown EXCEPT ![c] = out[c].ver] ELSE shown
        /\ pc = "write" /\ pc' = loop /\ UNCHANGED loop
    BY <1>8, <2>0, Zenon DEF WriteDone, Pic
  <2>3. Quiet => Quiet'
    BY <1>a, <2>1, <2>2 DEF Quiet, Inserting, ControlInv
  <2> SUFFICES OrderOf(c)'
    BY <1>d, <2>1 DEF Connected
  <2>4. /\ c \in Clients /\ out'[c] = NoMsg /\ ~Pic(NoMsg)
        /\ shown'[c] = IF Pic(out[c]) THEN out[c].ver ELSE shown[c]
    BY <1>a, <1>c, <2>1, <2>2, MessageTypes DEF SendInv, Pic, Pictures
  <2>5. /\ Below(shown[c], out[c], pipe[c], screen) /\ ImageAhead(pipe[c])
        /\ avc \/ InLine(shown[c], out[c], pipe[c])
        /\ NoImage(pipe[c]) \/ (shown[c] = 0 /\ out[c] = NoMsg /\ Quiet)
    BY <2>1 DEF OrderOf
  <2>6. /\ Below(shown'[c], NoMsg, pipe[c], screen)
        /\ avc \/ InLine(shown'[c], NoMsg, pipe[c])
    BY <1>c, <2>1, <2>4, <2>5, OrderWritten
  <2>7. NoImage(pipe[c]) \/ (shown'[c] = 0 /\ Quiet')
    BY <2>3, <2>4, <2>5
  <2> QED
    BY <2>1, <2>4, <2>5, <2>6, <2>7 DEF OrderOf
<1>9. ASSUME NEW c \in Clients, NewDisplayChannel(c) PROVE \A d \in Connected' : OrderOf(d)'
  <2>1. /\ UNCHANGED <<screen, avc, pc, loop>> /\ lastDrop' = FALSE /\ pc = "events"
        /\ clients' = <<c>> \o clients /\ Len(clients) < mode.clients /\ c \notin Connected
        /\ shown' = [shown EXCEPT ![c] = 0]
        /\ pipe' = [pipe EXCEPT ![c] = IF canvas THEN <<Msg("image", screen)>> ELSE <<>>]
        /\ out' = [d \in Clients |-> IF out[d].kind = "frame"
                                     THEN [out[d] EXCEPT !.own = FALSE] ELSE out[d]]
    BY <1>9, Zenon DEF NewDisplayChannel, RestartPacing
  <2>2. Connected' = {c}
    <3>1. Connected' = Connected \cup {c}
      BY <1>a, <2>1, RangeConcat DEF Connected, PassInv
    <3> QED
      BY <1>a, <2>1, <3>1, OneClient
  <2>3. shown'[c] = 0
    BY <1>a, <2>1 DEF SendInv
  <2>4. out'[c] = NoMsg
    BY <1>a, <2>1, MessageTypes DEF SendInv
  <2>5. Quiet'
    BY <2>1 DEF Quiet, Inserting
  <2>6. pipe'[c] = <<Msg("image", screen)>> \/ pipe'[c] = <<>>
    BY <1>a, <2>1 DEF SendInv
  <2>7. /\ Below(0, NoMsg, pipe'[c], screen) /\ InLine(0, NoMsg, pipe'[c])
        /\ ImageAhead(pipe'[c])
    <3>1. ~Pic(NoMsg) /\ Msg("image", screen).ver = screen
      BY MessageTypes DEF Pic, Pictures, Msg
    <3>2. CASE pipe'[c] = <<>>
      <4>1. Len(pipe'[c]) = 0
        BY <3>2
      <4> QED
        BY <1>c, <3>1, <4>1 DEF Below, InLine, ImageAhead
    <3>3. CASE pipe'[c] = <<Msg("image", screen)>>
      <4>1. Len(pipe'[c]) = 1 /\ pipe'[c][1] = Msg("image", screen)
        BY <3>3
      <4> QED
        BY <1>c, <3>1, <4>1 DEF Below, InLine, ImageAhead
    <3> QED
      BY <2>6, <3>2, <3>3
  <2> QED
    BY <2>1, <2>2, <2>3, <2>4, <2>5, <2>7 DEF OrderOf
<1>10. ASSUME NEW c \in Clients, Disconnect(c) PROVE \A d \in Connected' : OrderOf(d)'
  <2>1. clients' = Kept(clients, Clients \ {c}) /\ c \in Connected
    BY <1>10, Zenon DEF Disconnect
  <2>2. Connected' \subseteq Connected \ {c}
    BY <1>a, <2>1, KeptElements DEF Connected, PassInv
  <2> QED
    BY <1>d, <2>1, <2>2
<1>11. ASSUME NEW c \in Clients, WriteEvent(c) PROVE \A d \in Connected' : OrderOf(d)'
  <2>1. UNCHANGED <<clients, pipe, out, shown, screen, avc, lastDrop>> /\ pc' = "push"
    BY <1>11, Zenon DEF WriteEvent, Pass
  <2> QED
    BY <1>1, <2>1 DEF Quiet, Inserting
<1>12. ASSUME NEW slow \in SUBSET Clients, DestroyPrimary(slow)
       PROVE  \A c \in Connected' : OrderOf(c)'
  <2>1. /\ clients' = Kept(clients, Clients \ slow)
        /\ UNCHANGED <<pc, loop, lastDrop, screen, avc>>
    BY <1>12, Zenon DEF DestroyPrimary
  <2>2. Connected' \subseteq Connected \ slow
    BY <1>a, <2>1, KeptElements DEF Connected, PassInv
  <2> SUFFICES ASSUME NEW c \in Connected, c \notin slow PROVE OrderOf(c)'
    BY <2>2
  <2> DEFINE m == Msg("other", 0)
             p == Kept(pipe[c], NoDraws)
  <2>3. /\ pipe'[c] = Append(p, m) /\ out'[c] = NoMsg
        /\ shown'[c] = IF Pic(out[c]) THEN out[c].ver ELSE shown[c]
    BY <1>12, <1>c DEF DestroyPrimary, Pic
  <2>4. /\ Below(shown[c], out[c], pipe[c], screen) /\ ImageAhead(pipe[c])
        /\ avc \/ InLine(shown[c], out[c], pipe[c])
        /\ NoImage(pipe[c]) \/ (shown[c] = 0 /\ out[c] = NoMsg /\ Quiet)
    BY DEF OrderOf
  <2>5. /\ ~Pic(NoMsg) /\ NoMsg \in Messages
        /\ m \in PipeItems /\ m.kind # "image" /\ ~Pic(m) /\ m.ver = 0
    BY MessageTypes DEF Msg, Pic, Pictures
  <2>6. shown'[c] \in Nat
    BY <1>c, <2>3, StreamAssumption DEF Messages
  <2>7. /\ Below(shown'[c], NoMsg, pipe[c], screen)
        /\ avc \/ InLine(shown'[c], NoMsg, pipe[c])
    BY <1>c, <2>3, <2>4, <2>5, OrderWritten
  <2>8. /\ p \in Seq(PipeItems) /\ Below(shown'[c], NoMsg, p, screen)
        /\ avc \/ InLine(shown'[c], NoMsg, p)
        /\ ImageAhead(p) /\ (NoImage(pipe[c]) => NoImage(p))
    BY <1>c, <2>4, <2>5, <2>6, <2>7, OrderKept, KeptElements
  <2> HIDE DEF m, p
  <2>9. /\ Below(shown'[c], NoMsg, pipe'[c], screen)
        /\ avc \/ InLine(shown'[c], NoMsg, pipe'[c])
        /\ ImageAhead(pipe'[c]) /\ (NoImage(pipe[c]) => NoImage(pipe'[c]))
    <3>1. PICK v \in Nat : v = shown'[c]
      BY <2>6
    <3>2. m.ver <= screen /\ screen <= screen
      BY <1>c, <2>5
    <3>3. Below(v, NoMsg, p, screen)
      BY <2>8, <3>1
    <3>4. /\ Below(v, NoMsg, pipe'[c], screen)
          /\ InLine(v, NoMsg, p) => InLine(v, NoMsg, pipe'[c])
          /\ ImageAhead(pipe'[c]) /\ (NoImage(p) => NoImage(pipe'[c]))
      BY <1>c, <2>3, <2>5, <2>8, <3>2, <3>3, OrderAppend
    <3> QED
      BY <2>8, <3>1, <3>4
  <2>10. NoImage(pipe'[c]) \/ (shown'[c] = 0 /\ Quiet')
    BY <2>1, <2>3, <2>4, <2>5, <2>9 DEF Quiet, Inserting
  <2> QED
    BY <2>1, <2>3, <2>9, <2>10 DEF OrderOf
<1> QED
  BY <1>2, <1>3, <1>4, <1>5, <1>6, <1>7, <1>8, <1>9, <1>10, <1>11, <1>12
     DEF Next, Thread

StreamInv == TypeInv /\ AvcInv /\ OrderInv

\* The types and the order hold from the start of the server on.
LEMMA StreamInvHolds == Spec => []StreamInv
<1>1. Init => AvcInv /\ OrderInv
  BY DEF Init, AvcInv, Inserting, OrderInv, Connected, Range
<1>2. TypeInv /\ AvcInv /\ OrderInv /\ [Next]_vars => AvcInv' /\ OrderInv'
  BY AvcStep, OrderStep
<1> QED
  BY <1>1, <1>2, TypeInvHolds, PTL DEF Spec, StreamInv

\* The one client never goes back to an earlier picture: not when DISPLAY_AVC turns the
\* drawables in its pipe into frames of the whole screen, and not when the worker
\* inserts a frame in front of them.
THEOREM NoOlderPictureHolds == Spec => NoOlderPicture
<1>1. ASSUME StreamInv, [Next]_vars, mode.clients = 1, ~mode.avcOff,
             NEW c \in Connected, c \in Connected'
      PROVE  shown'[c] >= shown[c]
  <2> USE DEF sendVars, paceVars, boundVars
  <2>1. PassInv /\ PictureInv /\ SendInv
    BY <1>1 DEF StreamInv, TypeInv
  <2>2. /\ c \in Clients /\ shown[c] \in Nat /\ out[c] \in Messages /\ screen \in Nat
        /\ pipe[c] \in Seq(PipeItems)
    BY <2>1, PassClients, StreamAssumption DEF SendInv, PictureInv
  <2>3. Below(shown[c], out[c], pipe[c], screen)
    BY <1>1 DEF StreamInv, OrderInv, OrderOf
  <2>4. \/ shown'[c] = shown[c]
        \/ Pic(out[c]) /\ shown'[c] = out[c].ver
    <3>1. CASE WriteDone
      BY <2>1, <2>2, <3>1 DEF WriteDone, Pic, SendInv
    <3>2. ASSUME NEW d \in Clients, NewDisplayChannel(d) PROVE shown'[c] = shown[c]
      BY <2>1, <2>2, <3>2 DEF NewDisplayChannel, SendInv
    <3>3. ASSUME NEW slow \in SUBSET Clients, DestroyPrimary(slow)
          PROVE  \/ shown'[c] = shown[c]
                 \/ Pic(out[c]) /\ shown'[c] = out[c].ver
      BY <2>2, <3>3 DEF DestroyPrimary, Pic
    <3>4. CASE UNCHANGED shown
      BY <3>4
    <3>5. CASE \/ Tick \/ GuestDraw \/ PollEvent \/ PollTimeout \/ EventsDone
               \/ ProcessCommand \/ PipesFull \/ RingIsEmpty \/ PushRetry \/ PushItem
               \/ PushClientDone \/ InsertFrame \/ WriteBlocks \/ WriteNothing
               \/ PassDone \/ PipesAddOther \/ CreatePrimary \/ UNCHANGED vars
      BY <3>4, <3>5, Zenon
         DEF Tick, GuestDraw, PollEvent, PollTimeout, EventsDone, ProcessCommand,
             PipesFull, RingIsEmpty, PushRetry, PushItem, PushClientDone, InsertFrame,
             WriteBlocks, WriteNothing, PassDone, PipesAddOther, CreatePrimary, vars
    <3>6. CASE \/ \E b \in BOOLEAN : HandleAvc(b)
               \/ \E d \in Clients : WriteEvent(d)
               \/ \E d \in Clients : Disconnect(d)
      BY <3>4, <3>6, Zenon DEF HandleAvc, WriteEvent, Disconnect
    <3> QED
      BY <1>1, <3>1, <3>2, <3>3, <3>5, <3>6 DEF Next, Thread
  <2> QED
    BY <2>2, <2>3, <2>4, OrderWritten
<1>2. StreamInv /\ [Next]_vars =>
        [mode.clients = 1 /\ ~mode.avcOff =>
            \A c \in Connected : c \in Connected' => shown'[c] >= shown[c]]_vars
  BY <1>1
<1> QED
  BY <1>2, StreamInvHolds, PTL DEF Spec, NoOlderPicture

-----------------------------------------------------------------------------
(* One client that only gets pictures, and a primary surface that stays. *)

\* What the constants of the theorems below allow: no second client, no DISPLAY_AVC off,
\* no message that is not a picture, no DESTROY_PRIMARY.
PicturesOnly ==
    \A m \in Modes : m.clients = 1 /\ ~m.avcOff /\ m.others = 0 /\ m.destroys = 0

\* Every message is a picture, and none is being sent while a frame that was dropped
\* is still to be made up for.
BusyInv ==
    /\ canvas
    /\ WorkerAlive
    /\ \A c \in Clients : out[c] = NoMsg \/ Pic(out[c])
    /\ \A c \in Clients : \A i \in 1 .. Len(pipe[c]) : Pic(pipe[c][i])
    /\ lastDrop => \A c \in Connected : out[c] = NoMsg
    /\ pc = "insert" => \A i \in 1 .. Len(todo) : out[todo[i]] = NoMsg

\* A frame is dropped only for a client that is being sent nothing, and none is
\* sent before the insertion.
LEMMA BusyStep ==
  ASSUME PicturesOnly, StreamInv, BusyInv, [Next]_vars
  PROVE  BusyInv'
<1> USE DEF sendVars, paceVars, boundVars
<1>a. ControlInv /\ PassInv /\ PictureInv /\ SendInv
  BY DEF StreamInv, TypeInv
<1>b. mode.clients = 1 /\ ~mode.avcOff /\ mode.others = 0 /\ mode.destroys = 0
  BY <1>a DEF PicturesOnly, PassInv
<1>c. /\ \A c, d \in Connected : c = d
      /\ Connected \subseteq Clients
      /\ Len(todo) <= 1
  BY <1>a, <1>b, OneClient, PassClients
<1>d. \A c \in Clients : /\ out[c] \in Messages /\ pipe[c] \in Seq(PipeItems)
                         /\ c \notin Connected => out[c] = NoMsg
  BY <1>a DEF SendInv
<1>h. todo # <<>> => /\ Head(todo) \in Connected /\ Head(todo) = todo[1]
                     /\ Len(Tail(todo)) = 0 /\ 1 \in 1 .. Len(todo)
  <2> SUFFICES ASSUME todo # <<>>
               PROVE  /\ Head(todo) \in Connected /\ Head(todo) = todo[1]
                      /\ Len(Tail(todo)) = 0 /\ 1 \in 1 .. Len(todo)
    OBVIOUS
  <2>1. todo \in Seq(Connected) /\ Len(todo) \in Nat /\ Len(todo) # 0
    BY <1>a DEF PassInv
  <2>2. Len(todo) = 1
    <3>1. PICK k \in Nat : k = Len(todo)
      BY <2>1
    <3>2. k <= 1 /\ k # 0
      BY <1>c, <2>1, <3>1
    <3> QED
      BY <3>1, <3>2
  <2> QED
    BY <1>a, <2>1, <2>2, PassClients
<1>n. NoMsg.kind = "none" /\ ~Pic(NoMsg)
  BY MessageTypes DEF Pic, Pictures
<1>1. ASSUME UNCHANGED <<canvas, out, pipe, clients>>, lastDrop' => lastDrop,
             pc' \notin {"aborted", "crashed", "hung"},
             pc' = "insert" => \A i \in 1 .. Len(todo') : out[todo'[i]] = NoMsg
      PROVE  BusyInv'
  BY <1>1 DEF BusyInv, WorkerAlive, Connected
<1>2. CASE \/ PollEvent \/ PollTimeout \/ EventsDone \/ PipesFull \/ PushRetry
           \/ PushClientDone \/ PassDone
  <2>1. UNCHANGED <<canvas, out, pipe, clients, lastDrop>>
    BY <1>2, Zenon
       DEF PollEvent, PollTimeout, EventsDone, PipesFull, PushRetry, PushClientDone,
           PassDone
  <2>2. pc' \in {"poll", "events", "commands", "push", "write"}
    BY <1>2, <1>a
       DEF PollEvent, PollTimeout, EventsDone, PipesFull, PushRetry, PushClientDone,
           PassDone, Pass, ControlInv
  <2> QED
    BY <1>1, <2>1, <2>2
<1>3. CASE Tick \/ GuestDraw \/ UNCHANGED vars
  <2>1. UNCHANGED <<canvas, out, pipe, clients, lastDrop, pc, todo>>
    BY <1>3, Zenon DEF Tick, GuestDraw, vars
  <2> QED
    BY <1>1, <2>1 DEF BusyInv, WorkerAlive
<1>4. CASE WriteBlocks
  <2>1. UNCHANGED <<canvas, out, pipe, clients, lastDrop>> /\ pc' = loop /\ todo' = Tail(todo)
    BY <1>4, Zenon DEF WriteBlocks
  <2>2. todo # <<>>
    BY <1>4, <1>a DEF WriteBlocks, PassInv
  <2>3. Len(todo') = 0
    BY <1>h, <2>1, <2>2
  <2> QED
    BY <1>1, <1>a, <2>1, <2>3 DEF ControlInv
<1>5. CASE WriteNothing
  <2>1. out[Head(todo)].kind = "reset" /\ todo # <<>>
    BY <1>5, <1>a DEF WriteNothing, PassInv
  <2>2. out[Head(todo)] = NoMsg \/ Pic(out[Head(todo)])
    BY <1>c, <1>h, <2>1 DEF BusyInv
  <2> QED
    BY <1>n, <2>1, <2>2 DEF Pic, Pictures
<1>6. CASE RingIsEmpty
  <2>1. /\ UNCHANGED <<canvas, out, pipe, clients, lastDrop>> /\ todo' = clients
        /\ pc' = "push" \/ (pc' = "insert" /\ lastDrop)
    BY <1>6 DEF RingIsEmpty, Pass, InsertNow
  <2>2. \A i \in 1 .. Len(clients) : clients[i] \in Connected
    BY <1>a DEF PassInv, Connected, Range
  <2>3. pc' = "insert" => \A i \in 1 .. Len(todo') : out[todo'[i]] = NoMsg
    BY <2>1, <2>2 DEF BusyInv
  <2> QED
    BY <1>1, <2>1, <2>3
<1>7. CASE ProcessCommand
  <2> DEFINE m == Msg("draw", screen + 1)
  <2>1. UNCHANGED <<canvas, out, clients, lastDrop>> /\ (PipesAdd(m) \/ UNCHANGED pipe)
    BY <1>7, Zenon DEF ProcessCommand
  <2>2. pc' \in {"commands", "push"}
    BY <1>7 DEF ProcessCommand, Pass
  <2>3. Pic(m)
    BY DEF Pic, Pictures, Msg
  <2> HIDE DEF m
  <2>4. ASSUME NEW c \in Clients, PipesAdd(m)
        PROVE  \A i \in 1 .. Len(pipe'[c]) : Pic(pipe'[c][i])
    <3>1. pipe'[c] = IF c \in Connected THEN Append(pipe[c], m) ELSE pipe[c]
      BY <2>4 DEF PipesAdd
    <3>2. PICK l \in Nat : l = Len(pipe[c])
      BY <1>d
    <3>3. \A i \in 1 .. l : Pic(pipe[c][i])
      BY <3>2 DEF BusyInv
    <3>4. CASE c \in Connected
      <4>1. pipe'[c] = Append(pipe[c], m)
        BY <3>1, <3>4
      <4>2. /\ Len(pipe'[c]) = l + 1 /\ pipe'[c][l + 1] = m
            /\ \A i \in 1 .. l : pipe'[c][i] = pipe[c][i]
        BY <1>d, <3>2, <4>1
      <4>3. \A i \in 1 .. l + 1 : i \in 1 .. l \/ i = l + 1
        BY <3>2
      <4> QED
        BY <2>3, <3>3, <4>2, <4>3
    <3>5. CASE c \notin Connected
      BY <3>1, <3>2, <3>3, <3>5
    <3> QED
      BY <3>4, <3>5
  <2>5. \A c \in Clients : \A i \in 1 .. Len(pipe'[c]) : Pic(pipe'[c][i])
    BY <2>1, <2>4 DEF BusyInv
  <2> QED
    BY <2>1, <2>2, <2>5 DEF BusyInv, WorkerAlive, Connected
<1>e. ASSUME NEW c \in Connected, EncodeFor(c)
      PROVE  \A d \in Clients : out'[d] = NoMsg \/ Pic(out'[d])
  <2>1. Pic(Msg("frame", screen))
    BY DEF Pic, Pictures, Msg
  <2>2. \A d \in Clients \ {c} : out[d] = NoMsg
    BY <1>c, <1>d
  <2> QED
    BY <1>a, <1>c, <1>e, <1>n, <2>1, <2>2, EncodeType
<1>8. CASE PushItem
  <2>0. PICK c \in Connected : c = Head(todo)
    BY <1>8, <1>h DEF PushItem
  <2> DEFINE p == pipe[c]
  <2>1. /\ out[c] = NoMsg /\ p # <<>> /\ pipe' = [pipe EXCEPT ![c] = Tail(@)]
        /\ UNCHANGED <<clients, canvas>> /\ pc' \in {"push", "write"}
    BY <1>8, <2>0 DEF PushItem
  <2>2. \/ UNCHANGED out
        \/ EncodeFor(c) /\ ~lastDrop'
        \/ /\ ~(avc /\ p[1].kind = "draw") /\ out' = [out EXCEPT ![c] = Head(p)]
           /\ UNCHANGED lastDrop
    BY <1>8, <2>0, <2>1, <1>c, <1>d DEF PushItem, DropFrame
  <2>3. /\ c \in Clients /\ p \in Seq(PipeItems) /\ Head(p) = p[1] /\ 1 \in 1 .. Len(p)
        /\ p[1] \in PipeItems /\ Pic(p[1])
    BY <1>c, <1>d, <2>1 DEF BusyInv
  <2>4. \A d \in Clients : \A i \in 1 .. Len(pipe'[d]) : Pic(pipe'[d][i])
    <3> SUFFICES ASSUME NEW d \in Clients, NEW i \in 1 .. Len(pipe'[d])
                 PROVE  Pic(pipe'[d][i])
      OBVIOUS
    <3>1. CASE d = c
      <4>1. pipe'[d] = Tail(p)
        BY <1>a, <2>1, <2>3, <3>1 DEF SendInv
      <4>2. i + 1 \in 1 .. Len(p) /\ Tail(p)[i] = p[i + 1]
        <5> HIDE DEF p
        <5>1. PICK l \in Nat : l = Len(p)
          BY <2>3
        <5>2. i \in 1 .. Len(Tail(p)) /\ Len(Tail(p)) = l - 1
          BY <2>1, <2>3, <4>1, <5>1
        <5>3. Tail(p)[i] = p[i + 1]
          BY <2>1, <2>3, <5>2
        <5> QED
          BY <5>1, <5>2, <5>3
      <4> QED
        BY <2>3, <4>1, <4>2 DEF BusyInv
    <3>2. CASE d # c
      <4>1. pipe'[d] = pipe[d]
        BY <1>a, <2>1, <3>2 DEF SendInv
      <4> QED
        BY <4>1 DEF BusyInv
    <3> QED
      BY <3>1, <3>2
  <2>5. /\ \A d \in Clients : out'[d] = NoMsg \/ Pic(out'[d])
        /\ lastDrop' => out'[c] = NoMsg
    <3>1. CASE UNCHANGED out
      BY <2>1, <3>1 DEF BusyInv
    <3>2. CASE EncodeFor(c) /\ ~lastDrop'
      BY <1>e, <3>2
    <3>3. CASE /\ ~(avc /\ p[1].kind = "draw") /\ out' = [out EXCEPT ![c] = Head(p)]
               /\ UNCHANGED lastDrop
      <4>1. \A d \in Clients : out'[d] = NoMsg \/ Pic(out'[d])
        BY <1>a, <2>3, <3>3 DEF SendInv, BusyInv
      <4>2. p[1].kind \in {"draw", "image"}
        BY <2>3 DEF Pic, Pictures, PipeItems
      <4>3. CASE ~avc
        BY <1>b, <3>3, <4>1, <4>3 DEF StreamInv, AvcInv
      <4>4. CASE p[1].kind = "image"
        <5>1. ~NoImage(p)
          BY <2>3, <4>4 DEF NoImage
        <5>2. ~lastDrop
          BY <1>b, <5>1 DEF StreamInv, OrderInv, OrderOf, Quiet
        <5> QED
          BY <3>3, <4>1, <5>2
      <4> QED
        BY <3>3, <4>2, <4>3, <4>4
    <3> QED
      BY <2>2, <3>1, <3>2, <3>3
  <2> HIDE DEF p
  <2> QED
    BY <1>c, <2>1, <2>4, <2>5 DEF BusyInv, WorkerAlive, Connected
<1>9. CASE InsertFrame
  <2>0. PICK c \in Connected : c = Head(todo)
    BY <1>9, <1>h DEF InsertFrame
  <2>1. /\ pc = "insert" /\ todo # <<>> /\ UNCHANGED <<clients, canvas, pipe>>
        /\ out[c] = NoMsg /\ canvas
    BY <1>9, <1>h, <2>0 DEF InsertFrame, BusyInv
  <2>2. \/ UNCHANGED <<out, pc>> /\ todo' = Tail(todo)
        \/ EncodeFor(c) /\ pc' = "write" /\ ~lastDrop'
    BY <1>9, <2>0, <2>1 DEF InsertFrame
  <2>3. CASE UNCHANGED <<out, pc>> /\ todo' = Tail(todo)
    <3>1. Len(todo') = 0
      BY <1>h, <2>1, <2>3
    <3>2. \A d \in Connected : out'[d] = NoMsg
      BY <1>c, <2>1, <2>3
    <3>3. Connected' = Connected
      BY <2>1 DEF Connected
    <3> QED
      BY <2>1, <2>3, <3>1, <3>2, <3>3 DEF BusyInv, WorkerAlive
  <2>4. CASE EncodeFor(c) /\ pc' = "write" /\ ~lastDrop'
    BY <1>e, <2>1, <2>4 DEF BusyInv, WorkerAlive
  <2> QED
    BY <2>2, <2>3, <2>4
<1>10. CASE WriteDone
  <2>0. PICK c \in Connected : c = Head(todo)
    BY <1>10, <1>a, <1>h DEF WriteDone, PassInv
  <2>1. /\ UNCHANGED <<clients, canvas, pipe, lastDrop>> /\ out' = [out EXCEPT ![c] = NoMsg]
        /\ pc' = loop /\ todo # <<>> /\ todo' = IF loop = "insert" THEN Tail(todo) ELSE todo
    BY <1>10, <1>a, <2>0 DEF WriteDone, PassInv
  <2>2. \A d \in Clients : out'[d] = NoMsg \/ out'[d] = out[d]
    BY <1>a, <2>1 DEF SendInv
  <2>3. pc' = "insert" => Len(todo') = 0
    BY <1>h, <2>1
  <2>4. pc' \in {"insert", "push"}
    BY <1>a, <2>1 DEF ControlInv
  <2>5. \A d \in Connected : out'[d] = NoMsg
    BY <1>a, <1>c, <2>0, <2>1 DEF SendInv
  <2>6. Connected' = Connected
    BY <2>1 DEF Connected
  <2> QED
    BY <2>1, <2>2, <2>3, <2>4, <2>5, <2>6 DEF BusyInv, WorkerAlive
<1>11. ASSUME NEW c \in Clients, NewDisplayChannel(c) PROVE BusyInv'
  <2>1. /\ UNCHANGED <<canvas, pc>> /\ lastDrop' = FALSE /\ pc = "events"
        /\ Len(clients) < mode.clients
        /\ pipe' = [pipe EXCEPT ![c] = IF canvas THEN <<Msg("image", screen)>> ELSE <<>>]
        /\ out' = [d \in Clients |-> IF out[d].kind = "frame"
                                     THEN [out[d] EXCEPT !.own = FALSE] ELSE out[d]]
    BY <1>11, Zenon DEF NewDisplayChannel, RestartPacing
  <2>2. \A d \in Clients : out[d] = NoMsg
    BY <1>a, <1>b, <1>d, <2>1, OneClient
  <2>3. \A d \in Clients : out'[d] = NoMsg
    BY <1>n, <2>1, <2>2
  <2>4. \A d \in Clients : pipe'[d] = <<Msg("image", screen)>> \/ pipe'[d] = pipe[d]
    BY <1>a, <2>1 DEF SendInv, BusyInv
  <2>5. /\ Len(<<Msg("image", screen)>>) = 1 /\ <<Msg("image", screen)>>[1] = Msg("image", screen)
        /\ Pic(Msg("image", screen))
    BY DEF Pic, Pictures, Msg
  <2>6. \A d \in Clients : \A i \in 1 .. Len(pipe'[d]) : Pic(pipe'[d][i])
    BY <2>4, <2>5 DEF BusyInv
  <2> QED
    BY <2>1, <2>3, <2>6 DEF BusyInv, WorkerAlive
<1>12. ASSUME NEW c \in Clients, Disconnect(c) PROVE BusyInv'
  <2>1. /\ UNCHANGED <<canvas, pc, lastDrop>> /\ pc = "events"
        /\ clients' = Kept(clients, Clients \ {c})
        /\ pipe' = [pipe EXCEPT ![c] = <<>>] /\ out' = [out EXCEPT ![c] = NoMsg]
    BY <1>12, Zenon DEF Disconnect, ClearSentItem
  <2>2. Connected' \subseteq Connected
    BY <1>a, <2>1, KeptElements DEF Connected, PassInv
  <2>3. \A d \in Clients : out'[d] = NoMsg \/ out'[d] = out[d]
    BY <1>a, <2>1 DEF SendInv
  <2>4. \A d \in Clients : pipe'[d] = <<>> \/ pipe'[d] = pipe[d]
    BY <1>a, <2>1 DEF SendInv
  <2>5. \A d \in Clients : \A i \in 1 .. Len(pipe'[d]) : Pic(pipe'[d][i])
    BY <2>4 DEF BusyInv
  <2> QED
    BY <1>c, <2>1, <2>2, <2>3, <2>5 DEF BusyInv, WorkerAlive
<1>13. ASSUME NEW c \in Clients, WriteEvent(c) PROVE BusyInv'
  <2>1. UNCHANGED <<canvas, out, pipe, clients, lastDrop>> /\ pc' = "push"
    BY <1>13, Zenon DEF WriteEvent, Pass
  <2> QED
    BY <1>1, <2>1
<1>14. ASSUME NEW b \in BOOLEAN, HandleAvc(b) PROVE BusyInv'
  <2>1. UNCHANGED <<canvas, out, pipe, clients, lastDrop, pc>> /\ pc = "events"
    BY <1>14, Zenon DEF HandleAvc
  <2> QED
    BY <1>1, <2>1
<1>15. ~PipesAddOther /\ ~CreatePrimary /\ \A slow \in SUBSET Clients : ~DestroyPrimary(slow)
  <2>1. ~(others < mode.others) /\ ~(destroys < mode.destroys) /\ canvas
    BY <1>a, <1>b DEF PictureInv, BusyInv
  <2> QED
    BY <2>1, Zenon DEF PipesAddOther, CreatePrimary, DestroyPrimary
<1> QED
  BY <1>2, <1>3, <1>4, <1>5, <1>6, <1>7, <1>8, <1>9, <1>10, <1>11, <1>12, <1>13, <1>14,
     <1>15 DEF Next, Thread

\* UpdatePending, client by client.
PendingOf(c) ==
    \/ shown[c] = screen
    \/ \E i \in 1 .. Len(pipe[c]) : pipe[c][i].ver = screen
    \/ Pic(out[c]) /\ out[c].ver = screen
    \/ lastDrop /\ avc

PendingInv == \A c \in Connected : PendingOf(c)

\* Every step that takes the newest picture away from a pipe sends it, shows it, or
\* remembers that its frame was dropped.
LEMMA PendingStep ==
  ASSUME PicturesOnly, StreamInv, BusyInv, PendingInv, [Next]_vars
  PROVE  PendingInv'
<1> USE DEF sendVars, paceVars, boundVars
<1>a. PassInv /\ PictureInv /\ SendInv
  BY DEF StreamInv, TypeInv
<1>b. mode.clients = 1 /\ ~mode.avcOff /\ mode.others = 0 /\ mode.destroys = 0
  BY <1>a DEF PicturesOnly, PassInv
<1>c. /\ \A c, d \in Connected : c = d
      /\ \A c \in Connected : /\ c \in Clients /\ out[c] \in Messages
                              /\ pipe[c] \in Seq(PipeItems) /\ shown[c] \in Nat
      /\ screen \in Nat
  BY <1>a, <1>b, OneClient, PassClients, StreamAssumption DEF SendInv, PictureInv
<1>h. todo # <<>> => Head(todo) \in Connected
  BY <1>a, PassClients
<1>1. ASSUME UNCHANGED <<clients, pipe, out, shown, screen, lastDrop>>, avc => avc'
      PROVE  PendingInv'
  BY <1>1 DEF PendingInv, PendingOf, Connected
<1>2. CASE \/ Tick \/ GuestDraw \/ PollEvent \/ PollTimeout \/ EventsDone \/ PipesFull
           \/ RingIsEmpty \/ PushRetry \/ PushClientDone \/ WriteBlocks \/ WriteNothing
           \/ PassDone \/ UNCHANGED vars
  <2>1. UNCHANGED <<clients, pipe, out, shown, screen, lastDrop, avc>>
    BY <1>2, Zenon
       DEF Tick, GuestDraw, PollEvent, PollTimeout, EventsDone, PipesFull, RingIsEmpty,
           PushRetry, PushClientDone, WriteBlocks, WriteNothing, PassDone, vars
  <2> QED
    BY <1>1, <2>1
<1>3. CASE ProcessCommand
  <2>1. /\ UNCHANGED clients /\ canvas
        /\ screen' = screen + 1 /\ PipesAdd(Msg("draw", screen + 1))
    BY <1>3 DEF ProcessCommand, BusyInv
  <2> SUFFICES ASSUME NEW c \in Connected PROVE PendingOf(c)'
    BY <2>1 DEF PendingInv, Connected
  <2>2. PICK m : m = Msg("draw", screen + 1)
    OBVIOUS
  <2>3. m.ver = screen'
    BY <2>1, <2>2 DEF Msg
  <2>4. pipe'[c] = Append(pipe[c], m)
    BY <1>c, <2>1, <2>2 DEF PipesAdd
  <2>5. PICK l \in Nat : l = Len(pipe[c])
    BY <1>c
  <2>6. Len(pipe'[c]) = l + 1 /\ pipe'[c][l + 1] = m /\ l + 1 \in 1 .. l + 1
    BY <1>c, <2>4, <2>5
  <2> QED
    BY <2>3, <2>6 DEF PendingOf
<1>4. CASE PushItem
  <2>0. PICK c \in Connected : c = Head(todo)
    BY <1>4, <1>h DEF PushItem
  <2> DEFINE p == pipe[c]
  <2>1. /\ out[c] = NoMsg /\ p # <<>> /\ pipe' = [pipe EXCEPT ![c] = Tail(@)]
        /\ UNCHANGED <<clients, shown, screen, avc>>
    BY <1>4, <2>0 DEF PushItem
  <2>2. \/ avc /\ lastDrop'
        \/ EncodeFor(c)
        \/ out' = [out EXCEPT ![c] = Head(p)] /\ UNCHANGED lastDrop
    BY <1>4, <2>0 DEF PushItem, DropFrame
  <2> SUFFICES PendingOf(c)'
    BY <1>c, <2>1 DEF PendingInv, Connected
  <2>3. CASE avc /\ lastDrop'
    BY <2>1, <2>3 DEF PendingOf
  <2>4. CASE EncodeFor(c)
    <3>1. out'[c] = Msg("frame", screen)
      BY <1>a, <1>c, <2>4, EncodeType
    <3> QED
      BY <2>1, <3>1 DEF PendingOf, Pic, Pictures, Msg
  <2>5. CASE out' = [out EXCEPT ![c] = Head(p)] /\ UNCHANGED lastDrop
    <3>1. out'[c] = p[1] /\ pipe'[c] = Tail(p) /\ p \in Seq(PipeItems) /\ Pic(p[1])
      BY <1>a, <1>c, <2>1, <2>5 DEF SendInv, BusyInv
    <3>2. ~Pic(NoMsg)
      BY MessageTypes DEF Pic, Pictures
    <3>3. CASE \E i \in 1 .. Len(p) : p[i].ver = screen
      <4>1. PICK i \in 1 .. Len(p) : p[i].ver = screen
        BY <3>3
      <4>2. CASE i = 1
        BY <2>1, <3>1, <4>1, <4>2 DEF PendingOf
      <4>3. CASE i # 1
        <5> HIDE DEF p
        <5>1. PICK l \in Nat : l = Len(p)
          BY <3>1
        <5>2. i - 1 \in 1 .. l - 1 /\ Len(Tail(p)) = l - 1
          BY <2>1, <3>1, <4>3, <5>1
        <5>3. Tail(p)[i - 1] = p[i]
          BY <2>1, <3>1, <5>1, <5>2
        <5> QED
          BY <2>1, <3>1, <4>1, <5>2, <5>3 DEF PendingOf
      <4> QED
        BY <4>2, <4>3
    <3>4. CASE shown[c] = screen \/ (lastDrop /\ avc)
      BY <2>1, <2>5, <3>4 DEF PendingOf
    <3> QED
      BY <2>1, <3>2, <3>3, <3>4 DEF PendingInv, PendingOf
  <2> QED
    BY <2>2, <2>3, <2>4, <2>5
<1>5. CASE InsertFrame
  <2>0. PICK c \in Connected : c = Head(todo)
    BY <1>5, <1>h DEF InsertFrame
  <2>1. /\ pc = "insert" /\ out[c] = NoMsg /\ canvas /\ avc
        /\ UNCHANGED <<clients, shown, screen, avc, pipe>>
    <3>1. pc = "insert" /\ todo # <<>> /\ UNCHANGED <<clients, shown, screen, avc, pipe>>
      BY <1>5, Zenon DEF InsertFrame
    <3>2. avc
      BY <1>b, <3>1 DEF StreamInv, AvcInv, Inserting
    <3>3. Head(todo) = todo[1] /\ 1 \in 1 .. Len(todo)
      BY <1>a, <3>1 DEF PassInv
    <3> QED
      BY <2>0, <3>1, <3>2, <3>3 DEF BusyInv
  <2>2. lastDrop' \/ EncodeFor(c)
    BY <1>5, <2>0, <2>1 DEF InsertFrame
  <2> SUFFICES PendingOf(c)'
    BY <1>c, <2>1 DEF PendingInv, Connected
  <2>3. CASE lastDrop'
    BY <2>1, <2>3 DEF PendingOf
  <2>4. CASE EncodeFor(c)
    <3>1. out'[c] = Msg("frame", screen)
      BY <1>a, <1>c, <2>4, EncodeType
    <3> QED
      BY <2>1, <3>1 DEF PendingOf, Pic, Pictures, Msg
  <2> QED
    BY <2>2, <2>3, <2>4
<1>6. CASE WriteDone
  <2>0. PICK c \in Connected : c = Head(todo)
    BY <1>6, <1>a, <1>h DEF WriteDone, PassInv
  <2>1. /\ UNCHANGED <<clients, pipe, screen, avc, lastDrop>>
        /\ shown' = IF Pic(out[c]) THEN [shown EXCEPT ![c] = out[c].ver] ELSE shown
    BY <1>6, <2>0, Zenon DEF WriteDone, Pic
  <2>2. shown'[c] = IF Pic(out[c]) THEN out[c].ver ELSE shown[c]
    BY <1>a, <1>c, <2>1 DEF SendInv
  <2>3. Pic(out[c]) => shown[c] <= out[c].ver /\ out[c].ver <= screen
    BY <1>b DEF StreamInv, OrderInv, OrderOf, Below
  <2>4. out[c].ver \in Nat
    BY <1>c, StreamAssumption DEF Messages
  <2>5. PendingOf(c)
    BY DEF PendingInv
  <2> SUFFICES PendingOf(c)'
    BY <1>c, <2>1 DEF PendingInv, Connected
  <2> QED
    BY <1>c, <2>1, <2>2, <2>3, <2>4, <2>5 DEF PendingOf
<1>7. ASSUME NEW c \in Clients, NewDisplayChannel(c) PROVE PendingInv'
  <2>1. /\ UNCHANGED screen /\ clients' = <<c>> \o clients /\ Len(clients) < mode.clients
        /\ pipe' = [pipe EXCEPT ![c] = IF canvas THEN <<Msg("image", screen)>> ELSE <<>>]
    BY <1>7, Zenon DEF NewDisplayChannel
  <2>2. Connected' = {c}
    <3>1. Connected' = Connected \cup {c}
      BY <1>a, <2>1, RangeConcat DEF Connected, PassInv
    <3> QED
      BY <1>a, <1>b, <2>1, <3>1, OneClient
  <2>3. pipe'[c] = <<Msg("image", screen)>>
    BY <1>a, <2>1 DEF SendInv, BusyInv
  <2>4. 1 \in 1 .. Len(pipe'[c]) /\ pipe'[c][1].ver = screen
    BY <2>3 DEF Msg
  <2> QED
    BY <2>1, <2>2, <2>4 DEF PendingInv, PendingOf
<1>8. ASSUME NEW c \in Clients, Disconnect(c) PROVE PendingInv'
  <2>1. clients' = Kept(clients, Clients \ {c}) /\ c \in Connected
    BY <1>8, Zenon DEF Disconnect
  <2>2. Connected' \subseteq Connected \ {c}
    BY <1>a, <2>1, KeptElements DEF Connected, PassInv
  <2> QED
    BY <1>c, <2>1, <2>2 DEF PendingInv
<1>9. ASSUME NEW c \in Clients, WriteEvent(c) PROVE PendingInv'
  BY <1>1, <1>9, Zenon DEF WriteEvent
<1>10. ASSUME NEW b \in BOOLEAN, HandleAvc(b) PROVE PendingInv'
  <2>1. UNCHANGED <<clients, pipe, out, shown, screen, lastDrop>> /\ avc'
    BY <1>b, <1>10 DEF HandleAvc
  <2> QED
    BY <1>1, <2>1
<1>11. ~PipesAddOther /\ ~CreatePrimary /\ \A slow \in SUBSET Clients : ~DestroyPrimary(slow)
  <2>1. ~(others < mode.others) /\ ~(destroys < mode.destroys) /\ canvas
    BY <1>a, <1>b DEF PictureInv, BusyInv
  <2> QED
    BY <2>1, Zenon DEF PipesAddOther, CreatePrimary, DestroyPrimary
<1> QED
  BY <1>2, <1>3, <1>4, <1>5, <1>6, <1>7, <1>8, <1>9, <1>10, <1>11 DEF Next, Thread

\* All of it holds from the start of the server on.
LEMMA PicturesInvHolds ==
  ASSUME PicturesOnly
  PROVE  Spec => [](StreamInv /\ BusyInv /\ PendingInv)
<1>1. Init => BusyInv
  BY DEF Init, BusyInv, WorkerAlive, Connected, Range
<1>2. Init => PendingInv
  BY DEF Init, PendingInv, Connected, Range
<1>3. StreamInv /\ BusyInv /\ PendingInv /\ [Next]_vars => BusyInv' /\ PendingInv'
  BY BusyStep, PendingStep
<1> QED
  BY <1>1, <1>2, <1>3, StreamInvHolds, PTL DEF Spec

\* With one client that only gets pictures, insert_h264_frame never meets a message that
\* is being sent, a missing canvas or an emptied marshaller: the worker neither aborts
\* nor crashes nor spins.
THEOREM WorkerAliveHolds ==
  ASSUME PicturesOnly
  PROVE  Spec => []WorkerAlive
<1>1. BusyInv => WorkerAlive
  BY DEF BusyInv
<1> QED
  BY <1>1, PicturesInvHolds, PTL

\* ... and no update of the screen is lost: what the client does not show is in its pipe,
\* being written, or remembered as a frame that was dropped.
THEOREM UpdatePendingHolds ==
  ASSUME PicturesOnly
  PROVE  Spec => []UpdatePending
<1>1. StreamInv /\ PendingInv => UpdatePending
  <2> SUFFICES ASSUME StreamInv, PendingInv, NEW c \in Connected
               PROVE  \/ screen \in {shown[c]} \cup {m.ver : m \in Range(pipe[c])}
                      \/ out[c].kind \in Pictures /\ out[c].ver = screen
                      \/ lastDrop /\ avc
    BY DEF UpdatePending
  <2>1. pipe[c] \in Seq(PipeItems)
    BY PassClients DEF StreamInv, TypeInv, SendInv
  <2>2. ASSUME NEW i \in 1 .. Len(pipe[c]), pipe[c][i].ver = screen
        PROVE  screen \in {m.ver : m \in Range(pipe[c])}
    BY <2>1, <2>2 DEF Range
  <2> QED
    BY <2>2 DEF PendingInv, PendingOf, Pic
<1> QED
  BY <1>1, PicturesInvHolds, PTL
====
