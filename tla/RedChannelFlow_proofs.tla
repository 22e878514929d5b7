------------------------ MODULE RedChannelFlow_proofs ------------------------
(***************************************************************************)
(* RedChannelClient implements AckWindow, for every instance of the          *)
(* constants in which the channel handles acks.                             *)
(***************************************************************************)
EXTENDS RedChannelFlow, RedChannelClient_proofs

-----------------------------------------------------------------------------
(* Where a message is in a queue. *)

\* n is the only position in s of a message of type t and generation g; 0: none
Marks(s, t, g, n) ==
    /\ n \in 0 .. Len(s)
    /\ \A i \in 1 .. Len(s) : (s[i].type = t /\ s[i].gen = g) <=> i = n

\* Position finds the one message there is.
LEMMA PositionMarks ==
  ASSUME NEW T, NEW s \in Seq(T), NEW t, NEW g, NEW n, Marks(s, t, g, n)
  PROVE  Position(s, t, g) = n
<1> DEFINE I == {i \in 1 .. Len(s) : s[i].type = t /\ s[i].gen = g}
<1>1. Position(s, t, g) = IF I # {} THEN Min(I) ELSE 0
  BY DEF Position, SelectInSeq
<1>2. CASE n = 0
  <2>1. I = {}
    BY <1>2 DEF Marks
  <2> QED
    BY <1>1, <1>2, <2>1
<1>3. CASE n # 0
  <2>1. I = {n} /\ n \in Int
    BY <1>3 DEF Marks
  <2>2. Min({n}) = n
    BY <2>1 DEF Min
  <2> HIDE DEF I
  <2> QED
    BY <1>1, <2>1, <2>2
<1> QED
  BY <1>2, <1>3

\* A message that is put at the end of the queue.
LEMMA MarksAppend ==
  ASSUME NEW T, NEW s \in Seq(T), NEW e \in T, NEW t, NEW g, NEW n, Marks(s, t, g, n)
  PROVE  /\ ~(e.type = t /\ e.gen = g) => Marks(Append(s, e), t, g, n)
         /\ e.type = t /\ e.gen = g /\ n = 0 => Marks(Append(s, e), t, g, Len(s) + 1)
<1>1. /\ Len(Append(s, e)) = Len(s) + 1 /\ Len(s) \in Nat
      /\ \A i \in 1 .. Len(s) + 1 : Append(s, e)[i] = IF i = Len(s) + 1 THEN e ELSE s[i]
  OBVIOUS
<1>2. n \in 0 .. Len(s)
      /\ \A i \in 1 .. Len(s) : (s[i].type = t /\ s[i].gen = g) <=> i = n
  BY DEF Marks
<1>3. ASSUME ~(e.type = t /\ e.gen = g) PROVE Marks(Append(s, e), t, g, n)
  BY <1>1, <1>2, <1>3 DEF Marks
<1>4. ASSUME e.type = t, e.gen = g, n = 0 PROVE Marks(Append(s, e), t, g, Len(s) + 1)
  BY <1>1, <1>2, <1>4 DEF Marks
<1> QED
  BY <1>3, <1>4

\* A message that is taken from the head of the queue.
LEMMA MarksTail ==
  ASSUME NEW T, NEW s \in Seq(T), s # <<>>, NEW t, NEW g, NEW n, Marks(s, t, g, n)
  PROVE  /\ n = 0 => Marks(Tail(s), t, g, 0)
         /\ n # 0 => Marks(Tail(s), t, g, n - 1)
         /\ n = 1 <=> Head(s).type = t /\ Head(s).gen = g
<1>1. /\ Len(Tail(s)) = Len(s) - 1 /\ Len(s) \in Nat /\ Len(s) > 0
      /\ \A i \in 1 .. Len(s) - 1 : Tail(s)[i] = s[i + 1]
      /\ Head(s) = s[1]
  OBVIOUS
<1>2. n \in 0 .. Len(s)
      /\ \A i \in 1 .. Len(s) : (s[i].type = t /\ s[i].gen = g) <=> i = n
  BY DEF Marks
<1>3. \A i \in 1 .. Len(s) - 1 : i + 1 \in 1 .. Len(s)
  BY <1>1
<1>4. \A i \in 1 .. Len(s) - 1 :
         (Tail(s)[i].type = t /\ Tail(s)[i].gen = g) <=> i + 1 = n
  BY <1>1, <1>2, <1>3
<1>5. n = 0 => Marks(Tail(s), t, g, 0)
  BY <1>1, <1>2, <1>4 DEF Marks
<1>6. n # 0 => Marks(Tail(s), t, g, n - 1)
  BY <1>1, <1>2, <1>4 DEF Marks
<1>7. n = 1 <=> Head(s).type = t /\ Head(s).gen = g
  BY <1>1, <1>2
<1> QED
  BY <1>5, <1>6, <1>7

\* The ACKs behind position n when a message is put at the end.
LEMMA AcksAppend ==
  ASSUME NEW T, NEW s \in Seq(T), NEW e \in T, NEW n \in 0 .. Len(s)
  PROVE  AcksBehind(Append(s, e), n) = AcksBehind(s, n) + One(e \in OfType("ACK"))
<1> DEFINE b == SubSeq(s, n + 1, Len(s))
<1>1. b \in Seq(T)
  BY CutSeq
<1>2. SubSeq(Append(s, e), n + 1, Len(Append(s, e))) = Append(b, e)
  <2> DEFINE l == SubSeq(Append(s, e), n + 1, Len(Append(s, e)))
             k == Append(b, e)
  <2>1. Len(l) = Len(s) - n + 1 /\ Len(k) = Len(s) - n + 1 /\ Len(s) \in Nat
    OBVIOUS
  <2>2. \A i \in 1 .. Len(s) - n + 1 : l[i] = k[i]
    OBVIOUS
  <2>3. l \in Seq(T) /\ k \in Seq(T)
    OBVIOUS
  <2> HIDE DEF l, k
  <2>4. l = k
    BY <2>1, <2>2, <2>3, SeqEqual
  <2> QED
    BY <2>4 DEF l, k
<1> HIDE DEF b
<1>3. Count(Append(b, e), OfType("ACK")) = Count(b, OfType("ACK")) + One(e \in OfType("ACK"))
  BY <1>1, CountQueue
<1> QED
  BY <1>2, <1>3 DEF AcksBehind, b

\* ... and when one is taken from the head.
LEMMA AcksTail ==
  ASSUME NEW T, NEW s \in Seq(T), s # <<>>, NEW n \in 0 .. Len(s)
  PROVE  /\ n # 0 => AcksBehind(Tail(s), n - 1) = AcksBehind(s, n)
         /\ n = 0 => AcksBehind(Tail(s), 0) = AcksBehind(s, 0) - One(Head(s) \in OfType("ACK"))
<1>1. ASSUME n # 0 PROVE AcksBehind(Tail(s), n - 1) = AcksBehind(s, n)
  <2>1. SubSeq(Tail(s), n - 1 + 1, Len(Tail(s))) = SubSeq(s, n + 1, Len(s))
    BY <1>1
  <2> QED
    BY <2>1 DEF AcksBehind
<1>2. AcksBehind(Tail(s), 0) = AcksBehind(s, 0) - One(Head(s) \in OfType("ACK"))
  <2>1. SubSeq(s, 0 + 1, Len(s)) = s /\ SubSeq(Tail(s), 0 + 1, Len(Tail(s))) = Tail(s)
    OBVIOUS
  <2>2. Count(Tail(s), OfType("ACK")) = Count(s, OfType("ACK")) - One(Head(s) \in OfType("ACK"))
    BY CountQueue
  <2> QED
    BY <2>1, <2>2 DEF AcksBehind
<1> QED
  BY <1>1, <1>2

\* The ACKs behind a position are a natural number, none behind the last one.
LEMMA AcksType ==
  ASSUME NEW T, NEW s \in Seq(T), NEW n \in 0 .. Len(s)
  PROVE  AcksBehind(s, n) \in Nat /\ AcksBehind(s, Len(s)) = 0
<1>1. SubSeq(s, n + 1, Len(s)) \in Seq(T)
  BY CutSeq
<1>2. SubSeq(s, Len(s) + 1, Len(s)) = <<>>
  OBVIOUS
<1> QED
  BY <1>1, <1>2, CountType, CountShort DEF AcksBehind

\* every message of type t in s has a generation of 1 .. g and is not behind n
Ordered(s, t, g, n) ==
    \A i \in 1 .. Len(s) : s[i].type = t => s[i].gen \in 1 .. g /\ i <= n

\* The order when a message is put at the end.
LEMMA OrderedAppend ==
  ASSUME NEW T, NEW s \in Seq(T), NEW e \in T, NEW t, NEW g \in Nat,
         NEW n \in 0 .. Len(s), Ordered(s, t, g, n)
  PROVE  /\ e.type # t => Ordered(Append(s, e), t, g, n)
         /\ e.gen \in 1 .. g => Ordered(Append(s, e), t, g, Len(s) + 1)
         /\ e.type # t \/ e.gen \in 1 .. g =>
              Ordered(Append(s, e), t, g, Len(Append(s, e)))
         /\ e.gen = g + 1 => Ordered(Append(s, e), t, g + 1, Len(s) + 1)
<1>1. /\ Len(Append(s, e)) = Len(s) + 1 /\ Len(s) \in Nat
      /\ \A i \in 1 .. Len(s) + 1 : Append(s, e)[i] = IF i = Len(s) + 1 THEN e ELSE s[i]
  OBVIOUS
<1>2. \A i \in 1 .. Len(s) : s[i].type = t => s[i].gen \in 1 .. g /\ i <= n
  BY DEF Ordered
<1>3. e.type # t => Ordered(Append(s, e), t, g, n)
  BY <1>1, <1>2 DEF Ordered
<1>4. e.gen \in 1 .. g => Ordered(Append(s, e), t, g, Len(s) + 1)
  BY <1>1, <1>2 DEF Ordered
<1>5. e.type # t \/ e.gen \in 1 .. g => Ordered(Append(s, e), t, g, Len(Append(s, e)))
  BY <1>1, <1>2 DEF Ordered
<1>6. e.gen = g + 1 => Ordered(Append(s, e), t, g + 1, Len(s) + 1)
  BY <1>1, <1>2 DEF Ordered
<1> QED
  BY <1>3, <1>4, <1>5, <1>6

\* The order when a message is taken from the head.
LEMMA OrderedTail ==
  ASSUME NEW T, NEW s \in Seq(T), s # <<>>, NEW t, NEW g \in Nat,
         NEW n \in 0 .. Len(s), Ordered(s, t, g, n)
  PROVE  /\ n # 0 => Ordered(Tail(s), t, g, n - 1)
         /\ n = 0 => Ordered(Tail(s), t, g, 0)
         /\ Head(s).type = t => Head(s).gen \in 1 .. g /\ n # 0
         /\ Ordered(Tail(s), t, g, Len(Tail(s)))
<1>1. /\ Len(Tail(s)) = Len(s) - 1 /\ Len(s) \in Nat /\ Len(s) > 0
      /\ \A i \in 1 .. Len(s) - 1 : Tail(s)[i] = s[i + 1] /\ i + 1 \in 1 .. Len(s)
      /\ Head(s) = s[1]
  OBVIOUS
<1>2. \A i \in 1 .. Len(s) : s[i].type = t => s[i].gen \in 1 .. g /\ i <= n
  BY DEF Ordered
<1>3. \A i \in 1 .. Len(s) - 1 : Tail(s)[i].type = t => Tail(s)[i].gen \in 1 .. g /\ i + 1 <= n
  BY <1>1, <1>2
<1>4. (n # 0 => Ordered(Tail(s), t, g, n - 1)) /\ (n = 0 => Ordered(Tail(s), t, g, 0))
  BY <1>1, <1>3 DEF Ordered
<1>5. Head(s).type = t => Head(s).gen \in 1 .. g /\ n # 0
  BY <1>1, <1>2
<1>6. Ordered(Tail(s), t, g, Len(Tail(s)))
  BY <1>1, <1>3 DEF Ordered
<1> QED
  BY <1>4, <1>5, <1>6

-----------------------------------------------------------------------------
(* The inductive invariant. *)

\* Nothing is sent before the window is zeroed; the main message behind an
\* urgent one is let out one message late at most.
Opened ==
    /\ phase # "open" => window = Modulus - 1 /\ gen = 0 /\ out = NoMsg
    /\ active = "urgent" => window <= 2 * Window + 1

\* SET_ACKs reach the peer, and their answers the server, in the order of their
\* generations, each at most once; the last SET_ACK is behind every other one, and
\* once it was received its answer is behind every other answer.
InOrder ==
    /\ Marks(OnTheWire, "SET_ACK", gen, SetAckAt)
    /\ Ordered(OnTheWire, "SET_ACK", gen, SetAckAt)
    /\ Marks(up, "ACK_SYNC", gen, SyncAt)
    /\ Ordered(up, "ACK_SYNC", gen, Len(up))
    /\ SetAckAt = 0 => Ordered(up, "ACK_SYNC", gen, SyncAt)

\* The last SET_ACK is on the wire, or its answer is, or the server has it; from
\* the moment the peer received it the peer counts with the server's window.
Answered ==
    /\ clientGen \in {-1} \cup 1 .. gen
    /\ SetAckAt # 0 => SyncAt = 0 /\ clientGen # gen
    /\ gen > 0 /\ SetAckAt = 0 =>
          /\ SyncAt = 0 <=> clientGen = gen
          /\ ackCount \in 1 .. Window /\ ackWindow = Window

FlowInv == connected => Opened /\ InOrder /\ Answered

FlowIInv == TypeOK /\ SendInv /\ PingInv /\ FlowInv /\ Flow!WindowAccounted

\* The types the proofs below use.
LEMMA FlowTypes ==
  ASSUME TypeOK
  PROVE  /\ OnTheWire \in Seq(Messages) /\ down \in Seq(Messages) /\ up \in Seq(UpMessages)
         /\ gen \in Nat /\ clientGen \in Nat \cup {-1} /\ window \in 0 .. Modulus - 1
         /\ ackCount \in 0 .. Window /\ connected \in BOOLEAN
         /\ Window \in Nat \ {0} /\ Modulus \in Nat /\ Modulus > 2 * Window + 3
         /\ Len(OnTheWire) \in Nat /\ Len(up) \in Nat
<1>1. /\ down \in Seq(Messages) /\ up \in Seq(UpMessages)
      /\ gen \in Nat /\ clientGen \in Nat \cup {-1} /\ window \in 0 .. Modulus - 1
      /\ ackCount \in 0 .. Window /\ connected \in BOOLEAN
      /\ out \in Messages \cup {NoMsg}
  BY DEF TypeOK, SendTypeOK, AckTypeOK, PeerTypeOK
<1>2. OnTheWire \in Seq(Messages)
  BY <1>1 DEF OnTheWire
<1>3. Len(OnTheWire) \in Nat /\ Len(up) \in Nat
  BY <1>1, <1>2
<1> QED
  BY <1>1, <1>2, <1>3, ConstantsAssumption

\* The positions of the next state, from the messages it holds.
LEMMA PositionsNext ==
  ASSUME TypeOK', NEW a, NEW b,
         Marks(OnTheWire', "SET_ACK", gen', a), Marks(up', "ACK_SYNC", gen', b)
  PROVE  SetAckAt' = a /\ SyncAt' = b
<1>1. OnTheWire' \in Seq(Messages) /\ up' \in Seq(UpMessages)
  <2>1. /\ down' \in Seq(Messages) /\ up' \in Seq(UpMessages) /\ out' \in Messages \cup {NoMsg}
    BY DEF TypeOK, SendTypeOK, PeerTypeOK
  <2> QED
    BY <2>1 DEF OnTheWire
<1> QED
  BY <1>1, PositionMarks DEF SetAckAt, SyncAt

\* Steps that touch neither the stream nor the counters are not visible.
LEMMA FlowFrame ==
  ASSUME FlowInv,
         UNCHANGED <<connected, phase, out, down, up, gen, clientGen, window,
                     ackCount, ackWindow>>,
         active' = active
  PROVE  FlowInv' /\ UNCHANGED Flow!vars
<1>1. OnTheWire' = OnTheWire
  BY DEF OnTheWire
<1>2. SetAckAt' = SetAckAt /\ SyncAt' = SyncAt
  BY <1>1 DEF SetAckAt, SyncAt
<1>3. AcksBehind(up', SyncAt') = AcksBehind(up, SyncAt)
  BY <1>2
<1>4. UNCHANGED Flow!vars
  BY <1>1, <1>2, <1>3 DEF Flow!vars, flowMode, flowWindow, flowFlying, flowSetAck,
     flowCount, flowAcks, Counting
<1>5. FlowInv'
  BY <1>1, <1>2 DEF FlowInv, Opened, InOrder, Answered
<1> QED
  BY <1>4, <1>5

-----------------------------------------------------------------------------
(* The steps. *)

\* messages_window does not wrap where the arithmetic stays in range.
LEMMA NoWrap == \A x \in 0 .. Modulus - 1 : x % Modulus = x
  BY ConstantsAssumption

\* A message begun behind those on the wire, while the peer's direction stays
\* as it is: a step of AckWindow!Send, whether it is an item the loop lets out or
\* the main message that follows an urgent one.
LEMMA FlowSend ==
  ASSUME FlowIInv, TypeOK', connected, phase = "open", window <= 2 * Window + 1,
         NEW m \in Messages, m.type # "SET_ACK",
         OnTheWire' = Append(OnTheWire, m),
         window' = (window + 1) % Modulus,
         active' = "urgent" => window <= 2 * Window,
         UNCHANGED <<connected, phase, up, gen, clientGen, ackCount, ackWindow>>
  PROVE  FlowInv' /\ Flow!Send
<1>0. /\ OnTheWire \in Seq(Messages) /\ up \in Seq(UpMessages) /\ gen \in Nat
      /\ window \in 0 .. Modulus - 1 /\ Window \in Nat \ {0} /\ Modulus \in Nat
      /\ Modulus > 2 * Window + 3 /\ Len(OnTheWire) \in Nat
      /\ Opened /\ InOrder /\ Answered
  BY FlowTypes DEF FlowIInv, FlowInv
<1>1. window' = window + 1
  BY <1>0, NoWrap, window + 1 \in 0 .. Modulus - 1
<1>2. /\ Marks(OnTheWire', "SET_ACK", gen', SetAckAt)
      /\ Ordered(OnTheWire', "SET_ACK", gen', SetAckAt)
  <2>1. SetAckAt \in 0 .. Len(OnTheWire)
    BY <1>0 DEF InOrder, Marks
  <2> QED
    BY <1>0, <2>1, MarksAppend, OrderedAppend DEF InOrder
<1>3. Marks(up', "ACK_SYNC", gen', SyncAt)
  BY <1>0 DEF InOrder
<1>4. SetAckAt' = SetAckAt /\ SyncAt' = SyncAt
  BY <1>2, <1>3, PositionsNext
<1>5. InOrder'
  BY <1>0, <1>2, <1>4 DEF InOrder
<1>6. Opened'
  BY <1>0, <1>1 DEF Opened
<1>7. Answered'
  BY <1>0, <1>4 DEF Answered
<1>8. Len(OnTheWire') = Len(OnTheWire) + 1
  BY <1>0
<1>9. /\ flowMode \in {"open", "counting"} /\ flowMode' = flowMode
      /\ flowWindow = window /\ flowWindow' = window'
      /\ flowSetAck' = flowSetAck /\ flowCount' = flowCount /\ flowAcks' = flowAcks
  BY <1>4 DEF flowMode, flowWindow, flowSetAck, flowCount, flowAcks, Counting
<1>10. flowFlying' = IF flowMode = "counting" THEN flowFlying + 1 ELSE flowFlying
  <2>1. SetAckAt \in Nat
    BY <1>0 DEF InOrder, Marks
  <2> QED
    BY <1>0, <1>4, <1>8, <2>1 DEF flowMode, flowFlying, Counting
<1>11. Flow!Send
  BY <1>1, <1>9, <1>10 DEF Flow!Send
<1> QED
  BY <1>5, <1>6, <1>7, <1>11 DEF FlowInv

\* One turn of the push loop.
LEMMA FlowSendItem ==
  ASSUME HandleAcks, FlowIInv, TypeOK', SendItem
  PROVE  FlowInv' /\ [Flow!Next]_(Flow!vars)
<1>0. /\ down \in Seq(Messages) /\ up \in Seq(UpMessages) /\ gen \in Nat
      /\ window \in 0 .. Modulus - 1 /\ Window \in Nat \ {0} /\ Modulus \in Nat
      /\ Modulus > 2 * Window + 3
  BY FlowTypes DEF FlowIInv
<1>1. /\ connected /\ out = NoMsg /\ active = "main"
      /\ UNCHANGED <<connected, phase, down, up, ackCount, ackWindow>>
  BY DEF SendItem, ItemToGet, FlowIInv, SendInv, SendState, DisconnectedIsEmpty, peerVars
<1>2. Opened /\ InOrder /\ Answered
  BY <1>1 DEF FlowIInv, FlowInv
<1>3. window <= 2 * Window
  BY <1>0 DEF SendItem, ItemToGet, WaitingForAck
<1>4. phase = "open"
  BY <1>0, <1>2, <1>3 DEF Opened
<1>5. OnTheWire = down
  BY <1>1 DEF OnTheWire
<1>6. CASE Head(pipe) \in {"nothing", "data_deps"}
  <2>1. UNCHANGED <<out, active, gen, clientGen, window>>
    BY <1>6 DEF SendItem, ackVars
  <2> QED
    BY <1>1, <2>1, FlowFrame DEF FlowIInv
<1>7. CASE Head(pipe) = "SET_ACK"
  <2> DEFINE m == [type |-> "SET_ACK", gen |-> gen + 1]
  <2>1. /\ out' = m /\ gen' = gen + 1 /\ window' = (0 + 1) % Modulus
        /\ UNCHANGED <<active, clientGen>> /\ m \in Messages
    BY <1>7, <1>0 DEF SendItem, BeginSend, Messages, MsgTypes
  <2>2. window' = 1
    BY <1>0, <2>1, NoWrap, 0 + 1 \in 0 .. Modulus - 1
  <2>3. OnTheWire' = Append(down, m)
    BY <1>1, <2>1 DEF OnTheWire, NoMsg
  <2>4. m.type = "SET_ACK" /\ m.gen = gen + 1
    OBVIOUS
  <2> HIDE DEF m
  <2>5. Marks(down, "SET_ACK", gen + 1, 0)
    BY <1>0, <1>2, <1>5 DEF InOrder, Ordered, Marks
  <2>6. Marks(up, "ACK_SYNC", gen + 1, 0)
    BY <1>0, <1>2 DEF InOrder, Ordered, Marks
  <2>7. SetAckAt' = Len(down) + 1 /\ SyncAt' = 0
        /\ Marks(OnTheWire', "SET_ACK", gen', SetAckAt')
        /\ Marks(up', "ACK_SYNC", gen', SyncAt')
    <3>1. Marks(OnTheWire', "SET_ACK", gen', Len(down) + 1)
      BY <1>0, <2>1, <2>3, <2>4, <2>5, MarksAppend
    <3>2. Marks(up', "ACK_SYNC", gen', 0)
      BY <1>1, <2>1, <2>6
    <3>3. SetAckAt' = Len(down) + 1 /\ SyncAt' = 0
      BY <3>1, <3>2, PositionsNext
    <3> QED
      BY <3>1, <3>2, <3>3
  <2>8. Ordered(OnTheWire', "SET_ACK", gen', SetAckAt')
    <3>1. SetAckAt \in 0 .. Len(down) /\ Ordered(down, "SET_ACK", gen, SetAckAt)
      BY <1>2, <1>5 DEF InOrder, Marks
    <3> QED
      BY <1>0, <2>1, <2>3, <2>4, <2>7, <3>1, OrderedAppend
  <2>9. Ordered(up', "ACK_SYNC", gen', Len(up'))
    BY <1>0, <1>1, <1>2, <2>1 DEF InOrder, Ordered
  <2>10. SetAckAt' # 0 /\ Len(down) \in Nat /\ Len(OnTheWire') = Len(down) + 1
    BY <1>0, <2>1, <2>3, <2>7
  <2>11. InOrder'
    BY <2>7, <2>8, <2>9, <2>10 DEF InOrder
  <2>12. Opened' /\ Answered'
    BY <1>0, <1>1, <1>2, <1>4, <2>1, <2>2, <2>7, <2>10 DEF Opened, Answered
  <2>13. Flow!SetAck
    <3>1. /\ flowMode \in {"open", "counting"} /\ flowMode' = "counting"
          /\ flowWindow = window /\ flowWindow' = 1
      BY <1>0, <1>1, <1>4, <2>1, <2>2 DEF flowMode, flowWindow, Counting
    <3>2. flowFlying' = 1 /\ flowSetAck' = 1 /\ flowCount' = Window /\ flowAcks' = 0
      BY <1>0, <1>1, <2>1, <2>7, <2>10 DEF flowFlying, flowSetAck, flowCount, flowAcks,
         Counting
    <3> QED
      BY <1>3, <3>1, <3>2 DEF Flow!SetAck
  <2> QED
    BY <2>11, <2>12, <2>13 DEF FlowInv, Flow!Next
<1>8. CASE Head(pipe) \in {"PING", "MIGRATE", "empty", "data", "data_inval"}
  <2>1. /\ out' \in Messages /\ out'.type # "SET_ACK" /\ out' # NoMsg
        /\ window' = (window + 1) % Modulus
        /\ UNCHANGED <<gen, clientGen>>
    BY <1>8 DEF SendItem, BeginSend, Msg, Messages, MsgTypes, NoMsg
  <2>2. OnTheWire' = Append(OnTheWire, out')
    BY <1>1, <1>5, <2>1 DEF OnTheWire
  <2>3. FlowInv' /\ Flow!Send
    BY <1>0, <1>1, <1>3, <1>4, <2>1, <2>2, FlowSend
  <2> QED
    BY <2>3 DEF Flow!Next
<1> QED
  BY <1>6, <1>7, <1>8 DEF SendItem

\* The end of a message; the main message behind an urgent one is begun.
LEMMA FlowWriteDone ==
  ASSUME FlowIInv, TypeOK', WriteDone
  PROVE  FlowInv' /\ [Flow!Next]_(Flow!vars)
<1>1. /\ connected /\ out # NoMsg /\ OnTheWire = Append(down, out)
      /\ down' = Append(down, out)
      /\ UNCHANGED <<connected, phase, up, gen, clientGen, ackCount, ackWindow>>
  BY DEF WriteDone, FlowIInv, SendInv, SendState, OnTheWire, peerVars
<1>2. Opened /\ InOrder /\ Answered
  BY <1>1 DEF FlowIInv, FlowInv
<1>3. CASE active = "urgent"
  <2>1. /\ out' = mainMsg /\ window' = (window + 1) % Modulus /\ active' = "main"
        /\ mainMsg # NoMsg
    BY <1>1, <1>3 DEF WriteDone, BeginSend, FlowIInv, SendInv, SendState
  <2>2. mainMsg \in Messages /\ mainMsg.type # "SET_ACK"
    BY <2>1 DEF FlowIInv, PingInv, Msg, Messages, MsgTypes
  <2>3. OnTheWire' = Append(OnTheWire, mainMsg)
    BY <1>1, <2>1 DEF OnTheWire
  <2>4. phase = "open" /\ window <= 2 * Window + 1
    BY <1>1, <1>2, <1>3 DEF Opened
  <2>5. FlowInv' /\ Flow!Send
    BY <1>1, <2>1, <2>2, <2>3, <2>4, FlowSend
  <2> QED
    BY <2>5 DEF Flow!Next
<1>4. CASE active # "urgent"
  <2>1. out' = NoMsg /\ UNCHANGED <<active, window>>
    BY <1>4 DEF WriteDone
  <2>2. OnTheWire' = OnTheWire
    BY <1>1, <2>1 DEF OnTheWire
  <2>3. SetAckAt' = SetAckAt /\ SyncAt' = SyncAt
    BY <1>1, <2>2 DEF SetAckAt, SyncAt
  <2>4. FlowInv'
    BY <1>1, <1>2, <2>1, <2>2, <2>3 DEF FlowInv, Opened, InOrder, Answered
  <2>5. AcksBehind(up', SyncAt') = AcksBehind(up, SyncAt)
    BY <1>1, <2>3
  <2>6. UNCHANGED Flow!vars
    BY <1>1, <2>1, <2>2, <2>3, <2>5 DEF Flow!vars, flowMode, flowWindow, flowFlying,
       flowSetAck, flowCount, flowAcks, Counting
  <2> QED
    BY <2>4, <2>6
<1> QED
  BY <1>3, <1>4

\* What the peer puts on the stream for the message it receives: the ACK of a full
\* window first, then the answer.
LEMMA PeerAnswers ==
  ASSUME TypeOK, PeerReceive
  PROVE  \E u \in Seq(UpMessages) :
           /\ \/ ackCount = 1 /\ u = Append(up, Msg("ACK"))
              \/ ackCount # 1 /\ u = up
           /\ \/ /\ Head(down).type = "SET_ACK"
                 /\ up' = Append(u, [type |-> "ACK_SYNC", gen |-> Head(down).gen])
              \/ /\ Head(down).type # "SET_ACK"
                 /\ \/ up' = u
                    \/ \E t \in {"PONG", "FLUSH_MARK"} : up' = Append(u, Msg(t))
<1> DEFINE m == Head(down)
           a == IF ackCount = 1 THEN <<Msg("ACK")>> ELSE <<>>
           u == up \o a
<1>1. up \in Seq(UpMessages) /\ up' = u \o Reply(m)
  BY DEF TypeOK, PeerTypeOK, PeerReceive
<1>2. Msg("ACK") \in UpMessages
  BY DEF Msg, UpMessages
<1>3. /\ ackCount = 1 => u = Append(up, Msg("ACK"))
      /\ ackCount # 1 => u = up
  BY <1>1, <1>2
<1>4. u \in Seq(UpMessages)
  BY <1>1, <1>2, <1>3
<1> HIDE DEF u
<1>5. ASSUME NEW x PROVE u \o <<x>> = Append(u, x) /\ u \o <<>> = u
  BY <1>4
<1>6. \/ /\ m.type = "SET_ACK"
         /\ up' = Append(u, [type |-> "ACK_SYNC", gen |-> m.gen])
      \/ /\ m.type # "SET_ACK"
         /\ \/ up' = u
            \/ \E t \in {"PONG", "FLUSH_MARK"} : up' = Append(u, Msg(t))
  <2>1. CASE m.type = "SET_ACK"
    BY <1>1, <1>5, <2>1 DEF Reply
  <2>2. CASE m.type = "PING"
    BY <1>1, <1>5, <2>2 DEF Reply
  <2>3. CASE m.type = "MIGRATE"
    BY <1>1, <1>5, <2>3 DEF Reply
  <2>4. CASE m.type \notin {"SET_ACK", "PING", "MIGRATE"}
    BY <1>1, <1>5, <2>4 DEF Reply
  <2> QED
    BY <2>1, <2>2, <2>3, <2>4
<1> QED
  BY <1>3, <1>4, <1>6

\* The peer receives a message.
LEMMA FlowPeerReceive ==
  ASSUME FlowIInv, TypeOK', PeerReceive
  PROVE  FlowInv' /\ [Flow!Next]_(Flow!vars)
<1> DEFINE m == Head(down)
           w == OnTheWire
<1>0. /\ w \in Seq(Messages) /\ down \in Seq(Messages) /\ up \in Seq(UpMessages)
      /\ gen \in Nat /\ Window \in Nat \ {0} /\ ackCount \in 0 .. Window
      /\ Len(w) \in Nat /\ Len(up) \in Nat /\ up' \in Seq(UpMessages)
  <2>1. up' \in Seq(UpMessages)
    BY DEF TypeOK, PeerTypeOK
  <2> QED
    BY <2>1, FlowTypes DEF FlowIInv
<1>1. /\ connected /\ down # <<>> /\ down' = Tail(down) /\ m \in Messages
      /\ UNCHANGED <<connected, phase, out, active, window, gen, clientGen>>
  BY <1>0 DEF PeerReceive, sendVars, ackVars
<1>2. Opened /\ InOrder /\ Answered /\ Opened'
  BY <1>1 DEF FlowIInv, FlowInv, Opened
<1>3. w # <<>> /\ m = Head(w) /\ OnTheWire' = Tail(w)
  <2>1. CASE out = NoMsg
    BY <1>1, <2>1 DEF OnTheWire
  <2>2. CASE out # NoMsg
    <3>1. w = Append(down, out) /\ OnTheWire' = Append(Tail(down), out) /\ out \in Messages
      BY <1>1, <2>2 DEF OnTheWire, FlowIInv, TypeOK, SendTypeOK
    <3>2. Append(down, out) # <<>> /\ Head(Append(down, out)) = Head(down)
          /\ Tail(Append(down, out)) = Append(Tail(down), out)
      BY <1>0, <1>1, <3>1, SMTT(30)
    <3> QED
      BY <3>1, <3>2
  <2> QED
    BY <2>1, <2>2
<1> HIDE DEF w
<1>w. w = OnTheWire
  BY DEF w
<1>4. /\ Marks(w, "SET_ACK", gen, SetAckAt) /\ SetAckAt \in 0 .. Len(w)
      /\ Ordered(w, "SET_ACK", gen, SetAckAt)
      /\ Marks(up, "ACK_SYNC", gen, SyncAt) /\ SyncAt \in 0 .. Len(up)
      /\ Ordered(up, "ACK_SYNC", gen, Len(up))
      /\ SetAckAt = 0 => Ordered(up, "ACK_SYNC", gen, SyncAt)
  BY <1>2 DEF InOrder, Marks, w
<1>5. PICK u \in Seq(UpMessages) :
           /\ \/ ackCount = 1 /\ u = Append(up, Msg("ACK"))
              \/ ackCount # 1 /\ u = up
           /\ \/ /\ m.type = "SET_ACK"
                 /\ up' = Append(u, [type |-> "ACK_SYNC", gen |-> m.gen])
              \/ /\ m.type # "SET_ACK"
                 /\ \/ up' = u
                    \/ \E t \in {"PONG", "FLUSH_MARK"} : up' = Append(u, Msg(t))
  BY PeerAnswers DEF FlowIInv
<1>a. /\ Msg("ACK") \in UpMessages /\ Msg("ACK").type = "ACK" /\ Msg("ACK") \in OfType("ACK")
      /\ \A t \in {"PONG", "FLUSH_MARK"} :
            Msg(t) \in UpMessages /\ Msg(t).type = t /\ Msg(t) \notin OfType("ACK")
  BY DEF Msg, UpMessages, OfType
<1> HIDE DEF m
<1>6. /\ Marks(u, "ACK_SYNC", gen, SyncAt) /\ SyncAt \in 0 .. Len(u) /\ Len(u) \in Nat
      /\ Ordered(u, "ACK_SYNC", gen, Len(u))
      /\ SetAckAt = 0 => Ordered(u, "ACK_SYNC", gen, SyncAt)
      /\ AcksBehind(u, SyncAt) = AcksBehind(up, SyncAt) + One(ackCount = 1)
  <2>1. CASE ackCount = 1
    <3>1. u = Append(up, Msg("ACK")) /\ One(ackCount = 1) = 1 /\ One(Msg("ACK") \in OfType("ACK")) = 1
      BY <1>5, <1>a, <2>1 DEF One
    <3>2. AcksBehind(u, SyncAt) = AcksBehind(up, SyncAt) + One(Msg("ACK") \in OfType("ACK"))
      BY <1>0, <1>4, <1>a, <3>1, AcksAppend
    <3>3. Len(u) = Len(up) + 1
      BY <1>0, <1>a, <3>1
    <3>4. Len(up) \in 0 .. Len(up) /\ SyncAt \in 0 .. Len(u)
      BY <1>0, <1>4, <3>3
    <3>5. Msg("ACK") \in UpMessages /\ Msg("ACK").type # "ACK_SYNC"
      BY <1>a
    <3>6. Marks(u, "ACK_SYNC", gen, SyncAt)
      BY <1>0, <1>4, <3>1, <3>5, MarksAppend
    <3>7. Ordered(u, "ACK_SYNC", gen, Len(u))
      BY <1>0, <1>4, <3>1, <3>4, <3>5, OrderedAppend
    <3>8. SetAckAt = 0 => Ordered(u, "ACK_SYNC", gen, SyncAt)
      BY <1>0, <1>4, <3>1, <3>5, OrderedAppend
    <3> QED
      BY <1>0, <3>1, <3>2, <3>3, <3>4, <3>6, <3>7, <3>8
  <2>2. CASE ackCount # 1
    <3>1. u = up /\ One(ackCount = 1) = 0 /\ AcksBehind(up, SyncAt) \in Nat
      BY <1>0, <1>4, <1>5, <2>2, AcksType DEF One
    <3> QED
      BY <1>0, <1>4, <3>1
  <2> QED
    BY <2>1, <2>2
<1>7. CASE SetAckAt # 0
  <2>0. SyncAt = 0 /\ clientGen # gen /\ gen > 0
    <3>1. w[SetAckAt].type = "SET_ACK" /\ SetAckAt \in 1 .. Len(w)
      BY <1>0, <1>4, <1>7 DEF Marks
    <3> QED
      BY <1>0, <1>2, <1>4, <1>7, <3>1, SMTT(30) DEF Answered, Ordered
  <2>1. /\ Marks(OnTheWire', "SET_ACK", gen', SetAckAt - 1)
        /\ Ordered(OnTheWire', "SET_ACK", gen', SetAckAt - 1)
        /\ m.type = "SET_ACK" => m.gen \in 1 .. gen
        /\ m.type = "SET_ACK" /\ m.gen = gen <=> SetAckAt = 1
    <3>1. Marks(Tail(w), "SET_ACK", gen, SetAckAt - 1)
          /\ (SetAckAt = 1 <=> m.type = "SET_ACK" /\ m.gen = gen)
      <4>1. /\ SetAckAt # 0 => Marks(Tail(w), "SET_ACK", gen, SetAckAt - 1)
            /\ SetAckAt = 1 <=> Head(w).type = "SET_ACK" /\ Head(w).gen = gen
        BY <1>0, <1>3, <1>4, MarksTail
      <4> QED
        BY <1>3, <1>7, <4>1
    <3>2. Ordered(Tail(w), "SET_ACK", gen, SetAckAt - 1)
          /\ (m.type = "SET_ACK" => m.gen \in 1 .. gen)
      BY <1>0, <1>3, <1>4, <1>7, OrderedTail
    <3> QED
      BY <1>1, <1>3, <3>1, <3>2
  <2>2. Len(OnTheWire') = Len(w) - 1
    BY <1>0, <1>3
  <2>3. CASE SetAckAt = 1
    <3> DEFINE s == [type |-> "ACK_SYNC", gen |-> gen]
    <3>1. up' = Append(u, s) /\ s \in UpMessages /\ s.type = "ACK_SYNC" /\ s.gen = gen
      BY <1>0, <1>5, <2>1, <2>3 DEF UpMessages
    <3>2. gen \in 1 .. gen
      BY <1>0, <2>0
    <3> HIDE DEF s
    <3>3. /\ Marks(up', "ACK_SYNC", gen', Len(u) + 1)
          /\ Ordered(up', "ACK_SYNC", gen', Len(u) + 1)
      <4>1. Marks(u, "ACK_SYNC", gen, 0) /\ Len(u) \in 0 .. Len(u) /\ gen' = gen
        BY <1>1, <1>6, <2>0
      <4>2. Marks(Append(u, s), "ACK_SYNC", gen, Len(u) + 1)
        BY <3>1, <4>1, MarksAppend
      <4>3. Ordered(Append(u, s), "ACK_SYNC", gen, Len(u) + 1)
        BY <1>0, <1>6, <3>1, <3>2, <4>1, OrderedAppend
      <4> QED
        BY <3>1, <4>1, <4>2, <4>3
    <3>4. SetAckAt' = 0 /\ SyncAt' = Len(u) + 1 /\ Len(up') = Len(u) + 1
      <4>1. SetAckAt - 1 = 0
        BY <2>3
      <4>2. Marks(OnTheWire', "SET_ACK", gen', 0)
        BY <2>1, <4>1
      <4>3. Len(up') = Len(u) + 1
        BY <1>5, <3>1
      <4> QED
        BY <3>3, <4>2, <4>3, PositionsNext
    <3>5. InOrder'
      BY <2>1, <2>3, <3>3, <3>4 DEF InOrder
    <3>6. ackCount' = Window /\ ackWindow' = Window
      BY <2>1, <2>3 DEF PeerReceive, m
    <3>7. Answered'
      BY <1>0, <1>1, <1>2, <1>6, <2>0, <3>4, <3>6 DEF Answered
    <3>8. AcksBehind(up', SyncAt') = 0
      BY <1>0, <3>4, AcksType, Len(up') \in 0 .. Len(up')
    <3>9. /\ flowMode' = flowMode /\ flowWindow' = flowWindow
          /\ flowSetAck = 1 /\ flowSetAck' = 0
          /\ flowCount' = flowCount /\ flowAcks' = flowAcks
      BY <1>0, <1>1, <1>7, <2>0, <3>4, <3>6, <3>8
      DEF flowMode, flowWindow, flowSetAck, flowCount, flowAcks, Counting
    <3>10. flowFlying' = flowFlying - 1
      BY <1>0, <1>1, <1>w, <2>0, <2>2, <2>3, <3>4 DEF flowFlying, Counting
    <3>11. Flow!DeliverSetAck
      BY <3>9, <3>10 DEF Flow!DeliverSetAck
    <3> QED
      BY <1>2, <3>5, <3>7, <3>11 DEF FlowInv, Flow!Next
  <2>4. CASE SetAckAt # 1
    <3>1. /\ Marks(up', "ACK_SYNC", gen', 0)
          /\ Ordered(up', "ACK_SYNC", gen', Len(up'))
      <4>1. CASE m.type = "SET_ACK"
        <5> DEFINE s == [type |-> "ACK_SYNC", gen |-> m.gen]
        <5>1. up' = Append(u, s) /\ s \in UpMessages /\ s.gen \in 1 .. gen /\ s.gen # gen
          BY <1>0, <1>5, <2>1, <2>4, <4>1 DEF UpMessages
        <5> HIDE DEF s
        <5>2. Len(u) \in 0 .. Len(u)
          BY <1>6
        <5> QED
          BY <1>0, <1>1, <1>6, <2>0, <5>1, <5>2, MarksAppend, OrderedAppend
      <4>2. CASE m.type # "SET_ACK" /\ up' = u
        BY <1>1, <1>6, <2>0, <4>2
      <4>3. CASE m.type # "SET_ACK" /\ up' # u
        <5>1. PICK t \in {"PONG", "FLUSH_MARK"} : up' = Append(u, Msg(t))
          BY <1>5, <4>3
        <5>2. Len(u) \in 0 .. Len(u)
          BY <1>6
        <5> QED
          BY <1>0, <1>1, <1>6, <1>a, <2>0, <5>1, <5>2, MarksAppend, OrderedAppend
      <4> QED
        BY <4>1, <4>2, <4>3
    <3>2. SetAckAt' = SetAckAt - 1 /\ SyncAt' = 0 /\ SetAckAt' # 0
      BY <1>4, <2>1, <2>4, <3>1, PositionsNext
    <3>3. InOrder'
      BY <2>1, <3>1, <3>2 DEF InOrder
    <3>4. Answered'
      BY <1>1, <1>2, <2>0, <3>2 DEF Answered
    <3>5. UNCHANGED <<flowMode, flowWindow, flowSetAck, flowCount, flowAcks>>
      BY <1>1, <1>7, <3>2 DEF flowMode, flowWindow, flowSetAck, flowCount, flowAcks, Counting
    <3>6. flowFlying' = flowFlying
      BY <1>0, <1>1, <1>4, <1>7, <1>w, <2>2, <3>2 DEF flowFlying, Counting
    <3> QED
      BY <1>2, <3>3, <3>4, <3>5, <3>6 DEF FlowInv, Flow!vars
  <2> QED
    BY <2>3, <2>4
<1>8. CASE SetAckAt = 0
  <2>1. m.type # "SET_ACK"
    BY <1>0, <1>3, <1>4, <1>8, OrderedTail
  <2>2. Marks(OnTheWire', "SET_ACK", gen', 0) /\ Ordered(OnTheWire', "SET_ACK", gen', 0)
    BY <1>0, <1>1, <1>3, <1>4, <1>8, MarksTail, OrderedTail
  <2>3. /\ Marks(up', "ACK_SYNC", gen', SyncAt)
        /\ Ordered(up', "ACK_SYNC", gen', SyncAt)
        /\ Ordered(up', "ACK_SYNC", gen', Len(up'))
        /\ AcksBehind(up', SyncAt) = AcksBehind(up, SyncAt) + One(ackCount = 1)
    <3>1. CASE up' = u
      BY <1>1, <1>6, <1>8, <3>1
    <3>2. CASE up' # u
      <4>1. PICK t \in {"PONG", "FLUSH_MARK"} : up' = Append(u, Msg(t))
        BY <1>5, <2>1, <3>2
      <4>2. Len(u) \in 0 .. Len(u) /\ One(Msg(t) \in OfType("ACK")) = 0
        BY <1>6, <1>a DEF One
      <4>3. AcksBehind(up', SyncAt) = AcksBehind(u, SyncAt) + One(Msg(t) \in OfType("ACK"))
        BY <1>6, <1>a, <4>1, AcksAppend
      <4>4. AcksBehind(u, SyncAt) \in Nat
        BY <1>6, AcksType
      <4>5. AcksBehind(up', SyncAt) = AcksBehind(up, SyncAt) + One(ackCount = 1)
        BY <1>6, <4>2, <4>3, <4>4
      <4>6. Msg(t) \in UpMessages /\ Msg(t).type # "ACK_SYNC"
        BY <1>a
      <4> QED
        BY <1>0, <1>1, <1>6, <1>8, <4>1, <4>2, <4>5, <4>6, MarksAppend, OrderedAppend
    <3> QED
      BY <3>1, <3>2
  <2>4. SetAckAt' = 0 /\ SyncAt' = SyncAt
    BY <2>2, <2>3, PositionsNext
  <2>5. InOrder'
    BY <2>2, <2>3, <2>4 DEF InOrder
  <2>6. /\ ackWindow' = ackWindow
        /\ ackCount' = IF ackCount = 1 THEN ackWindow
                       ELSE IF ackCount = 0 THEN 0 ELSE ackCount - 1
    BY <2>1 DEF PeerReceive, m
  <2>7. Answered'
    BY <1>0, <1>1, <1>2, <1>8, <2>4, <2>6 DEF Answered
  <2>8. Len(OnTheWire') = Len(w) - 1 /\ Len(w) > 0
    BY <1>0, <1>3
  <2>9. CASE gen > 0
    <3>1. ackCount \in 1 .. Window /\ ackWindow = Window
      BY <1>2, <1>8, <2>9 DEF Answered
    <3>2. /\ flowMode' = flowMode /\ flowWindow' = flowWindow
          /\ flowSetAck = 0 /\ flowSetAck' = 0 /\ flowFlying = Len(w)
          /\ flowFlying' = Len(w) - 1 /\ flowCount = ackCount /\ flowCount' = ackCount'
          /\ flowAcks = AcksBehind(up, SyncAt) /\ flowAcks' = AcksBehind(up', SyncAt)
      BY <1>1, <1>8, <1>w, <2>4, <2>8, <2>9
      DEF flowMode, flowWindow, flowSetAck, flowCount, flowAcks, flowFlying, Counting
    <3>3. AcksBehind(up, SyncAt) \in Nat
      BY <1>0, <1>4, AcksType
    <3>4. Flow!Deliver
      <4>1. CASE ackCount = 1
        BY <1>0, <2>3, <2>6, <2>8, <3>1, <3>2, <3>3, <4>1 DEF Flow!Deliver, One
      <4>2. CASE ackCount # 1
        BY <1>0, <2>3, <2>6, <2>8, <3>1, <3>2, <3>3, <4>2 DEF Flow!Deliver, One
      <4> QED
        BY <4>1, <4>2
    <3> QED
      BY <1>2, <2>5, <2>7, <3>4 DEF FlowInv, Flow!Next
  <2>10. CASE ~(gen > 0)
    <3>1. UNCHANGED Flow!vars
      BY <1>1, <2>10 DEF Flow!vars, flowMode, flowWindow, flowSetAck, flowCount, flowAcks,
         flowFlying, Counting
    <3> QED
      BY <1>2, <2>5, <2>7, <3>1 DEF FlowInv
  <2> QED
    BY <2>9, <2>10
<1> QED
  BY <1>7, <1>8

\* What a message the server receives leaves in the peer's direction; the rest of
\* the step is up to its handler.
LEMMA ReceivedAcks ==
  ASSUME TypeOK, FlowInv, NEW t, Receive(t)
  PROVE  /\ connected /\ UNCHANGED <<connected, phase, down, ackCount, ackWindow>>
         /\ up' = Tail(up) /\ up' \in Seq(UpMessages) /\ SyncAt \in 0 .. Len(up)
         /\ SyncAt = 0 => /\ Marks(up', "ACK_SYNC", gen, 0)
                          /\ AcksBehind(up', 0) = AcksBehind(up, 0) - One(t = "ACK")
         /\ SyncAt # 0 => /\ Marks(up', "ACK_SYNC", gen, SyncAt - 1)
                          /\ AcksBehind(up', SyncAt - 1) = AcksBehind(up, SyncAt)
         /\ SyncAt = 1 <=> t = "ACK_SYNC" /\ Head(up).gen = gen
         /\ t = "ACK_SYNC" => Head(up).gen \in 1 .. gen
         /\ t = "ACK_SYNC" /\ SetAckAt = 0 => SyncAt # 0
         /\ Ordered(up', "ACK_SYNC", gen, Len(up'))
         /\ SetAckAt = 0 => Ordered(up', "ACK_SYNC", gen, IF SyncAt = 0 THEN 0 ELSE SyncAt - 1)
<1>1. /\ connected /\ UNCHANGED <<connected, phase, down, ackCount, ackWindow>>
      /\ up # <<>> /\ Head(up).type = t /\ up' = Tail(up)
  BY DEF Receive, Handler, peerVars
<1>2. up \in Seq(UpMessages) /\ gen \in Nat /\ Tail(up) \in Seq(UpMessages)
      /\ Head(up) \in UpMessages /\ Len(up) \in Nat
  <2>1. up \in Seq(UpMessages) /\ gen \in Nat
    BY FlowTypes
  <2> QED
    BY <1>1, <2>1
<1>3. /\ Marks(up, "ACK_SYNC", gen, SyncAt) /\ SyncAt \in 0 .. Len(up)
      /\ Ordered(up, "ACK_SYNC", gen, Len(up)) /\ Len(up) \in 0 .. Len(up)
      /\ SetAckAt = 0 => Ordered(up, "ACK_SYNC", gen, SyncAt)
  BY <1>1, <1>2 DEF FlowInv, InOrder, Marks
<1>4. /\ SyncAt = 0 => Marks(up', "ACK_SYNC", gen, 0)
      /\ SyncAt # 0 => Marks(up', "ACK_SYNC", gen, SyncAt - 1)
      /\ SyncAt = 1 <=> t = "ACK_SYNC" /\ Head(up).gen = gen
  BY <1>1, <1>2, <1>3, MarksTail
<1>5. /\ Ordered(up', "ACK_SYNC", gen, Len(up'))
      /\ t = "ACK_SYNC" => Head(up).gen \in 1 .. gen
  BY <1>1, <1>2, <1>3, OrderedTail
<1>6. SetAckAt = 0 => /\ SyncAt # 0 => Ordered(up', "ACK_SYNC", gen, SyncAt - 1)
                      /\ SyncAt = 0 => Ordered(up', "ACK_SYNC", gen, 0)
                      /\ t = "ACK_SYNC" => SyncAt # 0
  BY <1>1, <1>2, <1>3, OrderedTail
<1>7. Head(up) \in OfType("ACK") <=> t = "ACK"
  BY <1>1, <1>2 DEF OfType, UpMessages
<1>8. /\ SyncAt # 0 => AcksBehind(up', SyncAt - 1) = AcksBehind(up, SyncAt)
      /\ SyncAt = 0 => AcksBehind(up', 0) = AcksBehind(up, 0) - One(Head(up) \in OfType("ACK"))
  BY <1>1, <1>2, <1>3, AcksTail
<1>9. One(Head(up) \in OfType("ACK")) = One(t = "ACK")
  BY <1>7 DEF One
<1> QED
  BY <1>1, <1>2, <1>3, <1>4, <1>5, <1>6, <1>8, <1>9

\* The server receives a message that is not a counted ACK: nothing changes in
\* AckWindow.  The answer to the last SET_ACK turns from a message on the stream
\* into client_generation.
LEMMA FlowReceive ==
  ASSUME FlowIInv, TypeOK',
         NEW t, Receive(t), t = "ACK" => clientGen # gen,
         clientGen' = IF t = "ACK_SYNC" THEN Head(up).gen ELSE clientGen,
         UNCHANGED <<out, active, window, gen>>
  PROVE  FlowInv' /\ UNCHANGED Flow!vars
<1>0. /\ gen \in Nat /\ Window \in Nat \ {0} /\ up \in Seq(UpMessages)
  BY FlowTypes DEF FlowIInv
<1> DEFINE n == IF SyncAt = 0 THEN 0 ELSE SyncAt - 1
<1>1. /\ connected /\ UNCHANGED <<connected, phase, down, ackCount, ackWindow>>
      /\ SyncAt \in Nat /\ Marks(up', "ACK_SYNC", gen, n)
      /\ Ordered(up', "ACK_SYNC", gen, Len(up'))
      /\ SetAckAt = 0 => Ordered(up', "ACK_SYNC", gen, n)
  BY ReceivedAcks DEF FlowIInv
<1>2. /\ SyncAt = 1 <=> t = "ACK_SYNC" /\ Head(up).gen = gen
      /\ t = "ACK_SYNC" => Head(up).gen \in 1 .. gen
      /\ t = "ACK_SYNC" /\ SetAckAt = 0 => SyncAt # 0
  BY ReceivedAcks DEF FlowIInv
<1>3. Opened /\ InOrder /\ Answered /\ Opened'
  BY <1>1 DEF FlowIInv, FlowInv, Opened
<1>4. OnTheWire' = OnTheWire
  BY <1>1 DEF OnTheWire
<1>5. SetAckAt' = SetAckAt /\ SyncAt' = n
  <2>1. Marks(OnTheWire', "SET_ACK", gen', SetAckAt)
    BY <1>3, <1>4 DEF InOrder
  <2> QED
    BY <1>1, <2>1, PositionsNext
<1>6. InOrder'
  BY <1>1, <1>3, <1>4, <1>5 DEF InOrder
<1>7. Answered'
  BY <1>0, <1>1, <1>2, <1>3, <1>5 DEF Answered
<1>8. SetAckAt = 0 /\ gen > 0 => AcksBehind(up', SyncAt') = AcksBehind(up, SyncAt)
  <2> SUFFICES ASSUME SetAckAt = 0, gen > 0
               PROVE  AcksBehind(up', SyncAt') = AcksBehind(up, SyncAt)
    OBVIOUS
  <2>1. CASE SyncAt # 0
    BY <1>5, <2>1, ReceivedAcks DEF FlowIInv
  <2>2. CASE SyncAt = 0
    <3>1. t # "ACK"
      BY <1>3, <2>2 DEF Answered
    <3>2. AcksBehind(up', 0) = AcksBehind(up, 0) - One(t = "ACK")
      BY <2>2, ReceivedAcks DEF FlowIInv
    <3>3. AcksBehind(up, 0) \in Nat
      BY <1>0, AcksType, 0 \in 0 .. Len(up)
    <3> QED
      BY <1>5, <2>2, <3>1, <3>2, <3>3 DEF One
  <2> QED
    BY <2>1, <2>2
<1>9. UNCHANGED Flow!vars
  BY <1>1, <1>4, <1>5, <1>8 DEF Flow!vars, flowMode, flowWindow, flowSetAck, flowCount,
     flowAcks, flowFlying, Counting
<1> QED
  BY <1>3, <1>6, <1>7, <1>9 DEF FlowInv

\* The server receives an ACK that belongs to its count.
LEMMA FlowAck ==
  ASSUME FlowIInv, TypeOK', Receive("ACK"), clientGen = gen, window' = AckedWindow,
         UNCHANGED <<out, active, gen, clientGen>>
  PROVE  FlowInv' /\ Flow!Ack
<1>0. /\ gen \in Nat /\ Window \in Nat \ {0} /\ up \in Seq(UpMessages) /\ Modulus \in Nat
      /\ window \in 0 .. Modulus - 1
  BY FlowTypes DEF FlowIInv
<1>1. connected /\ UNCHANGED <<connected, phase, down, ackCount, ackWindow>>
  BY ReceivedAcks DEF FlowIInv
<1>2. Opened /\ InOrder /\ Answered
  BY <1>1 DEF FlowIInv, FlowInv
<1>3. SetAckAt = 0 /\ SyncAt = 0 /\ gen > 0 /\ phase = "open"
  BY <1>0, <1>2 DEF Answered, Opened
<1>4. /\ Marks(up', "ACK_SYNC", gen, 0) /\ up' \in Seq(UpMessages)
      /\ AcksBehind(up', 0) = AcksBehind(up, 0) - 1
      /\ Ordered(up', "ACK_SYNC", gen, Len(up'))
      /\ Ordered(up', "ACK_SYNC", gen, 0)
  BY <1>3, ReceivedAcks DEF FlowIInv, One
<1>5. OnTheWire' = OnTheWire
  BY <1>1 DEF OnTheWire
<1>6. SetAckAt' = 0 /\ SyncAt' = 0
  <2>1. Marks(OnTheWire', "SET_ACK", gen', 0)
    BY <1>2, <1>3, <1>5 DEF InOrder
  <2> QED
    BY <1>4, <2>1, PositionsNext
<1>7. AcksBehind(up, 0) \in Nat /\ AcksBehind(up', 0) \in Nat
  BY <1>0, <1>4, AcksType, 0 \in 0 .. Len(up), 0 \in 0 .. Len(up')
<1>8. /\ flowMode = "counting" /\ flowMode' = "counting"
      /\ flowWindow = window /\ flowWindow' = window'
      /\ flowSetAck = 0 /\ flowSetAck' = 0
      /\ flowCount' = flowCount /\ flowFlying' = flowFlying
      /\ flowAcks = AcksBehind(up, 0) /\ flowAcks' = AcksBehind(up, 0) - 1
  BY <1>1, <1>3, <1>4, <1>5, <1>6
  DEF flowMode, flowWindow, flowSetAck, flowCount, flowAcks, flowFlying, Counting
<1>9. window >= Window
  <2>1. /\ flowWindow = flowFlying + (Window - flowCount) + Window * flowAcks + (1 - flowSetAck)
        /\ flowFlying \in Nat /\ flowCount \in 1 .. Window /\ flowAcks \in Nat
    BY <1>8 DEF FlowIInv, Flow!WindowAccounted, Flow!TypeOK, Flow!Accounting
  <2>2. flowAcks >= 1
    BY <1>4, <1>7, <1>8
  <2>3. Window * flowAcks >= Window
    <3>1. PICK k \in Nat : flowAcks = k + 1
      BY <2>1, <2>2, flowAcks - 1 \in Nat
    <3>2. Window * (k + 1) = Window * k + Window /\ Window * k \in Nat
      BY <1>0
    <3> QED
      BY <1>0, <3>1, <3>2
  <2>4. PICK z \in Int : z = Window * flowAcks
    BY <1>0, <2>1
  <2>5. window = flowFlying + (Window - flowCount) + z + (1 - 0) /\ z >= Window
    BY <1>8, <2>1, <2>3, <2>4
  <2> QED
    BY <1>0, <2>1, <2>5
<1>10. window' = window - Window
  BY <1>0, <1>9, NoWrap, window - Window \in 0 .. Modulus - 1 DEF AckedWindow
<1>11. Flow!Ack
  BY <1>4, <1>7, <1>8, <1>10 DEF Flow!Ack
<1>12. InOrder'
  BY <1>2, <1>3, <1>4, <1>5, <1>6 DEF InOrder
<1>13. Opened' /\ Answered'
  BY <1>0, <1>1, <1>2, <1>3, <1>6, <1>10 DEF Opened, Answered
<1> QED
  BY <1>11, <1>12, <1>13 DEF FlowInv

-----------------------------------------------------------------------------
(* The refinement. *)

\* The theorems of AckWindow_proofs, under the refinement mapping
Abstract == INSTANCE AckWindow_proofs WITH
    W <- Window, mode <- flowMode, window <- flowWindow, flying <- flowFlying,
    setAck <- flowSetAck, count <- flowCount, acks <- flowAcks

\* A step of AckWindow preserves the accounting of its window.
LEMMA AccountingStep ==
  Flow!WindowAccounted /\ [Flow!Next]_(Flow!vars) => Flow!WindowAccounted'
<1>1. Window \in Nat \ {0}
  BY ConstantsAssumption
<1>2. Abstract!WindowAccounted /\ [Abstract!Next]_(Abstract!vars) => Abstract!WindowAccounted'
  BY <1>1, Abstract!InvInductive
<1>3. Flow!WindowAccounted = Abstract!WindowAccounted
      /\ Flow!WindowAccounted' = Abstract!WindowAccounted'
  BY Zenon DEF Flow!WindowAccounted, Flow!TypeOK, Flow!Accounting, Flow!Bounded,
     Abstract!WindowAccounted, Abstract!TypeOK, Abstract!Accounting, Abstract!Bounded
<1>4. [Flow!Next]_(Flow!vars) = [Abstract!Next]_(Abstract!vars)
  BY Zenon DEF Flow!Next, Flow!vars, Flow!Open, Flow!SetAck, Flow!Send,
     Flow!DeliverSetAck, Flow!Deliver, Flow!Ack, Flow!Close, Abstract!Next, Abstract!vars,
     Abstract!Open, Abstract!SetAck, Abstract!Send, Abstract!DeliverSetAck,
     Abstract!Deliver, Abstract!Ack, Abstract!Close
<1> QED
  BY <1>2, <1>3, <1>4

\* Every step of the channel client and its peer is a step of AckWindow or is not
\* visible in it, and preserves the invariant that this rests on.
LEMMA FlowStep ==
  ASSUME HandleAcks, FlowIInv, [Next]_vars
  PROVE  FlowIInv' /\ [Flow!Next]_(Flow!vars)
<1>0. /\ gen \in Nat /\ Window \in Nat \ {0} /\ Modulus \in Nat /\ Modulus > 2 * Window + 3
      /\ connected \in BOOLEAN
  BY FlowTypes DEF FlowIInv
<1>1. TypeOK' /\ SendInv' /\ PingInv'
  BY TypeInductive, SendInvInductive, PingInductive DEF FlowIInv
<1>2. CASE FlowInv' /\ [Flow!Next]_(Flow!vars)
  BY <1>1, <1>2, AccountingStep DEF FlowIInv
<1>3. CASE SendItem
  BY <1>1, <1>2, <1>3, FlowSendItem
<1>4. CASE WriteDone
  BY <1>1, <1>2, <1>4, FlowWriteDone
<1>5. CASE PeerReceive
  BY <1>1, <1>2, <1>5, FlowPeerReceive
<1>6. CASE WriteError \/ ConnectivityDead \/ PeerError
  <2>1. connected /\ ~connected'
    BY <1>6 DEF WriteError, ConnectivityDead, PeerError, Disconnect, Handler, FlowIInv,
       SendInv, SendState
  <2>2. FlowInv'
    BY <2>1 DEF FlowInv
  <2>3. Flow!Close
    BY <2>1 DEF Flow!Close, flowMode, flowWindow, flowSetAck, flowCount, flowAcks,
       flowFlying, Counting
  <2> QED
    BY <1>2, <2>2, <2>3 DEF Flow!Next
<1>7. CASE OnNewDisplayClient \/ OnNewCursorClient \/ DisplayInitDone
  <2>1. /\ connected /\ phase # "open"
        /\ UNCHANGED <<connected, out, active, down, up, gen, clientGen, ackCount, ackWindow>>
        /\ \/ phase' = "wait_init" /\ window' = window
           \/ phase' = "open" /\ window' = 0
    BY <1>7 DEF OnNewDisplayClient, OnNewCursorClient, DisplayInitDone, Created, Handler,
       StartPush, sendVars, ackVars, peerVars
  <2>2. Opened /\ InOrder /\ Answered
    BY <2>1 DEF FlowIInv, FlowInv
  <2>3. OnTheWire' = OnTheWire
    BY <2>1 DEF OnTheWire
  <2>4. SetAckAt' = SetAckAt /\ SyncAt' = SyncAt
    BY <2>1, <2>3 DEF SetAckAt, SyncAt
  <2>5. FlowInv'
    BY <1>0, <2>1, <2>2, <2>3, <2>4 DEF FlowInv, Opened, InOrder, Answered
  <2>6. gen = 0
    BY <2>1, <2>2 DEF Opened
  <2>7. UNCHANGED Flow!vars \/ Flow!Open
    BY <2>1, <2>6 DEF Flow!Open, Flow!vars, flowMode, flowWindow, flowSetAck, flowCount,
       flowAcks, flowFlying, Counting
  <2> QED
    BY <1>2, <2>5, <2>7 DEF Flow!Next
<1>8. CASE HandleAckSync \/ HandleFlushMark \/ HandlePong
  <2>1. PICK t \in {"ACK_SYNC", "FLUSH_MARK", "PONG"} :
           /\ Receive(t)
           /\ clientGen' = IF t = "ACK_SYNC" THEN Head(up).gen ELSE clientGen
           /\ UNCHANGED <<out, active, window, gen>>
    BY <1>8 DEF HandleAckSync, HandleFlushMark, HandlePong, sendVars, ackVars
  <2>2. FlowInv' /\ UNCHANGED Flow!vars
    BY <1>1, <2>1, FlowReceive
  <2> QED
    BY <1>2, <2>2
<1>9. CASE HandleAck
  <2>1. Receive("ACK") /\ UNCHANGED <<out, active, gen, clientGen>>
    BY <1>9 DEF HandleAck, StartPush, sendVars
  <2>2. CASE clientGen = gen
    <3>1. window' = AckedWindow
      BY <1>9, <2>2 DEF HandleAck, AckCounts
    <3>2. FlowInv' /\ Flow!Ack
      BY <1>1, <2>1, <2>2, <3>1, FlowAck
    <3> QED
      BY <1>2, <3>2 DEF Flow!Next
  <2>3. CASE clientGen # gen
    <3>1. window' = window
      BY <1>9, <2>3 DEF HandleAck, AckCounts
    <3>2. FlowInv' /\ UNCHANGED Flow!vars
      BY <1>1, <2>1, <2>3, <3>1, FlowReceive
    <3> QED
      BY <1>2, <3>2
  <2> QED
    BY <2>2, <2>3
<1>10. CASE /\ UNCHANGED <<connected, phase, out, down, up, gen, clientGen, window,
                          ackCount, ackWindow>>
            /\ active' = active
  BY <1>2, <1>10, FlowFrame DEF FlowIInv
<1>11. CASE UNCHANGED vars \/ WriteBlocks \/ PushEnds \/ ConnectivityAlive
            \/ StartConnectivityMonitoring
  BY <1>10, <1>11 DEF vars, WriteBlocks, PushEnds, ConnectivityAlive,
     StartConnectivityMonitoring, sendVars, ackVars, peerVars
<1>12. CASE PushSetAck \/ RedPush \/ WriteEvent \/ DefaultMigrate
  BY <1>10, <1>12 DEF PushSetAck, RedPush, WriteEvent, DefaultMigrate, StartPush,
     sendVars, ackVars, peerVars
<1>13. CASE PingTimer
  BY <1>10, <1>13 DEF PingTimer, StartPush, sendVars, ackVars, peerVars
<1>14. CASE \E k \in ItemKinds : PipeAddPush(k)
  BY <1>10, <1>14 DEF PipeAddPush, StartPush, ackVars, peerVars
<1>15. CASE \E k \in ItemKinds : \E n \in 0 .. Len(pipe) : PipeAdd(k, n)
  BY <1>10, <1>15 DEF PipeAdd, sendVars, ackVars, peerVars
<1>16. CASE \E i \in 1 .. Len(pipe) : PipeRemove(i)
  BY <1>10, <1>16 DEF PipeRemove, sendVars, ackVars, peerVars
<1>17. ~OnNewOtherClient
  BY DEF OnNewOtherClient
<1> QED
  <2>1. CASE Next
    BY <2>1, NextCases, <1>3, <1>4, <1>5, <1>6, <1>7, <1>8, <1>9, <1>11, <1>12, <1>13,
       <1>14, <1>15, <1>16, <1>17
  <2> QED
    BY <1>11, <2>1

\* A new channel client is a shut AckWindow.
LEMMA FlowInit ==
  ASSUME Init
  PROVE  FlowInv /\ Flow!Init
<1>1. /\ connected /\ phase = "new" /\ window = Modulus - 1 /\ gen = 0 /\ clientGen = -1
      /\ out = NoMsg /\ active = "main" /\ OnTheWire = <<>> /\ up = <<>>
  BY DEF Init, OnTheWire
<1>2. /\ <<>> \in Seq(Messages) /\ Marks(<<>>, "SET_ACK", gen, 0)
      /\ Marks(<<>>, "ACK_SYNC", gen, 0) /\ \A t, n : Ordered(<<>>, t, gen, n)
  BY DEF Marks, Ordered
<1>3. SetAckAt = 0 /\ SyncAt = 0
  BY <1>1, <1>2, PositionMarks DEF SetAckAt, SyncAt
<1>4. InOrder
  BY <1>1, <1>2, <1>3 DEF InOrder
<1>5. Opened /\ Answered
  BY <1>1, <1>3 DEF Opened, Answered
<1>6. Flow!Init
  BY <1>1 DEF Flow!Init, flowMode, flowWindow, flowSetAck, flowCount, flowAcks, flowFlying,
     Counting
<1> QED
  BY <1>4, <1>5, <1>6 DEF FlowInv

\* The invariant the refinement rests on holds in every state.
LEMMA FlowIInvHolds ==
  ASSUME HandleAcks
  PROVE  Spec => []FlowIInv
<1>1. ASSUME Init, TypeOK, SendInv, PingInv PROVE FlowIInv
  <2>1. Flow!WindowAccounted
    <3>1. Flow!Init /\ Window \in Nat \ {0}
      BY <1>1, FlowInit, ConstantsAssumption
    <3> QED
      BY <3>1 DEF Flow!Init, Flow!WindowAccounted, Flow!TypeOK, Flow!Accounting, Flow!Bounded
  <2> QED
    BY <1>1, <2>1, FlowInit DEF FlowIInv
<1>2. FlowIInv /\ [Next]_vars => FlowIInv'
  BY FlowStep
<1> QED
  BY <1>1, <1>2, TypeOKHolds, SendInvHolds, PingInvHolds, PTL DEF Spec

\* A channel that handles acks implements the flow-control contract AckWindow, for
\* every window size, every capacity of the transport and every order in which
\* SET_ACK, ACK_SYNC, ACK and the messages they count cross on the stream.
THEOREM FlowControlledHolds ==
  ASSUME HandleAcks
  PROVE  Spec => FlowControlled
<1>1. Init => Flow!Init
  BY FlowInit
<1>2. FlowIInv /\ [Next]_vars => [Flow!Next]_(Flow!vars)
  BY FlowStep
<1> QED
  BY <1>1, <1>2, FlowIInvHolds, PTL DEF Spec, FlowControlled, Flow!Spec

\* messages_window of a channel that handles acks is what is on the wire, counted
\* by the peer or acknowledged: it neither underflows nor passes two windows and
\* two messages, in every state.
THEOREM WindowAccountedHolds ==
  ASSUME HandleAcks
  PROVE  Spec => []WindowAccounted
<1>1. FlowIInv => WindowAccounted
  BY DEF FlowIInv, WindowAccounted
<1> QED
  BY <1>1, FlowIInvHolds, PTL
=============================================================================
