----------------------- MODULE RedChannelClient_proofs -----------------------
(***************************************************************************)
(* Proofs about RedChannelClient, for every instance of its constants.      *)
(***************************************************************************)
EXTENDS RedChannelClient, SequenceParts_proofs

\* The disjuncts of Next, one by one.
LEMMA NextCases ==
  ASSUME Next
  PROVE  \/ SendItem \/ WriteDone \/ WriteBlocks \/ WriteError \/ PushEnds
         \/ PeerReceive
         \/ OnNewDisplayClient \/ OnNewCursorClient \/ OnNewOtherClient
         \/ DisplayInitDone \/ PushSetAck
         \/ \E k \in ItemKinds : PipeAddPush(k)
         \/ \E k \in ItemKinds : \E n \in 0 .. Len(pipe) : PipeAdd(k, n)
         \/ \E i \in 1 .. Len(pipe) : PipeRemove(i)
         \/ RedPush \/ WriteEvent
         \/ HandleAckSync \/ HandleAck \/ HandleFlushMark \/ HandlePong
         \/ PingTimer \/ StartConnectivityMonitoring
         \/ ConnectivityAlive \/ ConnectivityDead \/ DefaultMigrate \/ PeerError
  BY DEF Next, Push, Handlers, OnNewClient

-----------------------------------------------------------------------------
(* The send state. *)

\* The types the proof of SendState needs, and SendState.
SendInv ==
    /\ connected \in BOOLEAN /\ blocked \in BOOLEAN
    /\ pc \in {"idle", "push", "write"} /\ active \in {"main", "urgent"}
    /\ SendState

\* Every step of the push loop, every handler and the peer preserve SendInv.
LEMMA SendInvInductive == SendInv /\ [Next]_vars => SendInv'
<1> SUFFICES ASSUME SendInv, [Next]_vars PROVE SendInv'
  OBVIOUS
<1> USE DEF SendInv, SendState, DisconnectedIsEmpty, NoMsg, NoItem
<1>1. CASE UNCHANGED vars
  BY <1>1 DEF vars, sendVars
<1>2. CASE SendItem
  BY <1>2 DEF SendItem, BeginSend, Msg, ItemToGet
<1>3. CASE WriteDone
  BY <1>3 DEF WriteDone, BeginSend
<1>4. CASE WriteBlocks
  BY <1>4 DEF WriteBlocks
<1>5. CASE WriteError
  BY <1>5 DEF WriteError, Disconnect, ClearSentItem
<1>6. CASE PushEnds
  BY <1>6 DEF PushEnds, sendVars
<1>7. CASE PeerReceive
  BY <1>7 DEF PeerReceive, sendVars
<1>8. CASE OnNewDisplayClient \/ OnNewCursorClient
  BY <1>8 DEF OnNewDisplayClient, OnNewCursorClient, Created, StartPush
<1>9. CASE OnNewOtherClient
  BY <1>9 DEF OnNewOtherClient, Created, sendVars
<1>10. CASE DisplayInitDone
  BY <1>10 DEF DisplayInitDone, Handler, sendVars, StartPush
<1>11. CASE PushSetAck
  BY <1>11 DEF PushSetAck, Handler, StartPush
<1>12. CASE \E k \in ItemKinds : PipeAddPush(k)
  BY <1>12 DEF PipeAddPush, Handler, StartPush
<1>13. CASE \E k \in ItemKinds : \E n \in 0 .. Len(pipe) : PipeAdd(k, n)
  BY <1>13 DEF PipeAdd, Handler, sendVars
<1>14. CASE \E i \in 1 .. Len(pipe) : PipeRemove(i)
  BY <1>14 DEF PipeRemove, Handler, sendVars
<1>15. CASE RedPush \/ WriteEvent
  BY <1>15 DEF RedPush, WriteEvent, Handler, StartPush
<1>16. CASE HandleAckSync \/ HandleFlushMark \/ HandlePong
  BY <1>16 DEF HandleAckSync, HandleFlushMark, HandlePong, Receive, Handler,
               sendVars
<1>17. CASE HandleAck
  BY <1>17 DEF HandleAck, AckCounts, AckedWindow, Receive, Handler, StartPush, sendVars
<1>18. CASE PingTimer
  BY <1>18 DEF PingTimer, PushPing, Handler, StartPush, sendVars
<1>19. CASE StartConnectivityMonitoring \/ ConnectivityAlive
  BY <1>19 DEF StartConnectivityMonitoring, ConnectivityAlive, Handler, sendVars
<1>20. CASE DefaultMigrate
  BY <1>20 DEF DefaultMigrate, Handler, StartPush
<1>21. CASE ConnectivityDead \/ PeerError
  BY <1>21 DEF ConnectivityDead, PeerError, Handler, Disconnect, ClearSentItem
<1> QED
  <2> HIDE DEF SendInv
  <2>1. CASE Next
    BY <2>1, NextCases, <1>2, <1>3, <1>4, <1>5, <1>6, <1>7, <1>8, <1>9, <1>10,
       <1>11, <1>12, <1>13, <1>14, <1>15, <1>16, <1>17, <1>18, <1>19, <1>20, <1>21
  <2> QED
    BY <1>1, <2>1

\* SendInv holds of every behaviour of the channel client.
LEMMA SendInvHolds == Spec => []SendInv
<1>1. Init => SendInv
  BY DEF Init, SendInv, SendState, DisconnectedIsEmpty
<1> QED
  BY <1>1, SendInvInductive, PTL DEF Spec

\* On the path of the pipe the asserts of send_item, init_send_data and
\* switch_to_urgent_sender hold whatever the handlers, the transport and the peer do.
THEOREM NoItemBeingSentHolds == Spec => []NoItemBeingSent
<1>1. SendInv => NoItemBeingSent
  BY DEF SendInv, SendState, NoItemBeingSent, ItemToGet, DisconnectedIsEmpty
<1> QED
  BY <1>1, SendInvHolds, PTL

\* A client disconnected anywhere, the middle of the push loop included, is
\* left with an empty pipe and nothing to write.
THEOREM DisconnectedIsEmptyHolds == Spec => []DisconnectedIsEmpty
<1>1. SendInv => DisconnectedIsEmpty
  BY DEF SendInv, SendState
<1> QED
  BY <1>1, SendInvHolds, PTL

-----------------------------------------------------------------------------
(* Types. *)

\* Sequence facts about the pipe that the type proof uses.
LEMMA PipeTypes ==
  ASSUME pipe \in Seq(PipeItems)
  PROVE  /\ \A k \in PipeItems : Append(pipe, k) \in Seq(PipeItems)
         /\ pipe \o <<"PING", "PING">> \in Seq(PipeItems)
         /\ pipe # <<>> => /\ Head(pipe) \in PipeItems
                          /\ \A k \in PipeItems :
                                Requeued(k) \o Tail(pipe) \in Seq(PipeItems)
         /\ \A k \in PipeItems, n \in 0 .. Len(pipe) :
                InsertAt(pipe, n + 1, k) \in Seq(PipeItems)
         /\ \A i \in 1 .. Len(pipe) : RemoveAt(pipe, i) \in Seq(PipeItems)
<1>1. <<"PING", "PING">> \in Seq(PipeItems) /\ <<"data", "data">> \in Seq(PipeItems)
      /\ <<>> \in Seq(PipeItems)
  BY DEF PipeItems, ChannelItems
<1>2. ASSUME NEW a \in Seq(PipeItems), NEW b \in Seq(PipeItems)
      PROVE  a \o b \in Seq(PipeItems)
  OBVIOUS
<1>3. \A k \in PipeItems : Append(pipe, k) \in Seq(PipeItems)
  OBVIOUS
<1>4. pipe \o <<"PING", "PING">> \in Seq(PipeItems)
  BY <1>1, <1>2
<1>5. ASSUME pipe # <<>>
      PROVE  /\ Head(pipe) \in PipeItems
             /\ \A k \in PipeItems : Requeued(k) \o Tail(pipe) \in Seq(PipeItems)
  <2>1. Head(pipe) \in PipeItems /\ Tail(pipe) \in Seq(PipeItems)
    BY <1>5
  <2>2. \A k \in PipeItems : Requeued(k) \in Seq(PipeItems)
    BY <1>1 DEF Requeued
  <2> QED
    BY <2>1, <2>2, <1>2
<1>6. ASSUME NEW m \in Nat, NEW n \in Nat
      PROVE  SubSeq(pipe, m, n) \in Seq(PipeItems) \/ m < 1 \/ n > Len(pipe)
  OBVIOUS
<1>7. ASSUME NEW k \in PipeItems, NEW n \in 0 .. Len(pipe)
      PROVE  InsertAt(pipe, n + 1, k) \in Seq(PipeItems)
  <2>1. SubSeq(pipe, 1, n) \in Seq(PipeItems)
    BY <1>6
  <2>2. SubSeq(pipe, n + 1, Len(pipe)) \in Seq(PipeItems)
    BY <1>6
  <2>3. <<k>> \in Seq(PipeItems)
    OBVIOUS
  <2>4. n + 1 - 1 = n
    OBVIOUS
  <2> QED
    BY <2>1, <2>2, <2>3, <2>4, <1>2 DEF InsertAt
<1>8. ASSUME NEW i \in 1 .. Len(pipe)
      PROVE  RemoveAt(pipe, i) \in Seq(PipeItems)
  <2>1. SubSeq(pipe, 1, i - 1) \in Seq(PipeItems)
    BY <1>6
  <2>2. SubSeq(pipe, i + 1, Len(pipe)) \in Seq(PipeItems)
    BY <1>6
  <2> QED
    BY <2>1, <2>2, <1>2 DEF RemoveAt
<1> QED
  BY <1>3, <1>4, <1>5, <1>7, <1>8

\* What the messages on the stream are, in both directions.
LEMMA WireTypes ==
  ASSUME down \in Seq(Messages), up \in Seq(UpMessages), gen \in Nat
  PROVE  /\ \A m \in Messages : Append(down, m) \in Seq(Messages)
         /\ down # <<>> => Head(down) \in Messages /\ Tail(down) \in Seq(Messages)
         /\ up # <<>> => /\ Head(up).gen \in Nat /\ Tail(up) \in Seq(UpMessages)
         /\ <<>> \in Seq(Messages) /\ <<>> \in Seq(UpMessages)
         /\ \A t \in MsgTypes : Msg(t) \in Messages
         /\ [type |-> "SET_ACK", gen |-> gen + 1] \in Messages
         /\ \A m \in Messages, b \in BOOLEAN :
              up \o (IF b THEN <<Msg("ACK")>> ELSE <<>>) \o Reply(m)
                \in Seq(UpMessages)
<1>1. down # <<>> => Head(down) \in Messages /\ Tail(down) \in Seq(Messages)
  OBVIOUS
<1>2. up # <<>> => Head(up) \in UpMessages /\ Tail(up) \in Seq(UpMessages)
  OBVIOUS
<1>3. \A m \in UpMessages : m.gen \in Nat
  BY DEF UpMessages
<1>4. /\ \A t \in MsgTypes : Msg(t) \in Messages
      /\ [type |-> "SET_ACK", gen |-> gen + 1] \in Messages
  BY DEF Msg, Messages, MsgTypes
<1>5. \A m \in Messages : Append(down, m) \in Seq(Messages)
  OBVIOUS
<1>6. ASSUME NEW m \in Messages, NEW b \in BOOLEAN
      PROVE  up \o (IF b THEN <<Msg("ACK")>> ELSE <<>>) \o Reply(m)
               \in Seq(UpMessages)
  <2>1. /\ Msg("ACK") \in UpMessages /\ Msg("PONG") \in UpMessages
        /\ Msg("FLUSH_MARK") \in UpMessages
        /\ [type |-> "ACK_SYNC", gen |-> m.gen] \in UpMessages
    BY DEF Msg, UpMessages, Messages
  <2>2. Reply(m) \in Seq(UpMessages)
    BY <2>1 DEF Reply
  <2>3. (IF b THEN <<Msg("ACK")>> ELSE <<>>) \in Seq(UpMessages)
    BY <2>1
  <2>4. ASSUME NEW x \in Seq(UpMessages), NEW y \in Seq(UpMessages)
        PROVE  x \o y \in Seq(UpMessages)
    OBVIOUS
  <2> QED
    BY <2>2, <2>3, <2>4
<1> QED
  BY <1>1, <1>2, <1>3, <1>4, <1>5, <1>6

\* messages_window stays a value of its unsigned type.
LEMMA WindowType == \A x \in Int : x % Modulus \in 0 .. Modulus - 1
  BY ConstantsAssumption

\* Every step preserves the types.
LEMMA TypeInductive == TypeOK /\ SendInv /\ [Next]_vars => TypeOK'
<1> SUFFICES ASSUME TypeOK, SendInv, [Next]_vars PROVE TypeOK'
  OBVIOUS
<1>1. /\ pipe \in Seq(PipeItems) /\ <<>> \in Seq(PipeItems)
      /\ ItemKinds \subseteq PipeItems /\ "SET_ACK" \in PipeItems
      /\ "MIGRATE" \in PipeItems
  BY ItemKindsAssumption DEF TypeOK, SendTypeOK, PipeItems
<1>2. down \in Seq(Messages) /\ up \in Seq(UpMessages) /\ gen \in Nat
  BY DEF TypeOK, PeerTypeOK, AckTypeOK
<1>3. 0 \in 0 .. Modulus - 1 /\ Modulus \in Nat /\ Window \in Nat \ {0}
      /\ HandleAcks \in BOOLEAN
  BY ConstantsAssumption
<1>w. /\ (window + 1) % Modulus \in 0 .. Modulus - 1
      /\ (0 + 1) % Modulus \in 0 .. Modulus - 1
      /\ (window - Window) % Modulus \in 0 .. Modulus - 1
  BY <1>3, WindowType DEF TypeOK, AckTypeOK
<1> USE DEF TypeOK, PingStates, ConnStates,
            vars, sendVars, ackVars, pingVars, connVars, peerVars, boundVars
<1>4. CASE UNCHANGED vars
  <2>1. SendTypeOK'
    BY <1>4, <1>1, <1>3, PipeTypes
    DEF SendTypeOK
  <2>2. AckTypeOK'
    BY <1>4, <1>2, <1>3, WireTypes, <1>w
    DEF AckTypeOK
  <2>3. MonitorTypeOK'
    BY <1>4
    DEF MonitorTypeOK
  <2>4. PeerTypeOK'
    BY <1>4, <1>2, <1>3, WireTypes
    DEF PeerTypeOK
  <2> QED
    BY <2>1, <2>2, <2>3, <2>4
<1>5. CASE SendItem
  <2> DEFINE s1 == ResetSerial(serial, active)
  <2>0. /\ Head(pipe) \in PipeItems
        /\ pipe' = Requeued(Head(pipe)) \o Tail(pipe)
        /\ pipe' \in Seq(PipeItems)
    BY <1>5, <1>1, PipeTypes DEF SendItem, ItemToGet
  <2>s. s1 \in Nat /\ ResetSerial(s1, "urgent") \in Nat
    BY DEF ResetSerial, SendTypeOK
  <2>m. /\ Msg("DATA") \in Messages /\ Msg("EMPTY") \in Messages
        /\ Msg("PING") \in Messages /\ Msg("MIGRATE") \in Messages
        /\ Msg("INVAL_LIST") \in Messages
        /\ [type |-> "SET_ACK", gen |-> gen + 1] \in Messages
    BY <1>2, WireTypes DEF MsgTypes
  <2>i. "data" \in ChannelItems /\ "data_inval" \in ChannelItems
    BY DEF ChannelItems
  <2> HIDE DEF s1
  <2>1. SendTypeOK'
    <3>1. CASE Head(pipe) \in {"nothing", "data_deps"}
      BY <1>5, <3>1, <2>0, <2>s DEF SendItem, SendTypeOK, s1
    <3>2. CASE Head(pipe) = "SET_ACK"
      BY <1>5, <3>2, <2>0, <2>s, <2>m DEF SendItem, BeginSend, SendTypeOK, s1
    <3>3. CASE Head(pipe) \in {"PING", "MIGRATE", "empty", "data"}
      <4>1. out' \in Messages
        BY <1>5, <3>3, <2>m DEF SendItem, BeginSend
      <4>2. item' \in ChannelItems \cup {NoItem}
        BY <1>5, <3>3, <2>i DEF SendItem, SendTypeOK
      <4> QED
        BY <1>5, <3>3, <2>0, <2>s, <4>1, <4>2
        DEF SendItem, BeginSend, SendTypeOK, s1
    <3>4. CASE Head(pipe) = "data_inval"
      BY <1>5, <3>4, <2>0, <2>s, <2>m, <2>i DEF SendItem, BeginSend, SendTypeOK, s1
    <3> QED
      BY <1>5, <3>1, <3>2, <3>3, <3>4 DEF SendItem
  <2>2. AckTypeOK'
    <3>1. waitFlush' \in BOOLEAN
      BY <1>5 DEF SendItem, ExpectFlushMark, AckTypeOK
    <3>2. window' \in 0 .. Modulus - 1
      BY <1>5, <1>w DEF SendItem, BeginSend, AckTypeOK
    <3>3. gen' \in Nat /\ clientGen' \in Nat \cup {-1}
      BY <1>5 DEF SendItem, ExpectFlushMark, AckTypeOK
    <3> QED
      BY <1>5, <3>1, <3>2, <3>3 DEF SendItem, ExpectFlushMark, AckTypeOK
  <2>3. MonitorTypeOK'
    BY <1>5
    DEF SendItem, CancelPingTimer, MonitorTypeOK
  <2>4. PeerTypeOK'
    BY <1>5
    DEF SendItem, PeerTypeOK
  <2> QED
    BY <2>1, <2>2, <2>3, <2>4
<1>6. CASE WriteDone
  <2>1. SendTypeOK'
    BY <1>6, <1>1, <1>3, PipeTypes
    DEF WriteDone, BeginSend, CancelPingTimer, StartPingTimer, SendTypeOK
  <2>2. AckTypeOK'
    BY <1>6, <1>2, <1>3, WireTypes, <1>w
    DEF WriteDone, BeginSend, CancelPingTimer, StartPingTimer, AckTypeOK
  <2>3. MonitorTypeOK'
    BY <1>6
    DEF WriteDone, BeginSend, CancelPingTimer, StartPingTimer, MonitorTypeOK
  <2>4. PeerTypeOK'
    BY <1>6, <1>2, <1>3, WireTypes
    DEF WriteDone, BeginSend, CancelPingTimer, StartPingTimer, PeerTypeOK, SendInv, SendState, SendTypeOK
  <2> QED
    BY <2>1, <2>2, <2>3, <2>4
<1>7. CASE WriteBlocks
  <2>1. SendTypeOK'
    BY <1>7, <1>1, <1>3, PipeTypes
    DEF WriteBlocks, SendTypeOK
  <2>2. AckTypeOK'
    BY <1>7, <1>2, <1>3, WireTypes, <1>w
    DEF WriteBlocks, AckTypeOK
  <2>3. MonitorTypeOK'
    BY <1>7
    DEF WriteBlocks, MonitorTypeOK
  <2>4. PeerTypeOK'
    BY <1>7, <1>2, <1>3, WireTypes
    DEF WriteBlocks, PeerTypeOK
  <2> QED
    BY <2>1, <2>2, <2>3, <2>4
<1>8. CASE WriteError
  <2>1. SendTypeOK'
    BY <1>8, <1>1, <1>3, PipeTypes
    DEF WriteError, Disconnect, ClearSentItem, SendTypeOK, NoMsg, NoItem
  <2>2. AckTypeOK'
    BY <1>8, <1>2, <1>3, WireTypes, <1>w
    DEF WriteError, Disconnect, ClearSentItem, AckTypeOK
  <2>3. MonitorTypeOK'
    BY <1>8
    DEF WriteError, Disconnect, ClearSentItem, MonitorTypeOK
  <2>4. PeerTypeOK'
    BY <1>8, <1>2, <1>3, WireTypes
    DEF WriteError, Disconnect, ClearSentItem, PeerTypeOK
  <2> QED
    BY <2>1, <2>2, <2>3, <2>4
<1>9. CASE PushEnds
  <2>1. SendTypeOK'
    BY <1>9, <1>1, <1>3, PipeTypes
    DEF PushEnds, SendTypeOK
  <2>2. AckTypeOK'
    BY <1>9, <1>2, <1>3, WireTypes, <1>w
    DEF PushEnds, AckTypeOK
  <2>3. MonitorTypeOK'
    BY <1>9
    DEF PushEnds, MonitorTypeOK
  <2>4. PeerTypeOK'
    BY <1>9, <1>2, <1>3, WireTypes
    DEF PushEnds, PeerTypeOK
  <2> QED
    BY <2>1, <2>2, <2>3, <2>4
<1>10. CASE PeerReceive
  <2>1. SendTypeOK'
    BY <1>10, <1>1, <1>3, PipeTypes
    DEF PeerReceive, SendTypeOK
  <2>2. AckTypeOK'
    BY <1>10, <1>2, <1>3, WireTypes, <1>w
    DEF PeerReceive, AckTypeOK
  <2>3. MonitorTypeOK'
    BY <1>10
    DEF PeerReceive, MonitorTypeOK
  <2>4. PeerTypeOK'
    <3>1. up' \in Seq(UpMessages) /\ down' \in Seq(Messages)
      BY <1>10, <1>2, WireTypes DEF PeerReceive
    <3>2. ackWindow' \in 0 .. Window /\ ackCount' \in 0 .. Window
      BY <1>10, <1>3 DEF PeerReceive, PeerTypeOK
    <3> QED
      BY <1>10, <3>1, <3>2 DEF PeerReceive, PeerTypeOK
  <2> QED
    BY <2>1, <2>2, <2>3, <2>4
<1>11. CASE OnNewDisplayClient
  <2>1. SendTypeOK'
    BY <1>11, <1>1, <1>3, PipeTypes
    DEF OnNewDisplayClient, StartPush, Wake, SendTypeOK
  <2>2. AckTypeOK'
    BY <1>11, <1>2, <1>3, WireTypes, <1>w
    DEF OnNewDisplayClient, StartPush, Wake, AckTypeOK
  <2>3. MonitorTypeOK'
    BY <1>11
    DEF OnNewDisplayClient, StartPush, Wake, MonitorTypeOK
  <2>4. PeerTypeOK'
    BY <1>11, <1>2, <1>3, WireTypes
    DEF OnNewDisplayClient, StartPush, Wake, PeerTypeOK
  <2> QED
    BY <2>1, <2>2, <2>3, <2>4
<1>12. CASE OnNewCursorClient
  <2>1. SendTypeOK'
    BY <1>12, <1>1, <1>3, PipeTypes
    DEF OnNewCursorClient, StartPush, Wake, SendTypeOK
  <2>2. AckTypeOK'
    BY <1>12, <1>2, <1>3, WireTypes, <1>w
    DEF OnNewCursorClient, StartPush, Wake, AckTypeOK
  <2>3. MonitorTypeOK'
    BY <1>12
    DEF OnNewCursorClient, StartPush, Wake, MonitorTypeOK
  <2>4. PeerTypeOK'
    BY <1>12, <1>2, <1>3, WireTypes
    DEF OnNewCursorClient, StartPush, Wake, PeerTypeOK
  <2> QED
    BY <2>1, <2>2, <2>3, <2>4
<1>13. CASE OnNewOtherClient
  <2>1. SendTypeOK'
    BY <1>13, <1>1, <1>3, PipeTypes
    DEF OnNewOtherClient, SendTypeOK
  <2>2. AckTypeOK'
    BY <1>13, <1>2, <1>3, WireTypes, <1>w
    DEF OnNewOtherClient, AckTypeOK
  <2>3. MonitorTypeOK'
    BY <1>13
    DEF OnNewOtherClient, MonitorTypeOK
  <2>4. PeerTypeOK'
    BY <1>13, <1>2, <1>3, WireTypes
    DEF OnNewOtherClient, PeerTypeOK
  <2> QED
    BY <2>1, <2>2, <2>3, <2>4
<1>14. CASE DisplayInitDone
  <2>1. SendTypeOK'
    BY <1>14, <1>1, <1>3, PipeTypes
    DEF DisplayInitDone, Wake, SendTypeOK
  <2>2. AckTypeOK'
    BY <1>14, <1>2, <1>3, WireTypes, <1>w
    DEF DisplayInitDone, Wake, AckTypeOK
  <2>3. MonitorTypeOK'
    BY <1>14
    DEF DisplayInitDone, Wake, MonitorTypeOK
  <2>4. PeerTypeOK'
    BY <1>14, <1>2, <1>3, WireTypes
    DEF DisplayInitDone, Wake, PeerTypeOK
  <2> QED
    BY <2>1, <2>2, <2>3, <2>4
<1>15. CASE PushSetAck
  <2>1. SendTypeOK'
    BY <1>15, <1>1, <1>3, PipeTypes
    DEF PushSetAck, StartPush, Wake, SendTypeOK
  <2>2. AckTypeOK'
    BY <1>15, <1>2, <1>3, WireTypes, <1>w
    DEF PushSetAck, StartPush, Wake, AckTypeOK
  <2>3. MonitorTypeOK'
    BY <1>15
    DEF PushSetAck, StartPush, Wake, MonitorTypeOK
  <2>4. PeerTypeOK'
    BY <1>15, <1>2, <1>3, WireTypes
    DEF PushSetAck, StartPush, Wake, PeerTypeOK
  <2> QED
    BY <2>1, <2>2, <2>3, <2>4
<1>16. CASE \E k \in ItemKinds : PipeAddPush(k)
  <2>1. SendTypeOK'
    BY <1>16, <1>1, <1>3, PipeTypes
    DEF PipeAddPush, StartPush, Wake, SendTypeOK
  <2>2. AckTypeOK'
    BY <1>16, <1>2, <1>3, WireTypes, <1>w
    DEF PipeAddPush, StartPush, Wake, AckTypeOK
  <2>3. MonitorTypeOK'
    BY <1>16
    DEF PipeAddPush, StartPush, Wake, MonitorTypeOK
  <2>4. PeerTypeOK'
    BY <1>16, <1>2, <1>3, WireTypes
    DEF PipeAddPush, StartPush, Wake, PeerTypeOK
  <2> QED
    BY <2>1, <2>2, <2>3, <2>4
<1>17. CASE \E k \in ItemKinds : \E n \in 0 .. Len(pipe) : PipeAdd(k, n)
  <2>1. SendTypeOK'
    BY <1>17, <1>1, <1>3, PipeTypes
    DEF PipeAdd, Wake, SendTypeOK
  <2>2. AckTypeOK'
    BY <1>17, <1>2, <1>3, WireTypes, <1>w
    DEF PipeAdd, Wake, AckTypeOK
  <2>3. MonitorTypeOK'
    BY <1>17
    DEF PipeAdd, Wake, MonitorTypeOK
  <2>4. PeerTypeOK'
    BY <1>17, <1>2, <1>3, WireTypes
    DEF PipeAdd, Wake, PeerTypeOK
  <2> QED
    BY <2>1, <2>2, <2>3, <2>4
<1>18. CASE \E i \in 1 .. Len(pipe) : PipeRemove(i)
  <2>1. SendTypeOK'
    BY <1>18, <1>1, <1>3, PipeTypes
    DEF PipeRemove, Wake, SendTypeOK
  <2>2. AckTypeOK'
    BY <1>18, <1>2, <1>3, WireTypes, <1>w
    DEF PipeRemove, Wake, AckTypeOK
  <2>3. MonitorTypeOK'
    BY <1>18
    DEF PipeRemove, Wake, MonitorTypeOK
  <2>4. PeerTypeOK'
    BY <1>18, <1>2, <1>3, WireTypes
    DEF PipeRemove, Wake, PeerTypeOK
  <2> QED
    BY <2>1, <2>2, <2>3, <2>4
<1>19. CASE RedPush
  <2>1. SendTypeOK'
    BY <1>19, <1>1, <1>3, PipeTypes
    DEF RedPush, StartPush, Wake, SendTypeOK
  <2>2. AckTypeOK'
    BY <1>19, <1>2, <1>3, WireTypes, <1>w
    DEF RedPush, StartPush, Wake, AckTypeOK
  <2>3. MonitorTypeOK'
    BY <1>19
    DEF RedPush, StartPush, Wake, MonitorTypeOK
  <2>4. PeerTypeOK'
    BY <1>19, <1>2, <1>3, WireTypes
    DEF RedPush, StartPush, Wake, PeerTypeOK
  <2> QED
    BY <2>1, <2>2, <2>3, <2>4
<1>20. CASE WriteEvent
  <2>1. SendTypeOK'
    BY <1>20, <1>1, <1>3, PipeTypes
    DEF WriteEvent, StartPush, Wake, SendTypeOK
  <2>2. AckTypeOK'
    BY <1>20, <1>2, <1>3, WireTypes, <1>w
    DEF WriteEvent, StartPush, Wake, AckTypeOK
  <2>3. MonitorTypeOK'
    BY <1>20
    DEF WriteEvent, StartPush, Wake, MonitorTypeOK
  <2>4. PeerTypeOK'
    BY <1>20, <1>2, <1>3, WireTypes
    DEF WriteEvent, StartPush, Wake, PeerTypeOK
  <2> QED
    BY <2>1, <2>2, <2>3, <2>4
<1>21. CASE HandleAckSync
  <2>1. SendTypeOK'
    BY <1>21, <1>1, <1>3, PipeTypes
    DEF HandleAckSync, Receive, Wake, SendTypeOK
  <2>2. AckTypeOK'
    BY <1>21, <1>2, <1>3, WireTypes, <1>w
    DEF HandleAckSync, Receive, Wake, AckTypeOK
  <2>3. MonitorTypeOK'
    BY <1>21
    DEF HandleAckSync, Receive, Wake, MonitorTypeOK
  <2>4. PeerTypeOK'
    BY <1>21, <1>2, <1>3, WireTypes
    DEF HandleAckSync, Receive, Wake, PeerTypeOK
  <2> QED
    BY <2>1, <2>2, <2>3, <2>4
<1>22. CASE HandleAck
  <2>1. SendTypeOK'
    BY <1>22, <1>1, <1>3, PipeTypes, ZenonT(60)
    DEF HandleAck, AckCounts, AckedWindow, Receive, StartPush, Wake, SendTypeOK
  <2>2. AckTypeOK'
    BY <1>22, <1>2, <1>3, WireTypes, <1>w
    DEF HandleAck, AckCounts, AckedWindow, Receive, StartPush, Wake, AckTypeOK
  <2>3. MonitorTypeOK'
    BY <1>22
    DEF HandleAck, AckCounts, AckedWindow, Receive, StartPush, Wake, MonitorTypeOK
  <2>4. PeerTypeOK'
    BY <1>22, <1>2, <1>3, WireTypes
    DEF HandleAck, AckCounts, AckedWindow, Receive, StartPush, Wake, PeerTypeOK
  <2> QED
    BY <2>1, <2>2, <2>3, <2>4
<1>23. CASE HandleFlushMark
  <2>1. SendTypeOK'
    BY <1>23, <1>1, <1>3, PipeTypes
    DEF HandleFlushMark, Receive, Wake, SendTypeOK
  <2>2. AckTypeOK'
    BY <1>23, <1>2, <1>3, WireTypes, <1>w
    DEF HandleFlushMark, Receive, Wake, AckTypeOK
  <2>3. MonitorTypeOK'
    BY <1>23
    DEF HandleFlushMark, Receive, Wake, MonitorTypeOK
  <2>4. PeerTypeOK'
    BY <1>23, <1>2, <1>3, WireTypes
    DEF HandleFlushMark, Receive, Wake, PeerTypeOK
  <2> QED
    BY <2>1, <2>2, <2>3, <2>4
<1>24. CASE HandlePong
  <2>1. SendTypeOK'
    BY <1>24, <1>1, <1>3, PipeTypes
    DEF HandlePong, Receive, StartPingTimer, Wake, SendTypeOK
  <2>2. AckTypeOK'
    BY <1>24, <1>2, <1>3, WireTypes, <1>w
    DEF HandlePong, Receive, StartPingTimer, Wake, AckTypeOK
  <2>3. MonitorTypeOK'
    BY <1>24
    DEF HandlePong, Receive, StartPingTimer, Wake, MonitorTypeOK
  <2>4. PeerTypeOK'
    BY <1>24, <1>2, <1>3, WireTypes
    DEF HandlePong, Receive, StartPingTimer, Wake, PeerTypeOK
  <2> QED
    BY <2>1, <2>2, <2>3, <2>4
<1>25. CASE PingTimer
  <2>1. SendTypeOK'
    BY <1>25, <1>1, <1>3, PipeTypes
    DEF PingTimer, PushPing, StartPush, Wake, SendTypeOK
  <2>2. AckTypeOK'
    <3>1. pingRounds' = pingRounds \/ pingRounds' = pingRounds + 1
      BY <1>25, Zenon DEF PingTimer, PushPing
    <3>2. pingRounds' \in Nat
      BY <3>1 DEF AckTypeOK
    <3> QED
      BY <1>25, <3>2 DEF PingTimer, PushPing, AckTypeOK
  <2>3. MonitorTypeOK'
    BY <1>25
    DEF PingTimer, PushPing, StartPush, Wake, MonitorTypeOK
  <2>4. PeerTypeOK'
    BY <1>25, <1>2, <1>3, WireTypes
    DEF PingTimer, PushPing, StartPush, Wake, PeerTypeOK
  <2> QED
    BY <2>1, <2>2, <2>3, <2>4
<1>26. CASE StartConnectivityMonitoring
  <2>1. SendTypeOK'
    BY <1>26, <1>1, <1>3, PipeTypes
    DEF StartConnectivityMonitoring, Wake, SendTypeOK
  <2>2. AckTypeOK'
    BY <1>26, <1>2, <1>3, WireTypes, <1>w
    DEF StartConnectivityMonitoring, Wake, AckTypeOK
  <2>3. MonitorTypeOK'
    BY <1>26
    DEF StartConnectivityMonitoring, Wake, MonitorTypeOK
  <2>4. PeerTypeOK'
    BY <1>26, <1>2, <1>3, WireTypes
    DEF StartConnectivityMonitoring, Wake, PeerTypeOK
  <2> QED
    BY <2>1, <2>2, <2>3, <2>4
<1>27. CASE ConnectivityAlive
  <2>1. SendTypeOK'
    BY <1>27, <1>1, <1>3, PipeTypes
    DEF ConnectivityAlive, Wake, SendTypeOK
  <2>2. AckTypeOK'
    BY <1>27, <1>2, <1>3, WireTypes, <1>w
    DEF ConnectivityAlive, Wake, AckTypeOK
  <2>3. MonitorTypeOK'
    BY <1>27
    DEF ConnectivityAlive, Wake, MonitorTypeOK
  <2>4. PeerTypeOK'
    BY <1>27, <1>2, <1>3, WireTypes
    DEF ConnectivityAlive, Wake, PeerTypeOK
  <2> QED
    BY <2>1, <2>2, <2>3, <2>4
<1>28. CASE ConnectivityDead
  <2>1. SendTypeOK'
    BY <1>28, <1>1, <1>3, PipeTypes
    DEF ConnectivityDead, Disconnect, ClearSentItem, Wake, SendTypeOK, NoMsg, NoItem
  <2>2. AckTypeOK'
    BY <1>28, <1>2, <1>3, WireTypes, <1>w
    DEF ConnectivityDead, Disconnect, ClearSentItem, Wake, AckTypeOK
  <2>3. MonitorTypeOK'
    BY <1>28
    DEF ConnectivityDead, Disconnect, ClearSentItem, Wake, MonitorTypeOK
  <2>4. PeerTypeOK'
    BY <1>28, <1>2, <1>3, WireTypes
    DEF ConnectivityDead, Disconnect, ClearSentItem, Wake, PeerTypeOK
  <2> QED
    BY <2>1, <2>2, <2>3, <2>4
<1>29. CASE DefaultMigrate
  <2>1. SendTypeOK'
    BY <1>29, <1>1, <1>3, PipeTypes
    DEF DefaultMigrate, StartPush, Wake, SendTypeOK
  <2>2. AckTypeOK'
    BY <1>29, <1>2, <1>3, WireTypes, <1>w
    DEF DefaultMigrate, StartPush, Wake, AckTypeOK
  <2>3. MonitorTypeOK'
    BY <1>29
    DEF DefaultMigrate, StartPush, Wake, MonitorTypeOK
  <2>4. PeerTypeOK'
    BY <1>29, <1>2, <1>3, WireTypes
    DEF DefaultMigrate, StartPush, Wake, PeerTypeOK
  <2> QED
    BY <2>1, <2>2, <2>3, <2>4
<1>30. CASE PeerError
  <2>1. SendTypeOK'
    BY <1>30, <1>1, <1>3, PipeTypes
    DEF PeerError, Disconnect, ClearSentItem, Wake, SendTypeOK, NoMsg, NoItem
  <2>2. AckTypeOK'
    BY <1>30, <1>2, <1>3, WireTypes, <1>w
    DEF PeerError, Disconnect, ClearSentItem, Wake, AckTypeOK
  <2>3. MonitorTypeOK'
    BY <1>30
    DEF PeerError, Disconnect, ClearSentItem, Wake, MonitorTypeOK
  <2>4. PeerTypeOK'
    BY <1>30, <1>2, <1>3, WireTypes
    DEF PeerError, Disconnect, ClearSentItem, Wake, PeerTypeOK
  <2> QED
    BY <2>1, <2>2, <2>3, <2>4
<1> QED
  <2> HIDE DEF TypeOK
  <2>1. CASE Next
    BY <2>1, NextCases, <1>5, <1>6, <1>7, <1>8, <1>9, <1>10, <1>11, <1>12, <1>13, <1>14, <1>15, <1>16, <1>17, <1>18, <1>19, <1>20, <1>21, <1>22, <1>23, <1>24, <1>25, <1>26, <1>27, <1>28, <1>29, <1>30
  <2> QED
    BY <1>4, <2>1

\* Every variable keeps its type; messages_window stays below 2^32 although it
\* starts at ~0 and an ACK is taken off it without a test.
THEOREM TypeOKHolds == Spec => []TypeOK
<1>1. Init => TypeOK
  <2> SUFFICES ASSUME Init PROVE TypeOK
    OBVIOUS
  <2> USE ConstantsAssumption DEF Init
  <2>1. <<>> \in Seq(PipeItems) /\ <<>> \in Seq(Messages) /\ <<>> \in Seq(UpMessages)
    OBVIOUS
  <2>2. SendTypeOK
    BY <2>1 DEF SendTypeOK
  <2>3. AckTypeOK
    <3>1. Modulus - 1 \in 0 .. Modulus - 1
      OBVIOUS
    <3> QED
      BY <3>1, Zenon DEF AckTypeOK
  <2>4. MonitorTypeOK
    BY DEF MonitorTypeOK, PingStates, ConnStates
  <2>5. PeerTypeOK
    BY <2>1 DEF PeerTypeOK
  <2> QED
    BY <2>2, <2>3, <2>4, <2>5 DEF TypeOK
<1> QED
  BY <1>1, TypeInductive, SendInvHolds, PTL DEF Spec

-----------------------------------------------------------------------------
(* Serials. *)

\* SerialMatchesPeer, and what it needs: an urgent message always carries the
\* serial its main message will be sent with.
SerialInv ==
    /\ SerialMatchesPeer
    /\ connected /\ active = "urgent" => serial = lastSerial

\* Every step preserves SerialInv.
LEMMA SerialInductive ==
  TypeOK /\ SendInv /\ SerialInv /\ [Next]_vars => SerialInv'
<1> SUFFICES ASSUME TypeOK, SendInv, SerialInv, [Next]_vars PROVE SerialInv'
  OBVIOUS
<1>0. /\ connected \in BOOLEAN /\ blocked \in BOOLEAN
      /\ serial \in Nat /\ lastSerial \in Nat /\ inSerial \in Nat
      /\ down \in Seq(Messages) /\ active \in {"main", "urgent"}
      /\ Len(down) \in Nat
  BY DEF TypeOK, SendTypeOK, PeerTypeOK
<1>1. CASE /\ UNCHANGED <<out, active, serial, lastSerial, inSerial, down, connected>>
  BY <1>1 DEF SerialInv, SerialMatchesPeer, NoMsg
<1>2. CASE SendItem
  <2>1. out = NoMsg /\ active = "main"
    BY <1>2 DEF SendItem, ItemToGet, SendInv, SendState, DisconnectedIsEmpty
  <2>2. connected => lastSerial = inSerial + Len(down)
    BY <2>1, <1>0 DEF SerialInv, SerialMatchesPeer
  <2>3. connected => ResetSerial(serial, active) = lastSerial + 1
    BY <2>1, <1>0 DEF ResetSerial, SerialInv, SerialMatchesPeer
  <2>4. UNCHANGED <<down, inSerial, connected>>
    BY <1>2 DEF SendItem, peerVars
  <2>5. CASE Head(pipe) \in {"nothing", "data_deps"}
    BY <1>2, <2>1, <2>2, <2>3, <2>4, <2>5, <1>0
    DEF SendItem, SerialInv, SerialMatchesPeer
  <2>6. CASE Head(pipe) \in {"SET_ACK", "PING", "MIGRATE", "empty", "data"}
    <3>1. /\ serial' = ResetSerial(serial, active)
          /\ lastSerial' = ResetSerial(serial, active)
          /\ active' = active /\ out' # NoMsg
      BY <1>2, <2>6 DEF SendItem, BeginSend, Msg, NoMsg
    <3> QED
      BY <2>1, <2>2, <2>3, <2>4, <3>1, <1>0 DEF SerialInv, SerialMatchesPeer
  <2>7. CASE Head(pipe) = "data_inval"
    <3>1. /\ serial' = ResetSerial(ResetSerial(serial, active), "urgent")
          /\ lastSerial' = ResetSerial(ResetSerial(serial, active), "urgent")
          /\ active' = "urgent" /\ out' # NoMsg
      BY <1>2, <2>7 DEF SendItem, BeginSend, Msg, NoMsg
    <3>2. connected => serial' = lastSerial + 2 /\ lastSerial' = lastSerial + 2
      BY <3>1, <2>3, <1>0 DEF ResetSerial
    <3> QED
      BY <2>2, <2>4, <3>1, <3>2, <1>0 DEF SerialInv, SerialMatchesPeer
  <2> QED
    BY <1>2, <2>5, <2>6, <2>7 DEF SendItem
<1>3. CASE WriteDone
  <2>1. connected /\ out # NoMsg /\ UNCHANGED <<connected, inSerial, serial>>
    BY <1>3 DEF WriteDone, SendInv, SendState, peerVars
  <2>2. Len(down') = Len(down) + 1
    BY <1>3, <1>0 DEF WriteDone
  <2>3. CASE active = "urgent"
    <3>1. mainMsg # NoMsg /\ out' = mainMsg /\ active' = "main" /\ lastSerial' = serial
      BY <1>3, <2>1, <2>3 DEF WriteDone, BeginSend, SendInv, SendState
    <3> QED
      BY <3>1, <2>1, <2>2, <2>3, <1>0 DEF SerialInv, SerialMatchesPeer
  <2>4. CASE active = "main"
    <3>1. out' = NoMsg /\ UNCHANGED <<active, lastSerial>>
      BY <1>3, <2>4 DEF WriteDone
    <3> QED
      BY <3>1, <2>1, <2>2, <2>4, <1>0 DEF SerialInv, SerialMatchesPeer
  <2> QED
    BY <2>3, <2>4, <1>0
<1>4. CASE WriteError \/ ConnectivityDead \/ PeerError
  <2>1. connected' = FALSE
    BY <1>4 DEF WriteError, ConnectivityDead, PeerError, Disconnect, ClearSentItem
  <2> QED
    BY <2>1 DEF SerialInv, SerialMatchesPeer
<1>5. CASE PeerReceive
  <2>1. /\ Len(down') = Len(down) - 1 /\ inSerial' = inSerial + 1
        /\ UNCHANGED <<connected, out, active, serial, lastSerial>>
    BY <1>5, <1>0 DEF PeerReceive, sendVars
  <2> QED
    BY <2>1, <1>0 DEF SerialInv, SerialMatchesPeer
<1>6. CASE ~(SendItem \/ WriteDone \/ WriteError \/ ConnectivityDead \/ PeerError
             \/ PeerReceive)
  <2>1. CASE UNCHANGED vars
    BY <2>1, <1>1 DEF vars, sendVars, peerVars
  <2>2. CASE WriteBlocks \/ PushEnds
    BY <2>2, <1>1 DEF WriteBlocks, PushEnds, sendVars, peerVars
  <2>3. CASE OnNewDisplayClient \/ OnNewCursorClient \/ OnNewOtherClient
    BY <2>3, <1>1 DEF OnNewDisplayClient, OnNewCursorClient, OnNewOtherClient,
                      StartPush, sendVars, peerVars
  <2>4. CASE DisplayInitDone \/ PushSetAck
    BY <2>4, <1>1 DEF DisplayInitDone, PushSetAck, StartPush, sendVars, peerVars
  <2>5. CASE \E k \in ItemKinds : PipeAddPush(k)
    BY <2>5, <1>1 DEF PipeAddPush, StartPush, peerVars
  <2>6. CASE \E k \in ItemKinds : \E n \in 0 .. Len(pipe) : PipeAdd(k, n)
    BY <2>6, <1>1 DEF PipeAdd, sendVars, peerVars
  <2>7. CASE \E i \in 1 .. Len(pipe) : PipeRemove(i)
    BY <2>7, <1>1 DEF PipeRemove, sendVars, peerVars
  <2>8. CASE RedPush \/ WriteEvent
    BY <2>8, <1>1 DEF RedPush, WriteEvent, StartPush, peerVars
  <2>9. CASE HandleAckSync \/ HandleFlushMark \/ HandlePong
    BY <2>9, <1>1 DEF HandleAckSync, HandleFlushMark, HandlePong, Receive,
                      sendVars, peerVars
  <2>10. CASE HandleAck
    BY <2>10, <1>1 DEF HandleAck, AckCounts, AckedWindow, Receive, StartPush, sendVars, peerVars
  <2>11. CASE PingTimer
    BY <2>11, <1>1 DEF PingTimer, PushPing, StartPush, sendVars, peerVars
  <2>12. CASE StartConnectivityMonitoring \/ ConnectivityAlive
    BY <2>12, <1>1 DEF StartConnectivityMonitoring, ConnectivityAlive, sendVars,
                       peerVars
  <2>13. CASE DefaultMigrate
    BY <2>13, <1>1 DEF DefaultMigrate, StartPush, peerVars
  <2> QED
    <3>1. CASE Next
      BY <3>1, <1>6, NextCases, <2>2, <2>3, <2>4, <2>5, <2>6, <2>7, <2>8, <2>9,
         <2>10, <2>11, <2>12, <2>13
    <3> QED
      BY <3>1, <2>1
<1> QED
  BY <1>2, <1>3, <1>4, <1>5, <1>6

\* The serials of the server and the peer never drift apart, over any sequence
\* of dropped items, urgent messages, blocked writes and pings.
THEOREM SerialMatchesPeerHolds == Spec => []SerialMatchesPeer
<1>1. Init => SerialInv
  BY DEF Init, SerialInv, SerialMatchesPeer
<1>2. SerialInv => SerialMatchesPeer
  BY DEF SerialInv
<1> QED
  BY <1>1, <1>2, SerialInductive, TypeOKHolds, SendInvHolds, PTL DEF Spec

-----------------------------------------------------------------------------
(* The latency monitor. *)

\* where the PINGs of a latency test, and their PONGs, are
PipePings == Count(pipe, {"PING"})
OutPings  == One(out.type = "PING")
DownPings == Count(down, OfType("PING"))
UpPongs   == Count(up, OfType("PONG"))

\* the number of PONGs the monitor's state waits for
Expected == IF pingState = "WARMUP" THEN 2 ELSE IF pingState = "LATENCY" THEN 1 ELSE 0

\* PingsOutstanding, and what it needs: an urgent message never stands in front
\* of a PING, and the timer is not armed after a disconnect either.
PingInv ==
    /\ connected => PipePings + OutPings + DownPings + UpPongs = Expected
    /\ mainMsg \in {NoMsg, Msg("DATA")}
    /\ pingArmed => pingTimer /\ pingState = "TIMER"

\* The four counts are natural numbers.
LEMMA PingTypes ==
  ASSUME TypeOK
  PROVE  /\ PipePings \in Nat /\ OutPings \in {0, 1} /\ DownPings \in Nat /\ UpPongs \in Nat
<1>1. pipe \in Seq(PipeItems) /\ down \in Seq(Messages) /\ up \in Seq(UpMessages)
  BY DEF TypeOK, SendTypeOK, PeerTypeOK
<1> QED
  BY <1>1, CountType DEF PipePings, OutPings, DownPings, UpPongs, One

\* A handler that appends something else than a PING, adds it inside the pipe or
\* removes it from there leaves the PINGs of the pipe alone.
LEMMA PipePingsKept ==
  ASSUME TypeOK,
         \/ \E k \in PipeItems \ {"PING"} :
               \/ pipe' = Append(pipe, k)
               \/ \E n \in 0 .. Len(pipe) : pipe' = InsertAt(pipe, n + 1, k)
         \/ \E i \in 1 .. Len(pipe) : pipe' = RemoveAt(pipe, i) /\ pipe[i] # "PING"
         \/ pipe' = pipe
  PROVE  PipePings' = PipePings
<1>1. pipe \in Seq(PipeItems) /\ PipePings \in Nat
  BY PingTypes DEF TypeOK, SendTypeOK
<1>2. \A e : e # "PING" => One(e \in {"PING"}) = 0
  BY DEF One
<1>3. ASSUME NEW k \in PipeItems \ {"PING"}, pipe' = Append(pipe, k)
      PROVE  PipePings' = PipePings
  <2>1. Count(Append(pipe, k), {"PING"}) = Count(pipe, {"PING"}) + One(k \in {"PING"})
    BY <1>1, CountQueue
  <2> QED
    BY <1>1, <1>2, <1>3, <2>1, One(k \in {"PING"}) = 0 DEF PipePings
<1>4. ASSUME NEW k \in PipeItems \ {"PING"}, NEW n \in 0 .. Len(pipe),
             pipe' = InsertAt(pipe, n + 1, k)
      PROVE  PipePings' = PipePings
  <2>1. Count(InsertAt(pipe, n + 1, k), {"PING"})
          = Count(pipe, {"PING"}) + One(k \in {"PING"})
    BY <1>1, CountInside
  <2> QED
    BY <1>1, <1>2, <1>4, <2>1, One(k \in {"PING"}) = 0 DEF PipePings
<1>5. ASSUME NEW i \in 1 .. Len(pipe), pipe' = RemoveAt(pipe, i), pipe[i] # "PING"
      PROVE  PipePings' = PipePings
  <2>1. Count(RemoveAt(pipe, i), {"PING"})
          = Count(pipe, {"PING"}) - One(pipe[i] \in {"PING"})
    BY <1>1, CountInside
  <2> QED
    BY <1>1, <1>2, <1>5, <2>1, One(pipe[i] \in {"PING"}) = 0 DEF PipePings
<1>6. CASE pipe' = pipe
  BY <1>6 DEF PipePings
<1> QED
  BY <1>3, <1>4, <1>5, <1>6

\* What a message taken from the peer's direction changes.
LEMMA ReceivedPongs ==
  ASSUME TypeOK, NEW t, Receive(t)
  PROVE  UpPongs' = UpPongs - One(t = "PONG")
<1>1. up \in Seq(UpMessages) /\ up # <<>> /\ up' = Tail(up) /\ Head(up).type = t
  BY DEF Receive, TypeOK, PeerTypeOK
<1>2. Head(up) \in UpMessages
  BY <1>1
<1>3. Head(up) \in OfType("PONG") <=> t = "PONG"
  BY <1>1, <1>2 DEF OfType, UpMessages
<1>4. Count(Tail(up), OfType("PONG")) = Count(up, OfType("PONG")) - One(Head(up) \in OfType("PONG"))
  BY <1>1, CountQueue
<1> QED
  BY <1>1, <1>3, <1>4 DEF UpPongs, One

\* Every step of the thread and of the peer preserves PingInv.
LEMMA PingInductive ==
  TypeOK /\ SendInv /\ PingInv /\ [Next]_vars => PingInv'
<1> SUFFICES ASSUME TypeOK, SendInv, PingInv, [Next]_vars PROVE PingInv'
  OBVIOUS
<1>0. /\ PipePings \in Nat /\ OutPings \in {0, 1} /\ DownPings \in Nat /\ UpPongs \in Nat
      /\ Expected \in 0 .. 2
      /\ pipe \in Seq(PipeItems) /\ down \in Seq(Messages) /\ up \in Seq(UpMessages)
      /\ connected \in BOOLEAN /\ pingArmed \in BOOLEAN /\ pingTimer \in BOOLEAN
      /\ pingState \in PingStates
      /\ out \in Messages \cup {NoMsg} /\ active \in {"main", "urgent"}
  BY PingTypes DEF TypeOK, SendTypeOK, PeerTypeOK, MonitorTypeOK, Expected
<1>1. CASE /\ PipePings' = PipePings
           /\ UNCHANGED <<out, down, up, connected, mainMsg, pingVars>>
  BY <1>1 DEF PingInv, OutPings, DownPings, UpPongs, Expected, pingVars
<1>2. CASE SendItem
  <2> DEFINE k == Head(pipe)
  <2>1. /\ pipe # <<>> /\ out = NoMsg /\ OutPings = 0 /\ connected
        /\ UNCHANGED <<connected, down, up>> /\ k \in PipeItems
        /\ pipe' = Requeued(k) \o Tail(pipe)
    BY <1>2, <1>0
    DEF SendItem, ItemToGet, SendInv, SendState, DisconnectedIsEmpty, OutPings, One, NoMsg
  <2>2. Tail(pipe) \in Seq(PipeItems) /\ Requeued(k) \in Seq(PipeItems)
    <3>1. <<"data", "data">> \in Seq(PipeItems) /\ <<>> \in Seq(PipeItems)
      BY DEF PipeItems, ChannelItems
    <3> QED
      BY <1>0, <2>1, <3>1 DEF Requeued
  <2>3. Count(Requeued(k), {"PING"}) = 0
    <3>1. Count(<<"data", "data">>, {"PING"}) = 0
      <4>1. {i \in DOMAIN <<"data", "data">> : <<"data", "data">>[i] \in {"PING"}} = {}
        OBVIOUS
      <4> QED
        BY <4>1, FS_EmptySet DEF Count
    <3> QED
      BY <3>1, CountShort DEF Requeued
  <2>4. Count(Tail(pipe), {"PING"}) = PipePings - One(k \in {"PING"})
    BY <1>0, <2>1, CountQueue DEF PipePings
  <2>5. Count(Tail(pipe), {"PING"}) \in Nat
    BY <2>2, CountType
  <2>6. PipePings' = PipePings - One(k \in {"PING"})
    <3> DEFINE q == Requeued(k)
               r == Tail(pipe)
    <3>a. q \in Seq(PipeItems) /\ r \in Seq(PipeItems) /\ pipe' = q \o r
      BY <2>1, <2>2
    <3> HIDE DEF q, r
    <3>b. PipePings' = Count(q, {"PING"}) + Count(r, {"PING"})
      BY <3>a, CountConcat DEF PipePings
    <3>1. PipePings' = Count(Requeued(k), {"PING"}) + Count(Tail(pipe), {"PING"})
      BY <3>b DEF q, r
    <3> QED
      BY <3>1, <2>3, <2>4, <2>5
  <2>7. OutPings' = One(k \in {"PING"})
    <3>1. k \in PipeItems
      BY <2>1
    <3> QED
      BY <1>2, <2>1 DEF SendItem, BeginSend, Msg, OutPings, One, NoMsg
  <2>8. /\ pingArmed' => pingTimer' /\ pingState' = "TIMER"
        /\ Expected' = Expected /\ mainMsg' \in {NoMsg, Msg("DATA")}
    BY <1>2 DEF SendItem, CancelPingTimer, PingInv, Expected, pingVars
  <2>9. DownPings' = DownPings /\ UpPongs' = UpPongs
    BY <2>1 DEF DownPings, UpPongs
  <2>10. One(k \in {"PING"}) \in Nat
    BY DEF One
  <2> QED
    BY <1>0, <2>1, <2>6, <2>7, <2>8, <2>9, <2>10 DEF PingInv
<1>3. CASE WriteDone
  <2>1. connected /\ out # NoMsg /\ out \in Messages /\ UNCHANGED <<connected, pipe, up>>
        /\ mainMsg' = mainMsg
    BY <1>3, <1>0 DEF WriteDone, SendInv, SendState
  <2>2. out \in OfType("PING") <=> out.type = "PING"
    BY <2>1 DEF OfType, Messages
  <2>3. DownPings' = DownPings + OutPings
    <3>1. Count(Append(down, out), OfType("PING")) = DownPings + One(out \in OfType("PING"))
      BY <1>0, <2>1, CountQueue DEF DownPings
    <3> QED
      BY <1>3, <3>1, <2>2 DEF WriteDone, DownPings, OutPings, One
  <2>4. OutPings' = 0
    BY <1>3 DEF WriteDone, BeginSend, OutPings, One, NoMsg, PingInv, Msg
  <2>5. /\ pingArmed' => pingTimer' /\ pingState' = "TIMER"
        /\ Expected' = Expected
    BY <1>3, <1>0 DEF WriteDone, CancelPingTimer, StartPingTimer, PingInv, Expected
  <2>6. PipePings' = PipePings /\ UpPongs' = UpPongs
    BY <2>1 DEF PipePings, UpPongs
  <2> QED
    BY <1>0, <2>1, <2>3, <2>4, <2>5, <2>6 DEF PingInv
<1>4. CASE WriteError \/ ConnectivityDead \/ PeerError
  BY <1>4 DEF WriteError, ConnectivityDead, PeerError, Disconnect, ClearSentItem, PingInv
<1>5. CASE PeerReceive
  <2> DEFINE m == Head(down)
             a == IF ackCount = 1 THEN <<Msg("ACK")>> ELSE <<>>
  <2>1. /\ down # <<>> /\ m \in Messages /\ down' = Tail(down) /\ connected
        /\ up' = up \o a \o Reply(m)
        /\ UNCHANGED <<connected, pipe, out, mainMsg, pingVars>>
    BY <1>5, <1>0 DEF PeerReceive, sendVars
  <2>2. DownPings' = DownPings - One(m \in OfType("PING"))
    BY <1>0, <2>1, CountQueue DEF DownPings
  <2>3. a \in Seq(UpMessages) /\ Reply(m) \in Seq(UpMessages)
    <3>1. /\ Msg("ACK") \in UpMessages /\ Msg("PONG") \in UpMessages
          /\ Msg("FLUSH_MARK") \in UpMessages
          /\ [type |-> "ACK_SYNC", gen |-> m.gen] \in UpMessages
      BY <2>1 DEF Msg, UpMessages, Messages
    <3> QED
      BY <3>1 DEF Reply
  <2>4. Count(a, OfType("PONG")) = 0
    <3>1. Msg("ACK") \notin OfType("PONG")
      BY DEF Msg, OfType
    <3> QED
      BY <3>1, CountShort DEF One
  <2>5. Count(Reply(m), OfType("PONG")) = One(m \in OfType("PING"))
    <3>1. Msg("PONG") \in OfType("PONG") /\ Msg("FLUSH_MARK") \notin OfType("PONG")
          /\ [type |-> "ACK_SYNC", gen |-> m.gen] \notin OfType("PONG")
      BY DEF Msg, OfType
    <3>2. m \in OfType("PING") <=> m.type = "PING"
      BY <2>1 DEF OfType, Messages
    <3> QED
      BY <3>1, <3>2, CountShort DEF Reply, One
  <2> HIDE DEF a, m
  <2>6. UpPongs' = UpPongs + One(m \in OfType("PING"))
    <3>1. up \o a \in Seq(UpMessages)
      BY <1>0, <2>3
    <3>2. Count(up \o a \o Reply(m), OfType("PONG"))
            = Count(up \o a, OfType("PONG")) + Count(Reply(m), OfType("PONG"))
      BY <2>3, <3>1, CountConcat
    <3>3. Count(up \o a, OfType("PONG")) = UpPongs + Count(a, OfType("PONG"))
      BY <1>0, <2>3, CountConcat DEF UpPongs
    <3>4. UpPongs' = Count(up \o a \o Reply(m), OfType("PONG"))
      BY <2>1 DEF UpPongs
    <3> QED
      BY <1>0, <2>4, <2>5, <3>2, <3>3, <3>4
  <2>7. PipePings' = PipePings /\ OutPings' = OutPings /\ Expected' = Expected
    BY <2>1 DEF PipePings, OutPings, Expected, pingVars
  <2>8. One(m \in OfType("PING")) \in Nat
    BY DEF One
  <2>9. (PipePings + OutPings + DownPings + UpPongs)'
          = PipePings + OutPings + DownPings + UpPongs
    BY <1>0, <2>2, <2>6, <2>7, <2>8
  <2> QED
    BY <2>1, <2>7, <2>9 DEF PingInv, pingVars
<1>6. CASE OnNewDisplayClient \/ OnNewCursorClient \/ PushSetAck
  <2>1. "SET_ACK" \in PipeItems \ {"PING"}
    BY DEF PipeItems
  <2>2. pipe' = Append(pipe, "SET_ACK")
    BY <1>6 DEF OnNewDisplayClient, OnNewCursorClient, PushSetAck, StartPush
  <2> QED
    BY <1>6, <1>1, <2>1, <2>2, PipePingsKept
    DEF OnNewDisplayClient, OnNewCursorClient, PushSetAck, StartPush
<1>k. ItemKinds \subseteq PipeItems \ {"PING"} /\ "PING" \notin ChannelItems
  BY ItemKindsAssumption DEF PipeItems, ChannelItems
<1>7. CASE \E k \in ItemKinds : PipeAddPush(k)
  BY <1>7, <1>1, <1>k, PipePingsKept DEF PipeAddPush, StartPush
<1>8. CASE \E k \in ItemKinds : \E n \in 0 .. Len(pipe) : PipeAdd(k, n)
  BY <1>8, <1>1, <1>k, PipePingsKept DEF PipeAdd, sendVars
<1>9. CASE \E i \in 1 .. Len(pipe) : PipeRemove(i)
  BY <1>9, <1>1, <1>k, PipePingsKept DEF PipeRemove, sendVars
<1>10. CASE HandleAckSync \/ HandleAck \/ HandleFlushMark
  <2>1. PICK t \in {"ACK_SYNC", "ACK", "FLUSH_MARK"} : Receive(t)
    BY <1>10 DEF HandleAckSync, HandleAck, HandleFlushMark
  <2>2. One(t = "PONG") = 0
    BY DEF One
  <2>3. UpPongs' = UpPongs
    BY <1>0, <2>1, <2>2, ReceivedPongs
  <2>4. UNCHANGED <<pipe, out, down, connected, mainMsg, pingVars>>
    BY <1>10 DEF HandleAckSync, HandleAck, HandleFlushMark, Receive, StartPush, sendVars
  <2> QED
    BY <2>3, <2>4 DEF PingInv, PipePings, OutPings, DownPings, Expected, pingVars
<1>11. CASE HandlePong
  <2>1. Receive("PONG") /\ connected
    BY <1>11 DEF HandlePong, Receive, Handler
  <2>2. UpPongs' = UpPongs - 1
    BY <2>1, ReceivedPongs DEF One
  <2>3. UNCHANGED <<pipe, out, down, connected, mainMsg, pingTimer>>
    BY <1>11 DEF HandlePong, Receive, sendVars
  <2>4. PipePings' = PipePings /\ OutPings' = OutPings /\ DownPings' = DownPings
    BY <2>3 DEF PipePings, OutPings, DownPings
  <2>5. UpPongs' \in Nat
    <3>1. Tail(up) \in Seq(UpMessages) /\ up' = Tail(up)
      BY <1>0, <2>1 DEF Receive
    <3> QED
      BY <3>1, CountType DEF UpPongs
  <2>6. Expected > 0
    BY <1>0, <2>1, <2>2, <2>4, <2>5 DEF PingInv
  <2>7. /\ Expected' = Expected - 1
        /\ pingArmed' => pingTimer' /\ pingState' = "TIMER"
    BY <1>11, <2>3, <2>6 DEF HandlePong, StartPingTimer, Expected, PingInv
  <2> QED
    BY <1>0, <2>1, <2>2, <2>3, <2>4, <2>7 DEF PingInv
<1>12. CASE PingTimer
  <2>1. CASE pingRounds' = pingRounds /\ UNCHANGED <<pingState, pingArmed, pipe, out, mainMsg>>
    BY <1>12, <2>1, <1>1 DEF PingTimer, PipePings, pingVars
  <2>2. CASE PushPing /\ pipe' = pipe \o <<"PING", "PING">> /\ UNCHANGED <<out, mainMsg>>
    <3>1. connected /\ pingArmed /\ UNCHANGED <<connected, down, up>>
      BY <1>12 DEF PingTimer, Handler
    <3>2. Expected = 0 /\ Expected' = 2 /\ ~pingArmed'
      BY <2>2, <3>1 DEF PushPing, Expected, PingInv
    <3>3. Count(<<"PING", "PING">>, {"PING"}) = 2
      <4>a. <<"PING", "PING">> = <<"PING">> \o <<"PING">> /\ <<"PING">> \in Seq({"PING"})
        OBVIOUS
      <4>1. PICK h \in Seq({"PING"}) : h = <<"PING">> /\ <<"PING", "PING">> = h \o h
        BY <4>a, Zenon
      <4>2. Count(h, {"PING"}) = 1
        BY <4>1, CountShort DEF One
      <4>3. Count(h \o h, {"PING"}) = Count(h, {"PING"}) + Count(h, {"PING"})
        BY CountConcat
      <4>4. Count(h \o h, {"PING"}) = 2
        BY <4>2, <4>3
      <4> QED
        BY <4>1, <4>4, Zenon
    <3>4. <<"PING", "PING">> \in Seq(PipeItems)
      BY DEF PipeItems
    <3>5. PipePings' = PipePings + 2
      <4>1. PICK q \in Seq(PipeItems) : q = <<"PING", "PING">>
        BY <3>4
      <4>2. pipe' = pipe \o q /\ Count(q, {"PING"}) = 2
        BY <2>2, <3>3, <4>1, Zenon
      <4>3. Count(pipe \o q, {"PING"}) = Count(pipe, {"PING"}) + Count(q, {"PING"})
        BY <1>0, CountConcat
      <4> QED
        BY <4>2, <4>3 DEF PipePings
    <3>6. OutPings' = OutPings /\ DownPings' = DownPings /\ UpPongs' = UpPongs
      BY <2>2, <3>1 DEF OutPings, DownPings, UpPongs
    <3> QED
      BY <1>0, <2>2, <3>1, <3>2, <3>5, <3>6 DEF PingInv
  <2> QED
    BY <1>12, <2>1, <2>2 DEF PingTimer, StartPush, sendVars
<1>13. CASE StartConnectivityMonitoring
  <2>1. UNCHANGED <<pipe, out, down, up, connected, mainMsg>>
    BY <1>13 DEF StartConnectivityMonitoring, sendVars
  <2>2. /\ Expected' = Expected
        /\ pingArmed' => pingTimer' /\ pingState' = "TIMER"
    BY <1>13, <1>0 DEF StartConnectivityMonitoring, Expected, PingInv
  <2> QED
    BY <2>1, <2>2 DEF PingInv, PipePings, OutPings, DownPings, UpPongs
<1>14. CASE DefaultMigrate
  <2>1. pipe' = Append(pipe, "MIGRATE") /\ UNCHANGED <<out, down, up, connected, mainMsg>>
    BY <1>14 DEF DefaultMigrate, StartPush
  <2>2. PipePings' = PipePings
    BY <2>1, PipePingsKept DEF PipeItems
  <2>3. Expected' = Expected /\ ~pingArmed'
    BY <1>14 DEF DefaultMigrate, Expected
  <2> QED
    BY <2>1, <2>2, <2>3 DEF PingInv, OutPings, DownPings, UpPongs
<1>15. CASE \/ UNCHANGED vars \/ WriteBlocks \/ PushEnds \/ DisplayInitDone
            \/ OnNewOtherClient \/ RedPush \/ WriteEvent \/ ConnectivityAlive
  BY <1>15, <1>1 DEF vars, sendVars, WriteBlocks, PushEnds, DisplayInitDone,
     OnNewOtherClient, RedPush, WriteEvent, ConnectivityAlive, StartPush, PipePings
<1> QED
  <2>1. CASE Next
    BY <2>1, NextCases, <1>2, <1>3, <1>4, <1>5, <1>6, <1>7, <1>8, <1>9, <1>10,
       <1>11, <1>12, <1>13, <1>14, <1>15
  <2> QED
    BY <1>15, <2>1

\* PingInv holds of every behaviour of the channel client.
LEMMA PingInvHolds == Spec => []PingInv
<1>1. Init => PingInv
  <2> SUFFICES ASSUME Init PROVE PingInv
    OBVIOUS
  <2>1. pipe = <<>> /\ down = <<>> /\ up = <<>> /\ out.type # "PING" /\ mainMsg = NoMsg
    BY DEF Init, NoMsg
  <2>2. PipePings = 0 /\ OutPings = 0 /\ DownPings = 0 /\ UpPongs = 0
    BY <2>1, CountShort DEF PipePings, OutPings, DownPings, UpPongs, One
  <2>3. Expected = 0 /\ (pingArmed => pingTimer /\ pingState = "TIMER")
    BY ConstantsAssumption DEF Init, Expected
  <2> QED
    BY <2>1, <2>2, <2>3 DEF PingInv
<1> QED
  BY <1>1, PingInductive, TypeOKHolds, SendInvHolds, PTL DEF Spec

\* The latency monitor and the PINGs in flight never disagree, however many
\* latency tests, blocked writes, restarts of the timer and migrations there
\* are: the state is 2 or 1 PONGs away from its end, or no PING is anywhere.
THEOREM PingsOutstandingHolds == Spec => []PingsOutstanding
<1>1. PingInv => PingsOutstanding
  <2>1. (CASE pingState = "WARMUP" -> 2 [] pingState = "LATENCY" -> 1 [] OTHER -> 0)
          = Expected
    BY DEF Expected
  <2> QED
    BY <2>1 DEF PingInv, PingsOutstanding, PipePings, OutPings, DownPings, UpPongs
<1> QED
  BY <1>1, PingInvHolds, PTL

-----------------------------------------------------------------------------
(* The connectivity monitor. *)

\* What the state recorded by connectivity_timer still says, as long as no byte
\* was counted since, at every point of the push loop and not only when the
\* thread is idle.  The monitor runs on an open channel only, where nothing but
\* an ACK, which is counted as input, opens the window.
ConnInv ==
    /\ connTimer => phase = "open"
    /\ connTimer /\ connState = "BLOCKED" /\ ~inBytes /\ ~outBytes
         => blocked \/ WaitingForAck
    /\ connTimer /\ connState = "WAIT_PONG" /\ ~inBytes
         => pingState \in {"WARMUP", "LATENCY"}

\* Every step of the thread and of the peer preserves ConnInv.
LEMMA ConnInductive == TypeOK /\ ConnInv /\ [Next]_vars => ConnInv'
<1> SUFFICES ASSUME TypeOK, ConnInv, [Next]_vars PROVE ConnInv'
  OBVIOUS
<1>0. /\ blocked \in BOOLEAN /\ connTimer \in BOOLEAN
      /\ inBytes \in BOOLEAN /\ outBytes \in BOOLEAN /\ pingState \in PingStates
  BY DEF TypeOK, SendTypeOK, MonitorTypeOK
<1>1. CASE /\ UNCHANGED <<phase, connVars, window, pingState>>
           /\ blocked => blocked'
  BY <1>1, <1>0 DEF ConnInv, WaitingForAck, connVars
<1>2. CASE SendItem
  BY <1>2, <1>0 DEF SendItem, ItemToGet, CancelPingTimer, ConnInv, connVars, pingVars
<1>3. CASE WriteDone
  BY <1>3, <1>0 DEF WriteDone, CancelPingTimer, StartPingTimer, ConnInv
<1>4. CASE WriteError \/ ConnectivityDead \/ PeerError \/ DefaultMigrate
  <2>1. connTimer' = FALSE
    BY <1>4 DEF WriteError, ConnectivityDead, PeerError, DefaultMigrate, Disconnect
  <2> QED
    BY <2>1 DEF ConnInv
<1>5. CASE WriteBlocks
  BY <1>5, <1>0 DEF WriteBlocks, ConnInv, WaitingForAck, ackVars, pingVars
<1>6. CASE OnNewDisplayClient \/ OnNewCursorClient \/ OnNewOtherClient \/ DisplayInitDone
  <2>1. phase # "open" /\ connTimer' = connTimer
    BY <1>6 DEF OnNewDisplayClient, OnNewCursorClient, OnNewOtherClient,
                DisplayInitDone, Created, connVars
  <2> QED
    BY <2>1 DEF ConnInv
<1>7. CASE HandleAckSync \/ HandleAck \/ HandleFlushMark \/ HandlePong
  <2>1. /\ phase' = phase /\ connTimer' = connTimer /\ (connTimer => inBytes')
    BY <1>7, <1>0 DEF HandleAckSync, HandleAck, HandleFlushMark, HandlePong, Receive
  <2> QED
    BY <2>1 DEF ConnInv
<1>8. CASE PingTimer
  <2>1. UNCHANGED <<phase, connVars, window>> /\ (blocked => blocked')
    BY <1>8 DEF PingTimer, StartPush, sendVars, ackVars
  <2>2. pingState' = pingState \/ pingState' = "WARMUP"
    BY <1>8 DEF PingTimer, PushPing
  <2> QED
    BY <2>1, <2>2, <1>0 DEF ConnInv, WaitingForAck, connVars
<1>9. CASE StartConnectivityMonitoring
  BY <1>9 DEF StartConnectivityMonitoring, ConnInv
<1>10. CASE ConnectivityAlive
  BY <1>10 DEF ConnectivityAlive, ConnInv, WaitingForAck, sendVars, ackVars, pingVars
<1>11. CASE UNCHANGED vars \/ PushEnds \/ PeerReceive
  <2>1. UNCHANGED <<phase, connVars, window, pingState, blocked>>
    BY <1>11 DEF vars, PushEnds, PeerReceive, sendVars, ackVars, pingVars
  <2> QED
    BY <1>1, <2>1
<1>12. CASE PushSetAck \/ RedPush \/ WriteEvent
  BY <1>12, <1>1 DEF PushSetAck, RedPush, WriteEvent, StartPush, ackVars, pingVars
<1>13. CASE \E k \in ItemKinds : PipeAddPush(k)
  BY <1>13, <1>1 DEF PipeAddPush, StartPush, ackVars, pingVars
<1>14. CASE \E k \in ItemKinds : \E n \in 0 .. Len(pipe) : PipeAdd(k, n)
  BY <1>14, <1>1 DEF PipeAdd, sendVars, ackVars, pingVars
<1>15. CASE \E i \in 1 .. Len(pipe) : PipeRemove(i)
  BY <1>15, <1>1 DEF PipeRemove, sendVars, ackVars, pingVars
<1> QED
  <2>1. CASE Next
    BY <2>1, NextCases, <1>2, <1>3, <1>4, <1>5, <1>6, <1>7, <1>8, <1>9, <1>10,
       <1>11, <1>12, <1>13, <1>14, <1>15
  <2> QED
    BY <1>11, <2>1

\* connectivity_timer never gives up a peer that owes the server nothing: its
\* "mismatch between rcc-state and connectivity-state" is unreachable.
THEOREM NoConnectivityMismatchHolds == Spec => []NoConnectivityMismatch
<1>1. Init => ConnInv
  BY DEF Init, ConnInv
<1>2. ConnInv => NoConnectivityMismatch
  BY DEF ConnInv, NoConnectivityMismatch, ConnIdle
<1> QED
  BY <1>1, <1>2, ConnInductive, TypeOKHolds, PTL DEF Spec
=============================================================================
