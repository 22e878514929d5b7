--------------------------- MODULE RedChannelFlow ---------------------------
(***************************************************************************)
(* RedChannelClient implements AckWindow: the refinement mapping counts, in  *)
(* the two directions of the stream, what belongs to the last SET_ACK begun  *)
(* (the one with generation ack_data.generation).                           *)
(***************************************************************************)
EXTENDS RedChannelClient

\* position in s of the message of type t and generation g, 0 when there is none
Position(s, t, g) == SelectInSeq(s, LAMBDA m : m.type = t /\ m.gen = g)

\* the messages begun and not received, oldest first
OnTheWire == IF out = NoMsg THEN down ELSE Append(down, out)

\* where the last SET_ACK is on the wire, 0 when the peer has received it, and
\* where its answer is, 0 when it is not sent yet or has arrived
SetAckAt == Position(OnTheWire, "SET_ACK", gen)
SyncAt   == Position(up, "ACK_SYNC", gen)

\* the ACKs on their way behind position n
AcksBehind(s, n) == Count(SubSeq(s, n + 1, Len(s)), OfType("ACK"))

Counting == connected /\ gen > 0

flowMode == IF ~connected THEN "gone"
            ELSE IF Counting THEN "counting"
            ELSE IF phase = "open" THEN "open" ELSE "shut"
flowWindow == IF connected /\ phase = "open" THEN window ELSE 0
flowFlying == IF ~Counting THEN 0
              ELSE IF SetAckAt = 0 THEN Len(OnTheWire)
              ELSE Len(OnTheWire) - SetAckAt + 1
flowSetAck == IF Counting /\ SetAckAt # 0 THEN 1 ELSE 0
flowCount  == IF Counting /\ SetAckAt = 0 THEN ackCount ELSE Window
flowAcks   == IF Counting /\ SetAckAt = 0 THEN AcksBehind(up, SyncAt) ELSE 0

Flow == INSTANCE AckWindow WITH
    W <- Window, mode <- flowMode, window <- flowWindow, flying <- flowFlying,
    setAck <- flowSetAck, count <- flowCount, acks <- flowAcks

\* A channel that handles acks follows the flow-control contract: what
\* red_channel_client_push lets out, what SET_ACK resets and what
\* SPICE_MSGC_ACK gives back are steps of AckWindow, whatever the order in which
\* SET_ACK, ACK_SYNC and ACK cross on the stream.  A frame of insert_h264_frame,
\* which counts in messages_window without asking for room, is outside of this.
FlowControlled == Flow!Spec

\* Every unit of messages_window is a message on the wire, one that the peer has
\* counted or part of an ACK on its way, and there are at most two windows and two
\* messages: no SET_ACK that crosses them makes the server lose count.
WindowAccounted == Flow!WindowAccounted
=============================================================================
