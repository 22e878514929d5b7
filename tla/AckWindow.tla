----------------------------- MODULE AckWindow -----------------------------
(***************************************************************************)
(* The flow-control contract between a RedChannelClient that handles acks    *)
(* and its peer, in counters only: the server counts every message it begins *)
(* (ack_data.messages_window), holds back once the count passes two windows, *)
(* and takes a window off the count for every ACK; the peer sends an ACK for *)
(* every window of messages.  A SET_ACK restarts the count on both sides,    *)
(* but not at the same time: what was sent before it is still on the wire.   *)
(* RedChannelClient implements this specification.                          *)
(***************************************************************************)
EXTENDS Integers

CONSTANT W      \* ack_data.client_window: 20 or 40 in the code, never 0

VARIABLES
    mode,       \* "shut" until the window is zeroed, "open" until a SET_ACK is
                \* begun, then "counting"; "gone" once disconnected
    window,     \* ack_data.messages_window
    flying,     \* messages begun and not received, from the last SET_ACK on
    setAck,     \* 1 while that SET_ACK itself is among them, else 0
    count,      \* messages the peer will receive before its next ACK
    acks        \* ACKs on the way that the server will count

vars == <<mode, window, flying, setAck, count, acks>>

Init ==
    /\ mode = "shut" /\ window = 0
    /\ flying = 0 /\ setAck = 0 /\ count = W /\ acks = 0

Open ==
    /\ mode = "shut" /\ mode' = "open"
    /\ UNCHANGED <<window, flying, setAck, count, acks>>

\* red_channel_client_send_set_ack, let through like any other item
SetAck ==
    /\ mode \in {"open", "counting"} /\ window <= 2 * W
    /\ mode' = "counting" /\ window' = 1
    /\ flying' = 1 /\ setAck' = 1 /\ count' = W /\ acks' = 0

\* begin_send_message of an item let through by waiting_for_ack, or of the main
\* message that follows an urgent one without a new look at the window; what is
\* sent before the first SET_ACK is not part of any window
Send ==
    /\ mode \in {"open", "counting"} /\ window <= 2 * W + 1
    /\ window' = window + 1
    /\ flying' = IF mode = "counting" THEN flying + 1 ELSE flying
    /\ UNCHANGED <<mode, setAck, count, acks>>

\* the peer receives the SET_ACK
DeliverSetAck ==
    /\ setAck = 1
    /\ setAck' = 0 /\ flying' = flying - 1
    /\ UNCHANGED <<mode, window, count, acks>>

\* the peer receives another message
Deliver ==
    /\ setAck = 0 /\ flying > 0
    /\ flying' = flying - 1
    /\ IF count = 1 THEN count' = W /\ acks' = acks + 1
                    ELSE count' = count - 1 /\ UNCHANGED acks
    /\ UNCHANGED <<mode, window, setAck>>

\* the server receives an ACK it counts
Ack ==
    /\ acks > 0
    /\ acks' = acks - 1
    /\ window' = window - W
    /\ UNCHANGED <<mode, flying, setAck, count>>

\* the connection is gone
Close ==
    /\ mode # "gone" /\ mode' = "gone"
    /\ window' = 0
    /\ flying' = 0 /\ setAck' = 0 /\ count' = W /\ acks' = 0

Next == Open \/ SetAck \/ Send \/ DeliverSetAck \/ Deliver \/ Ack \/ Close

Spec == Init /\ [][Next]_vars

TypeOK ==
    /\ mode \in {"shut", "open", "counting", "gone"}
    /\ window \in Int /\ flying \in Nat /\ setAck \in {0, 1}
    /\ count \in 1 .. W /\ acks \in Nat

\* Every unit of the window is accounted for: a message on the wire, a message
\* the peer has counted towards its next ACK, a window whose ACK is on the way,
\* and the SET_ACK itself, which the peer never counts.
Accounting ==
    IF mode = "counting"
    THEN window = flying + (W - count) + W * acks + (1 - setAck) /\ setAck <= flying
    ELSE flying = 0 /\ setAck = 0 /\ acks = 0

Bounded == window >= 0 /\ window <= 2 * W + 2

WindowAccounted == TypeOK /\ Accounting /\ Bounded

\* Taking an ACK off messages_window never goes below zero.
NoUnderflow == acks > 0 => window >= W

\* However slow the peer, at most two windows and two messages are on the wire.
InFlightBounded == flying <= 2 * W + 2
=============================================================================
