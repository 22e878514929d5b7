-------------------------- MODULE AckWindow_proofs --------------------------
(* Proofs about AckWindow, for every window size. *)
EXTENDS AckWindow, TLAPS

\* W more for one more ACK on the way
LEMMA WindowTimes ==
    ASSUME W \in Nat \ {0}, NEW n \in Int
    PROVE  /\ W * (n + 1) = W * n + W
           /\ W * (n - 1) = W * n - W
BY SMT

\* A window of acknowledged messages is never negative
LEMMA WindowTimesNat ==
    ASSUME W \in Nat \ {0}, NEW n \in Nat
    PROVE  /\ W * n \in Nat
           /\ n > 0 => W * n >= W
<1>1. W * n \in Nat
  BY SMT
<1>2. ASSUME n > 0 PROVE W * n >= W
  <2>1. n - 1 \in Nat
    BY <1>2
  <2>2. W * (n - 1) \in Nat
    BY <2>1, SMT
  <2>3. W * n = W * (n - 1) + W
    BY WindowTimes, SMT
  <2> QED
    BY <2>2, <2>3
<1> QED
  BY <1>1, <1>2

\* The accounting is inductive
LEMMA InvInductive ==
    ASSUME W \in Nat \ {0}
    PROVE  WindowAccounted /\ [Next]_vars => WindowAccounted'
<1> SUFFICES ASSUME WindowAccounted, [Next]_vars PROVE WindowAccounted'
  OBVIOUS
<1> USE DEF WindowAccounted, TypeOK, Accounting, Bounded
<1>1. CASE Open
  BY <1>1 DEF Open
<1>2. CASE SetAck
  <2>1. W * 0 = 0
    BY SMT
  <2> QED
    BY <1>2, <2>1 DEF SetAck
<1>3. CASE Send
  BY <1>3 DEF Send
<1>4. CASE DeliverSetAck
  BY <1>4 DEF DeliverSetAck
<1>5. CASE Deliver
  <2>1. mode = "counting"
    BY <1>5 DEF Deliver
  <2>2. CASE count = 1
    <3>1. W * (acks + 1) = W * acks + W
      BY WindowTimes
    <3> QED
      BY <1>5, <2>1, <2>2, <3>1, WindowTimesNat DEF Deliver
  <2>3. CASE count # 1
    BY <1>5, <2>1, <2>3 DEF Deliver
  <2> QED
    BY <2>2, <2>3
<1>6. CASE Ack
  <2>1. mode = "counting"
    BY <1>6 DEF Ack
  <2>2. W * (acks - 1) = W * acks - W
    BY WindowTimes
  <2>3. acks - 1 \in Nat /\ W * (acks - 1) \in Nat
    BY <1>6, WindowTimesNat DEF Ack
  <2> QED
    BY <1>6, <2>1, <2>2, <2>3 DEF Ack
<1>7. CASE Close
  BY <1>7 DEF Close
<1>8. CASE UNCHANGED vars
  BY <1>8 DEF vars
<1> QED
  BY <1>1, <1>2, <1>3, <1>4, <1>5, <1>6, <1>7, <1>8 DEF Next

\* The accounting of the ack window holds in every state
THEOREM AccountingHolds ==
    ASSUME W \in Nat \ {0}
    PROVE  Spec => []WindowAccounted
<1>1. Init => WindowAccounted
  BY DEF Init, WindowAccounted, TypeOK, Accounting, Bounded
<1> QED
  BY <1>1, InvInductive, PTL DEF Spec

\* messages_window, an unsigned counter in the code, never goes below zero
THEOREM NoUnderflowHolds ==
    ASSUME W \in Nat \ {0}
    PROVE  Spec => []NoUnderflow
<1>1. WindowAccounted => NoUnderflow
  <2> SUFFICES ASSUME WindowAccounted, acks > 0 PROVE window >= W
    BY DEF NoUnderflow
  <2>1. mode = "counting" /\ acks \in Nat
    BY DEF WindowAccounted, TypeOK, Accounting
  <2>2. W * acks >= W
    BY <2>1, WindowTimesNat
  <2> QED
    BY <2>1, <2>2, WindowTimesNat DEF WindowAccounted, TypeOK, Accounting
<1> QED
  BY <1>1, AccountingHolds, PTL

\* The peer can be at most two windows and two messages behind
THEOREM InFlightBoundedHolds ==
    ASSUME W \in Nat \ {0}
    PROVE  Spec => []InFlightBounded
<1>1. WindowAccounted => InFlightBounded
  <2> SUFFICES ASSUME WindowAccounted, mode = "counting" PROVE flying <= 2 * W + 2
    BY DEF WindowAccounted, TypeOK, Accounting, InFlightBounded
  <2>1. W * acks \in Nat
    BY WindowTimesNat DEF WindowAccounted, TypeOK
  <2> QED
    BY <2>1 DEF WindowAccounted, TypeOK, Accounting, Bounded
<1> QED
  BY <1>1, AccountingHolds, PTL
=============================================================================
