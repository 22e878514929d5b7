---------------------------- MODULE H264Pacing ----------------------------
(***************************************************************************)
(* The two tests on struct timeval with which the worker paces H264 frames   *)
(* (server/red_worker.c).  They compare seconds and microseconds field by    *)
(* field; Elapsed is what they are meant to compare.                        *)
(***************************************************************************)
EXTENDS Integers

CONSTANTS
    Second,     \* microseconds in a second: 1000000
    Pace        \* 33000: frames closer than this are dropped

ASSUME PacingAssumption ==
    Second \in Nat /\ Pace \in Nat /\ Pace < Second

Times == [sec : Nat, usec : 0 .. Second - 1]

Epoch == [sec |-> 0, usec |-> 0]

\* ... that forgets a frame sent in the second before
PacedSameSecond(time, last) == time.sec = last.sec /\ time.usec - last.usec <= Pace

\* red_marshall_stream_h264_data drops the frame
Paced(time, last) ==
    \/ time.sec = last.sec /\ time.usec - last.usec <= Pace
    \/ time.sec = last.sec + 1 /\ time.usec + Second - last.usec <= Pace

\* ... that looks at the next second only
InsertDueNextSecond(time, last) == time.sec = last.sec + 1 /\ time.usec >= last.usec

\* red_worker_main: the last frame sent is old enough to insert one
InsertDue(time, last) ==
    \/ time.sec >= last.sec + 2
    \/ time.sec = last.sec + 1 /\ time.usec >= last.usec

Elapsed(time, last) == (time.sec - last.sec) * Second + (time.usec - last.usec)
=============================================================================
