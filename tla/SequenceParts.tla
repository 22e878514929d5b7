---------------------------- MODULE SequenceParts ----------------------------
(***************************************************************************)
(* The elements of a sequence that belong to a set: which they are and how   *)
(* many.  They are defined by their positions, so that one can reason about  *)
(* pipes, rings and queues of any length.                                    *)
(***************************************************************************)
EXTENDS Integers, Sequences, FiniteSets

\* the elements of s that are in S, in the order they have in s
Kept(s, S) ==
    LET at     == {i \in DOMAIN s : s[i] \in S}
        Nth(k) == CHOOSE i \in at : Cardinality({j \in at : j <= i}) = k
    IN  [k \in 1 .. Cardinality(at) |-> s[Nth(k)]]

\* how many elements of s are in S
Count(s, S) == Cardinality({i \in DOMAIN s : s[i] \in S})
One(b) == IF b THEN 1 ELSE 0
=============================================================================
