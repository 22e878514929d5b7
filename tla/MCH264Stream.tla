---------------------------- MODULE MCH264Stream ----------------------------
(* Instances of H264Stream for TLC: a second of a few units, of which the pace  *)
(* is one.                                                                    *)
EXTENDS H264Stream, TLC

Uses(n, off, o, d) == [clients |-> n, avcOff |-> off, others |-> o, destroys |-> d]

PicturesOnly == {Uses(1, FALSE, 0, 0)}

\* One client with everything that may happen, or two that only get pictures.
Shared == {Uses(1, TRUE, 1, 1), Uses(1, FALSE, 1, 1), Uses(2, FALSE, 0, 0)}

WithOthers == {Uses(1, FALSE, 1, 0)}

Symmetry == Permutations(Clients)
=============================================================================
