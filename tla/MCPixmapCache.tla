---------------------------- MODULE MCPixmapCache ----------------------------
(* Two display channels of a client, as with two QXL devices.  The         *)
(* channels, and images of one size, may be exchanged for each other.      *)
EXTENDS PixmapCache, TLC

Symmetry == Permutations(Channels) \cup Permutations(Images \ Big)

(* Two channels with messages of one image, or one channel with everything. *)
OrderedModes == [mini : BOOLEAN, jpeg : {FALSE}, users : {Channels}, calls : {1}]
                \cup [mini : BOOLEAN, jpeg : BOOLEAN, users : {{c} : c \in Channels}, calls : {2}]

(* Two channels with mini headers, the default of spice-gtk.               *)
MiniModes == [mini : {TRUE}, jpeg : {FALSE}, users : {Channels}, calls : {1}]

(* Two channels of a client on a slow network.                             *)
LossyModes == [mini : {FALSE}, jpeg : {TRUE}, users : {Channels}, calls : {1}]
=============================================================================
