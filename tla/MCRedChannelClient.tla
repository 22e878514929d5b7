------------------------- MODULE MCRedChannelClient -------------------------
(* Instances of RedChannelClient for TLC: constants are given in the .cfg     *)
(* files, one per kind of channel.                                           *)
EXTENDS RedChannelFlow

=============================================================================
