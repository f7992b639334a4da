--------------------------- MODULE MCChannelOutbox ---------------------------
(* Instances of ChannelOutbox for TLC. *)
EXTENDS ChannelOutbox
=============================================================================
