--------------------------- MODULE MCChannelInbox ---------------------------
(* Instances of ChannelInbox for TLC. *)
EXTENDS ChannelInbox
=============================================================================
