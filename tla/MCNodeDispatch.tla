---------------------------- MODULE MCNodeDispatch ----------------------------
(* Instances of NodeDispatch for TLC. *)
EXTENDS NodeDispatch
=============================================================================
