---------------------------- MODULE MCTurnRunner ----------------------------
(* Instances of TurnRunner for TLC. *)
EXTENDS TurnRunner
=============================================================================
