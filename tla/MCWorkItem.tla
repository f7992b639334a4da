----------------------------- MODULE MCWorkItem -----------------------------
(* A small instance of WorkItem for TLC. *)
EXTENDS WorkItem
MCMaxEvents == [n \in 0..NTasks |-> CASE n = 0 -> 0 [] n = 1 -> 2 [] OTHER -> 1]
MCNoEvents == [n \in 0..NTasks |-> 0]
=============================================================================
