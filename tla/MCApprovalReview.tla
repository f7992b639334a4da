-------------------------- MODULE MCApprovalReview --------------------------
(* Instances of ApprovalReview for TLC. *)
EXTENDS ApprovalReview

\* Every kind of work an approval may block
AllOrigins == {"paused", "tool", "awaited"}
=============================================================================
