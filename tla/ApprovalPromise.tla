-------------------------- MODULE ApprovalPromise --------------------------
(***************************************************************************)
(* What an approval promises to the work it blocks: it is decided once,    *)
(* the decision stands, and the blocked work is resumed or cancelled only  *)
(* after the decision, in the way the decision calls for.                  *)
(***************************************************************************)

VARIABLES
    outcome,   \* the decision, "none" before the approval is requested
    effect     \* what was done to the blocked work

Outcomes == {"approved", "denied", "expired"}

Init == outcome = "none" /\ effect = "none"

Request == outcome = "none" /\ outcome' = "pending" /\ UNCHANGED effect

Resolve == outcome = "pending" /\ outcome' \in Outcomes /\ UNCHANGED effect

\* Denied work is cancelled, or resumed to be told of the denial.
Apply ==
    /\ effect = "none"
    /\ \/ outcome = "approved" /\ effect' = "resume"
       \/ outcome = "denied" /\ effect' \in {"resume", "cancel"}
    /\ UNCHANGED outcome

Next == Request \/ Resolve \/ Apply

Spec == Init /\ [][Next]_<<outcome, effect>>
=============================================================================
