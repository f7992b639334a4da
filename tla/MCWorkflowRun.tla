--------------------------- MODULE MCWorkflowRun ---------------------------
(* Instances of WorkflowRun for TLC. *)
EXTENDS WorkflowRun

\* Step 1 is always allowed; step 2 may be allowed, denied or need an approval.
MixedPolicy == [s \in Steps |-> IF s = 2 THEN Decisions ELSE {"allow"}]

\* Step 1 is allowed, step 2 needs an approval or is denied.
GatedLast == [s \in Steps |-> IF s = 2 THEN {"deny", "require_approval"} ELSE {"allow"}]
=============================================================================
