------------------------- MODULE WorkflowRunProofs -------------------------
(***************************************************************************)
(* Theorems about WorkflowRun, for every set of workers, plan, number of   *)
(* attempts and policy, and for every number of faults.  The first part    *)
(* holds whatever happens, the second until the first fault, and the last  *)
(* one is the refinement of RunPromise, which says what holds before and   *)
(* what after it.                                                          *)
(***************************************************************************)
EXTENDS WorkflowRun, FiniteSetTheorems, TLAPS

-----------------------------------------------------------------------------
(* What the helpers produce.                                               *)

\* Steps are the numbers up to MaxSteps, 0 stands for no step.
LEMMA StepNumbers ==
    /\ MaxSteps \in Nat
    /\ 0 \in 0..MaxSteps
    /\ \A s \in Steps : s \in 0..MaxSteps /\ s \in Nat /\ s # 0
    BY WorkflowAssumption DEF Steps

\* Closing the steps of a run (failRunTx, cancelWorkflowRun) leaves none open and keeps
\* the statuses in their type.
LEMMA CloseStepsResult ==
    ASSUME TypeOK, NEW s \in 0..MaxSteps, NEW own \in Terminal
    PROVE  /\ CloseSteps(s, own) \in [Steps -> {"none"} \cup Open \cup Terminal]
           /\ \A t \in Steps : CloseSteps(s, own)[t] \notin Open
    BY DEF CloseSteps, TypeOK, Open, Terminal

\* Pausing keeps the approvals well formed.
LEMMA PauseRunType ==
    ASSUME TypeOK, NEW s \in Steps, NEW k \in Kinds, NEW llm \in BOOLEAN, PauseRun(s, k, llm)
    PROVE  /\ runStatus' = "paused"
           /\ leaseOwner' = NoOwner
           /\ leaseExpired' = FALSE
           /\ blockedReason' \in {"none", "budget", "policy", "approval"}
           /\ approval' \in [Steps -> [Kinds -> Approval]]
           /\ latestApproval' \in [Steps -> {"none"} \cup Kinds]
<1>1. [status |-> "pending", llm |-> llm, action |-> "none"] \in Approval
  BY DEF Approval, ApprovalStatus, EngineAction
<1>2. approval' \in [Steps -> [Kinds -> Approval]]
  <2>1. approval \in [Steps -> [Kinds -> Approval]]
    BY DEF TypeOK
  <2>2. CASE approval' = [approval EXCEPT ![s][k] = [status |-> "pending", llm |-> llm,
                                                     action |-> "none"]]
    BY <1>1, <2>1, <2>2
  <2>3. CASE approval' = approval
    BY <2>1, <2>3
  <2> QED
    BY <2>2, <2>3 DEF PauseRun, approvalVars
<1>3. latestApproval' \in [Steps -> {"none"} \cup Kinds]
  BY DEF PauseRun, TypeOK, approvalVars
<1>4. PauseReason(k) \in {"none", "budget", "policy", "approval"}
  BY DEF PauseReason
<1> QED
  BY <1>2, <1>3, <1>4 DEF PauseRun, ClearLease

\* A worker that executes has a claim on a step of the plan.
LEMMA ExecutingStep ==
    ASSUME TypeOK, NEW w \in Workers, Executing(w)
    PROVE  claim[w].step \in Steps /\ claim[w].step \in 0..MaxSteps /\ claim[w].attempt \in Nat
    BY StepNumbers DEF TypeOK, Executing, Claim
-----------------------------------------------------------------------------
(* Type correctness.                                                       *)

LEMMA TypeInit == Init => TypeOK
<1> SUFFICES ASSUME Init PROVE TypeOK
  OBVIOUS
<1>1. NoApproval \in Approval
  BY DEF NoApproval, Approval, ApprovalStatus, EngineAction
<1>2. Idle \in Claim
  BY StepNumbers DEF Idle, Claim
<1>3. stepStatus \in [Steps -> {"none"} \cup Open \cup Terminal]
  BY DEF Init
<1>4. approval \in [Steps -> [Kinds -> Approval]]
  BY <1>1 DEF Init
<1>5. claim \in [Workers -> Claim]
  BY <1>2 DEF Init
<1>6. applied \in SUBSET (Steps \X Kinds) /\ faults \in Nat
  BY DEF Init
<1> QED
  BY <1>3, <1>4, <1>5, <1>6, StepNumbers DEF Init, TypeOK

\* The claiming transaction keeps the types.
LEMMA TypeClaim ==
    ASSUME TypeOK, NEW w \in Workers, NEW s \in Steps,
           \/ RecoverExhausted(w, s)
           \/ RecoverNeedsApproval(w, s)
           \/ ClaimBudgetPause(w, s)
           \/ ClaimPolicyDenied(w, s)
           \/ ClaimPolicyPause(w, s)
           \/ ClaimWorkspaceBusy(w, s)
           \/ StartStep(w, s)
    PROVE  TypeOK'
<1> USE DEF runVars, budgetVars, stepVars, approvalVars, workerVars, historyVars
<1>1. CASE RecoverExhausted(w, s) \/ ClaimPolicyDenied(w, s)
  <2>1. CloseSteps(s, "failed") \in [Steps -> {"none"} \cup Open \cup Terminal]
    BY CloseStepsResult, StepNumbers DEF Terminal
  <2> QED
    BY <1>1, <2>1 DEF RecoverExhausted, ClaimPolicyDenied, FailRun, ClearLease, TypeOK, Terminal
<1>2. CASE RecoverNeedsApproval(w, s)
  BY <1>2, PauseRunType DEF RecoverNeedsApproval, TypeOK, Live, Kinds
<1>3. CASE ClaimBudgetPause(w, s)
  BY <1>3, PauseRunType DEF ClaimBudgetPause, TypeOK, Live, Kinds, Open
<1>4. CASE ClaimPolicyPause(w, s)
  BY <1>4, PauseRunType DEF ClaimPolicyPause, TypeOK, Live, Kinds, Open
<1>5. CASE ClaimWorkspaceBusy(w, s)
  BY <1>5 DEF ClaimWorkspaceBusy, TypeOK, Open
<1>6. CASE StartStep(w, s)
  <2>1. [step |-> s, attempt |-> attemptCount[s] + 1] \in Claim
    BY StepNumbers DEF TypeOK, Claim
  <2>2. claim' \in [Workers -> Claim]
    BY <1>6, <2>1 DEF StartStep, TypeOK
  <2>3. attemptCount' \in [Steps -> Nat]
    BY <1>6 DEF StartStep, TypeOK
  <2>4. stepStatus' \in [Steps -> {"none"} \cup Open \cup Terminal]
    BY <1>6 DEF StartStep, TypeOK, Open
  <2> QED
    BY <1>6, <2>2, <2>3, <2>4 DEF StartStep, TypeOK, Live
<1> QED
  BY <1>1, <1>2, <1>3, <1>4, <1>5, <1>6

\* Recording the outcome of a step keeps the types.
LEMMA TypeFinish ==
    ASSUME TypeOK, NEW w \in Workers,
           \/ FinishDiscarded(w)
           \/ FinishSucceeded(w)
           \/ FinishRetry(w)
           \/ FinishFailed(w)
           \/ FinishPaused(w)
           \/ LoseClaim(w)
           \/ Crash(w)
    PROVE  TypeOK'
<1> USE DEF runVars, budgetVars, stepVars, approvalVars, historyVars
<1>1. claim' \in [Workers -> Claim] /\ crashed' \subseteq Workers
  <2>1. Idle \in Claim
    BY StepNumbers DEF Idle, Claim
  <2> QED
    BY <2>1 DEF TypeOK, FinishDiscarded, FinishSucceeded, FinishRetry, FinishFailed,
                FinishPaused, LoseClaim, Crash, Finishing
<1>2. CASE FinishDiscarded(w) \/ LoseClaim(w) \/ Crash(w)
  BY <1>1, <1>2 DEF FinishDiscarded, LoseClaim, Crash, TypeOK
<1>3. CASE FinishSucceeded(w)
  BY <1>1, <1>3 DEF FinishSucceeded, StatusAfterSuccess, ClearLease, TypeOK, Terminal, Live
<1>4. CASE FinishRetry(w)
  BY <1>1, <1>4 DEF FinishRetry, ClearLease, TypeOK, Open, Live
<1>5. CASE FinishFailed(w)
  <2>1. CloseSteps(claim[w].step, "failed") \in [Steps -> {"none"} \cup Open \cup Terminal]
    BY <1>5, ExecutingStep, CloseStepsResult DEF FinishFailed, Finishing, Terminal
  <2> QED
    BY <1>1, <1>5, <2>1 DEF FinishFailed, FailRun, ClearLease, TypeOK, Terminal
<1>6. CASE FinishPaused(w)
  <2>1. claim[w].step \in Steps
    BY <1>6, ExecutingStep DEF FinishPaused, Finishing
  <2>2. PICK k \in Kinds, llm \in BOOLEAN : PauseRun(claim[w].step, k, llm)
    BY <1>6 DEF FinishPaused
  <2>3. /\ runStatus' = "paused"
        /\ leaseOwner' = NoOwner
        /\ leaseExpired' = FALSE
        /\ blockedReason' \in {"none", "budget", "policy", "approval"}
        /\ approval' \in [Steps -> [Kinds -> Approval]]
        /\ latestApproval' \in [Steps -> {"none"} \cup Kinds]
    BY <2>1, <2>2, PauseRunType
  <2>4. stepStatus' \in [Steps -> {"none"} \cup Open \cup Terminal]
    BY <1>6 DEF FinishPaused, TypeOK, Open
  <2> QED
    BY <1>1, <1>6, <2>3, <2>4 DEF FinishPaused, TypeOK, Live
<1> QED
  BY <1>2, <1>3, <1>4, <1>5, <1>6

\* The engine and the clients do the same with a decision: the approval is noted, and a run
\* that is not over is resumed or cancelled.
LEMMA DecisionReaches ==
    ASSUME NEW s \in Steps, NEW k \in Kinds, EngineApplies(s, k) \/ ClientResume(s, k)
    PROVE  /\ Applied(s, k)
           /\ runStatus \in Terminal => UNCHANGED <<runVars, budgetVars, stepVars>>
           /\ runStatus \notin Terminal => (ShouldResume(s, k) /\ Requeue(s)) \/ CancelRun
           /\ UNCHANGED <<latestApproval, claim, crashed>>
           /\ \/ approval' = [approval EXCEPT ![s][k] = [@ EXCEPT !.action = "done"]]
              \/ approval' = approval
  BY DEF EngineApplies, ClientResume, ExecuteAction, PresentToken, approvalVars, workerVars

\* Applying a decision to the run and its steps keeps their types.
LEMMA TypeApply ==
    ASSUME TypeOK, NEW s \in Steps, NEW k \in Kinds, EngineApplies(s, k) \/ ClientResume(s, k)
    PROVE  /\ runStatus' \in {"none"} \cup Live \cup Terminal
           /\ numSteps' = numSteps
           /\ leaseOwner' \in Workers \cup {NoOwner}
           /\ leaseExpired' \in BOOLEAN
           /\ blockedReason' \in {"none", "budget", "policy", "approval"}
           /\ overBudget' = overBudget
           /\ budgetOverridden' \in BOOLEAN
           /\ stepStatus' \in [Steps -> {"none"} \cup Open \cup Terminal]
           /\ attemptCount' = attemptCount
           /\ applied' \subseteq Steps \X Kinds
           /\ faults' \in Nat
<1> USE DEF runVars, budgetVars, stepVars
<1>h. applied' \subseteq Steps \X Kinds /\ faults' \in Nat
  BY DecisionReaches DEF Applied, TypeOK
<1>1. CASE runStatus \in Terminal
  BY <1>1, <1>h, DecisionReaches DEF TypeOK
<1>2. CASE runStatus \notin Terminal /\ Requeue(s)
  BY <1>2, <1>h DEF Requeue, LiftsBudget, ClearLease, TypeOK, Live, Open
<1>3. CASE runStatus \notin Terminal /\ CancelRun
  <2>1. CloseSteps(0, "cancelled") \in [Steps -> {"none"} \cup Open \cup Terminal]
    BY CloseStepsResult, StepNumbers DEF Terminal
  <2> QED
    BY <1>3, <1>h, <2>1 DEF CancelRun, ClearLease, TypeOK, Terminal
<1> QED
  BY <1>1, <1>2, <1>3, DecisionReaches

\* Deciding, expiring and applying an approval keeps the approvals well formed.
LEMMA TypeApproval ==
    ASSUME TypeOK, NEW s \in Steps, NEW k \in Kinds,
           \/ \E d \in {"approved", "denied"} : Decide(s, k, d)
           \/ Expire(s, k)
           \/ EngineApplies(s, k)
    PROVE  approval' \in [Steps -> [Kinds -> Approval]]
<1> DEFINE a == approval[s][k]
<1>1. a \in Approval
  BY DEF TypeOK
<1>2. \A x \in Approval : [approval EXCEPT ![s][k] = x] \in [Steps -> [Kinds -> Approval]]
  BY DEF TypeOK
<1>3. CASE \E d \in {"approved", "denied"} : Decide(s, k, d)
  <2>1. PICK d \in {"approved", "denied"} : Decide(s, k, d)
    BY <1>3
  <2> DEFINE x == [a EXCEPT !.status = d,
                            !.action = IF d = "approved" \/ a.llm THEN "resume" ELSE "cancel"]
  <2>2. x \in Approval
    BY <1>1 DEF Approval, ApprovalStatus, EngineAction
  <2>3. approval' = [approval EXCEPT ![s][k] = x]
    BY <2>1 DEF Decide, TypeOK
  <2> QED
    BY <2>2, <2>3, <1>2
<1>4. CASE Expire(s, k)
  <2>1. [a EXCEPT !.status = "expired"] \in Approval
    BY <1>1 DEF Approval, ApprovalStatus
  <2>2. approval' = [approval EXCEPT ![s][k] = [a EXCEPT !.status = "expired"]]
    BY <1>4 DEF Expire, TypeOK
  <2> QED
    BY <2>1, <2>2, <1>2
<1>5. CASE EngineApplies(s, k)
  <2>1. [a EXCEPT !.action = "done"] \in Approval
    BY <1>1 DEF Approval, EngineAction
  <2>2. \/ approval' = [approval EXCEPT ![s][k] = [a EXCEPT !.action = "done"]]
        \/ approval' = approval
    BY <1>5 DEF EngineApplies, TypeOK
  <2> QED
    BY <2>1, <2>2, <1>2 DEF TypeOK
<1> QED
  BY <1>3, <1>4, <1>5

\* The disjuncts of Next, flattened: the proofs below have one case for each.
LEMMA NextCases ==
    ASSUME Next
    PROVE  \/ \E w \in Workers : ClaimNothingLeft(w)
           \/ \E w \in Workers, s \in Steps :
                 \/ RecoverExhausted(w, s)
                 \/ RecoverNeedsApproval(w, s)
                 \/ ClaimBudgetPause(w, s)
                 \/ ClaimPolicyDenied(w, s)
                 \/ ClaimPolicyPause(w, s)
                 \/ ClaimWorkspaceBusy(w, s)
                 \/ StartStep(w, s)
           \/ \E w \in Workers :
                 \/ FinishDiscarded(w)
                 \/ FinishSucceeded(w)
                 \/ FinishRetry(w)
                 \/ FinishFailed(w)
                 \/ FinishPaused(w)
                 \/ LoseClaim(w)
                 \/ Crash(w)
           \/ \E s \in Steps, k \in Kinds :
                 \/ \E d \in {"approved", "denied"} : Decide(s, k, d)
                 \/ Expire(s, k)
                 \/ EngineApplies(s, k)
                 \/ ClientResume(s, k)
           \/ ClientCancel
           \/ \E n \in StepCounts : CreateRun(n)
           \/ LeaseExpires
           \/ BudgetElapses
  BY DEF Next, WorkerStep, WorkspaceContention, EngineStep, Environment

\* Every step of the specification keeps the types.
LEMMA TypeNext == TypeOK /\ [Next]_vars => TypeOK'
<1> SUFFICES ASSUME TypeOK, [Next]_vars PROVE TypeOK'
  OBVIOUS
<1> USE DEF runVars, budgetVars, stepVars, approvalVars, workerVars, historyVars
<1>1. CASE UNCHANGED vars
  BY <1>1 DEF vars, TypeOK
<1>2. ASSUME NEW w \in Workers, ClaimNothingLeft(w) PROVE TypeOK'
  BY <1>2 DEF ClaimNothingLeft, ClearLease, TypeOK, Terminal
<1>3. ASSUME NEW s \in Steps, NEW k \in Kinds,
             \/ \E d \in {"approved", "denied"} : Decide(s, k, d)
             \/ Expire(s, k)
      PROVE  TypeOK'
  <2>1. approval' \in [Steps -> [Kinds -> Approval]]
    BY <1>3, TypeApproval
  <2> QED
    BY <1>3, <2>1 DEF Decide, Expire, TypeOK
<1>4. ASSUME NEW s \in Steps, NEW k \in Kinds, EngineApplies(s, k) \/ ClientResume(s, k)
      PROVE  TypeOK'
  <2>2. approval' \in [Steps -> [Kinds -> Approval]]
    BY <1>4, TypeApproval DEF ClientResume, TypeOK
  <2>3. UNCHANGED <<latestApproval, claim, crashed>>
    BY <1>4, DecisionReaches
  <2> QED
    BY <1>4, <2>2, <2>3, TypeApply DEF TypeOK
<1>5. CASE ClientCancel
  <2>1. CloseSteps(0, "cancelled") \in [Steps -> {"none"} \cup Open \cup Terminal]
    BY CloseStepsResult, StepNumbers DEF Terminal
  <2> QED
    BY <1>5, <2>1 DEF ClientCancel, CancelRun, ClearLease, TypeOK, Terminal
<1>6. ASSUME NEW n \in StepCounts, CreateRun(n) PROVE TypeOK'
  <2>1. n \in 0..MaxSteps
    BY WorkflowAssumption
  <2>2. stepStatus' \in [Steps -> {"none"} \cup Open \cup Terminal]
    BY <1>6 DEF CreateRun, Open
  <2> QED
    BY <1>6, <2>1, <2>2 DEF CreateRun, TypeOK, Live
<1>7. CASE LeaseExpires \/ BudgetElapses
  <2>1. faults' \in Nat
    BY <1>7 DEF LeaseExpires, BudgetElapses, TypeOK
  <2> QED
    BY <1>7, <2>1 DEF LeaseExpires, BudgetElapses, TypeOK
<1> QED
  BY <1>1, <1>2, <1>3, <1>4, <1>5, <1>6, <1>7, NextCases, TypeClaim, TypeFinish

\* Type correctness of every reachable state of the run, its steps, its approvals and its
\* workers.
THEOREM TypeCorrect == Spec => []TypeOK
  BY TypeInit, TypeNext, PTL DEF Spec

-----------------------------------------------------------------------------
(* What holds under every fault: crashes, lapsed leases, repeated resumes. *)

\* A run that does not exist has no steps and no history.
NothingBeforeCreation == runStatus = "none" => numSteps = 0 /\ applied = {} /\ faults = 0

\* The inductive invariant: the three properties, and that a run has no past, without which
\* an outcome could be recorded for a run that does not exist.
FaultInv ==
    /\ TypeOK
    /\ LeaseIffRunning
    /\ ClosedRunHasNoOpenStep
    /\ LastStepOpen
    /\ NothingBeforeCreation

LEMMA FaultInit == Init => FaultInv
<1> SUFFICES ASSUME Init PROVE FaultInv
  OBVIOUS
<1>1. TypeOK
  BY TypeInit
<1> QED
  BY <1>1 DEF Init, FaultInv, LeaseIffRunning, ClosedRunHasNoOpenStep, LastStepOpen, Live,
               NothingBeforeCreation

\* What a step may do to a live run that keeps it live: the last step stays open.
LEMMA FaultNext == FaultInv /\ [Next]_vars => FaultInv'
<1> SUFFICES ASSUME FaultInv, [Next]_vars PROVE FaultInv'
  OBVIOUS
<1>t. TypeOK /\ TypeOK'
  BY TypeNext DEF FaultInv
<1>n. numSteps \in Nat /\ (numSteps > 0 => numSteps \in Steps)
  BY <1>t, StepNumbers DEF TypeOK, Steps
<1> DEFINE Rest == /\ LeaseIffRunning
                   /\ ClosedRunHasNoOpenStep
                   /\ LastStepOpen
                   /\ NothingBeforeCreation
<1>r. Rest
  BY DEF FaultInv
<1> SUFFICES Rest'
  BY <1>t DEF FaultInv
<1> USE DEF LeaseIffRunning, ClosedRunHasNoOpenStep, LastStepOpen, NothingBeforeCreation,
            runVars, stepVars, historyVars, ClearLease
\* A run that is closed leaves no open step.
<1>close. ASSUME NEW s \in 0..MaxSteps, NEW own \in Terminal,
                 stepStatus' = CloseSteps(s, own), ClearLease,
                 runStatus' \in {"failed", "cancelled"}, numSteps' = numSteps
          PROVE  Rest'
  BY <1>close, <1>t, CloseStepsResult DEF Live
\* A step of the claiming transaction or an outcome that leaves every step but one as it
\* is, and that one open.
<1>open. ASSUME NEW s \in Steps, NEW st \in Open,
                runStatus' \in Live, numSteps' = numSteps,
                stepStatus' = [stepStatus EXCEPT ![s] = st],
                leaseOwner' # NoOwner <=> runStatus' = "running",
                runStatus \in Live \/ runStatus = "none"
         PROVE  Rest'
  BY <1>open, <1>t, <1>n, <1>r DEF TypeOK, Live, Open
<1>1. CASE UNCHANGED vars
  BY <1>1, <1>r DEF vars
<1>2. ASSUME NEW w \in Workers, ClaimNothingLeft(w) PROVE Rest'
  BY <1>2 DEF ClaimNothingLeft, Live
<1>3. ASSUME NEW w \in Workers, NEW s \in Steps,
             RecoverExhausted(w, s) \/ ClaimPolicyDenied(w, s)
      PROVE  Rest'
  BY <1>3, <1>close, StepNumbers DEF RecoverExhausted, ClaimPolicyDenied, FailRun, Terminal
<1>4. ASSUME NEW w \in Workers, NEW s \in Steps, RecoverNeedsApproval(w, s)
      PROVE  Rest'
  BY <1>4, <1>r DEF RecoverNeedsApproval, PauseRun, Claimable, Live
<1>5. ASSUME NEW w \in Workers, NEW s \in Steps,
             ClaimBudgetPause(w, s) \/ ClaimPolicyPause(w, s)
      PROVE  Rest'
  BY <1>5, <1>open DEF ClaimBudgetPause, ClaimPolicyPause, PauseRun, Startable, Claimable,
                       Live, Open
<1>6. ASSUME NEW w \in Workers, NEW s \in Steps, ClaimWorkspaceBusy(w, s)
      PROVE  Rest'
  BY <1>6, <1>open, <1>r DEF ClaimWorkspaceBusy, Startable, Claimable, Live, Open
<1>7. ASSUME NEW w \in Workers, NEW s \in Steps, StartStep(w, s)
      PROVE  Rest'
  BY <1>7, <1>open, WorkflowAssumption DEF StartStep, Startable, Claimable, Live, Open
<1>8. ASSUME NEW w \in Workers, FinishDiscarded(w) \/ LoseClaim(w) \/ Crash(w)
      PROVE  Rest'
  BY <1>8, <1>r DEF FinishDiscarded, LoseClaim, Crash
<1>9. ASSUME NEW w \in Workers, FinishSucceeded(w) PROVE Rest'
  <2>1. claim[w].step \in Steps
    BY <1>9, <1>t, ExecutingStep DEF FinishSucceeded, Finishing
  <2>2. runStatus \in Live \/ runStatus = "none"
    BY <1>9, <1>t DEF FinishSucceeded, Finishing, TypeOK
  <2> QED
    BY <1>9, <1>t, <1>n, <1>r, <2>1, <2>2
       DEF FinishSucceeded, StatusAfterSuccess, TypeOK, Live
<1>10. ASSUME NEW w \in Workers, FinishRetry(w) \/ FinishPaused(w) PROVE Rest'
  <2>1. claim[w].step \in Steps
    BY <1>10, <1>t, ExecutingStep DEF FinishRetry, FinishPaused, Finishing
  <2>2. runStatus \in Live \/ runStatus = "none"
    BY <1>10, <1>t DEF FinishRetry, FinishPaused, Finishing, TypeOK
  <2> QED
    BY <1>10, <2>1, <2>2, <1>open DEF FinishRetry, FinishPaused, PauseRun, Live, Open
<1>11. ASSUME NEW w \in Workers, FinishFailed(w) PROVE Rest'
  <2>1. claim[w].step \in 0..MaxSteps
    BY <1>11, <1>t, ExecutingStep DEF FinishFailed, Finishing
  <2> QED
    BY <1>11, <2>1, <1>close DEF FinishFailed, FailRun, Terminal
<1>12. ASSUME NEW s \in Steps, NEW k \in Kinds,
              \/ \E d \in {"approved", "denied"} : Decide(s, k, d)
              \/ Expire(s, k)
       PROVE  Rest'
  BY <1>12, <1>r DEF Decide, Expire
<1>13. ASSUME NEW s \in Steps, NEW k \in Kinds, EngineApplies(s, k) \/ ClientResume(s, k)
       PROVE  Rest'
  <2>2. CASE runStatus \in Terminal
    BY <1>13, <2>2, <1>r, DecisionReaches DEF Terminal
  <2>3. CASE runStatus \notin Terminal /\ Requeue(s)
    BY <2>3, <1>t, <1>open DEF Requeue, TypeOK, Live, Open
  <2>4. CASE runStatus \notin Terminal /\ CancelRun
    BY <2>4, <1>close, StepNumbers DEF CancelRun, Terminal
  <2> QED
    BY <1>13, <2>2, <2>3, <2>4, DecisionReaches
<1>14. CASE ClientCancel
  BY <1>14, <1>close, StepNumbers DEF ClientCancel, CancelRun, Terminal
<1>15. ASSUME NEW n \in StepCounts, CreateRun(n) PROVE Rest'
  <2>1. n \in Nat /\ (n > 0 => n \in Steps /\ n <= n)
    BY WorkflowAssumption DEF Steps
  <2> QED
    BY <1>15, <2>1, <1>r DEF CreateRun, Live, Open
<1>16. CASE LeaseExpires \/ BudgetElapses
  BY <1>16, <1>r DEF LeaseExpires, BudgetElapses
<1> QED
  BY <1>1, <1>2, <1>3, <1>4, <1>5, <1>6, <1>7, <1>8, <1>9, <1>10, <1>11, <1>12, <1>13,
     <1>14, <1>15, <1>16, NextCases

\* Whatever crashes, lapses or is presented twice: a run is leased exactly while it runs,
\* a closed run leaves no step to pick up, and a live run still has its last step to do.
THEOREM FaultSafety ==
    Spec => [](LeaseIffRunning /\ ClosedRunHasNoOpenStep /\ LastStepOpen)
<1>1. FaultInv => LeaseIffRunning /\ ClosedRunHasNoOpenStep /\ LastStepOpen
  BY DEF FaultInv
<1> QED
  BY FaultInit, FaultNext, <1>1, PTL DEF Spec

\* No transaction, however late it commits, changes the status of a terminal run or of a
\* step of it.
THEOREM TerminalIsFinal == Spec => TerminalRunIsFinal
<1>1. ASSUME TypeOK, [Next]_vars, runStatus \in Terminal
      PROVE  UNCHANGED <<runStatus, stepStatus>>
  <2>t. runStatus \notin Live /\ runStatus # "none"
    BY <1>1 DEF Terminal, Live
  <2> USE <1>1, <2>t DEF runVars, stepVars
  <2>1. CASE UNCHANGED vars
    BY <2>1 DEF vars
  <2>2. ASSUME NEW w \in Workers, Claimable(w) PROVE FALSE
    BY <2>2 DEF Claimable, Live
  <2>3. ASSUME NEW w \in Workers, Finishing(w) PROVE FALSE
    BY <2>3 DEF Finishing
  <2>4. ASSUME NEW w \in Workers, ClaimNothingLeft(w) PROVE FALSE
    BY <2>4, <2>2 DEF ClaimNothingLeft
  <2>5. ASSUME NEW w \in Workers, NEW s \in Steps,
               \/ RecoverExhausted(w, s)
               \/ RecoverNeedsApproval(w, s)
               \/ ClaimBudgetPause(w, s)
               \/ ClaimPolicyDenied(w, s)
               \/ ClaimPolicyPause(w, s)
               \/ ClaimWorkspaceBusy(w, s)
               \/ StartStep(w, s)
        PROVE  FALSE
    BY <2>5, <2>2 DEF RecoverExhausted, RecoverNeedsApproval, ClaimBudgetPause,
         ClaimPolicyDenied, ClaimPolicyPause, ClaimWorkspaceBusy, StartStep, Startable
  <2>6. ASSUME NEW w \in Workers,
               FinishSucceeded(w) \/ FinishRetry(w) \/ FinishFailed(w) \/ FinishPaused(w)
        PROVE  FALSE
    BY <2>6, <2>3 DEF FinishSucceeded, FinishRetry, FinishFailed, FinishPaused
  <2>7. ASSUME NEW w \in Workers, FinishDiscarded(w) \/ LoseClaim(w) \/ Crash(w)
        PROVE  UNCHANGED <<runStatus, stepStatus>>
    BY <2>7 DEF FinishDiscarded, LoseClaim, Crash
  <2>8. ASSUME NEW s \in Steps, NEW k \in Kinds,
               \/ \E d \in {"approved", "denied"} : Decide(s, k, d)
               \/ Expire(s, k)
               \/ EngineApplies(s, k)
               \/ ClientResume(s, k)
        PROVE  UNCHANGED <<runStatus, stepStatus>>
    BY <2>8, DecisionReaches DEF Decide, Expire
  <2>9. CASE LeaseExpires \/ BudgetElapses
    BY <2>9 DEF LeaseExpires, BudgetElapses
  <2>10. ~ClientCancel /\ \A n \in StepCounts : ~CreateRun(n)
    BY DEF ClientCancel, CreateRun
  <2> QED
    BY <2>1, <2>4, <2>5, <2>6, <2>7, <2>8, <2>9, <2>10, NextCases
<1>2. TypeOK /\ [Next]_vars
        => [(runStatus \in Terminal) => UNCHANGED <<runStatus, stepStatus>>]_vars
  BY <1>1
<1> QED
  BY TypeCorrect, <1>2, PTL DEF Spec, TerminalRunIsFinal

-----------------------------------------------------------------------------
(* How much of a run is going on at once, under every fault.               *)

\* The shape of approvals: no action before the decision, only tool approvals, which are
\* policy approvals, resume a run that was denied, and what was applied was decided.
ApprovalShape ==
    \A s \in Steps, k \in Kinds :
        /\ approval[s][k].status \in {"none", "pending"} => approval[s][k].action = "none"
        /\ approval[s][k].llm => k = "policy"
        /\ <<s, k>> \in applied => approval[s][k].status \notin {"none", "pending"}

\* The holder of the lease executes the step a claim would pick, and no claim will start it
\* again.
HolderWorks ==
    /\ leaseOwner \in Workers
    /\ Executing(leaseOwner)
    /\ NextOpenStep(claim[leaseOwner].step)
    /\ stepStatus[claim[leaseOwner].step] = "running"
    /\ leaseExpired => AttemptsExhausted(claim[leaseOwner].step)

\* A claim may start a step or pause the run.
Spare == runStatus \notin Terminal \cup {"paused"} /\ ~HolderWorks

\* The inductive invariant: where a claim may add to what is going on, there is room.
ActivityInv ==
    /\ ApprovalShape
    /\ ActivityNeedsFaults
    /\ Spare => Cardinality(Executors) + Cardinality(Questions) <= faults

\* There are finitely many workers and approvals.
LEMMA CountsAreNumbers ==
    /\ IsFiniteSet(Executors) /\ Cardinality(Executors) \in Nat
    /\ IsFiniteSet(Questions) /\ Cardinality(Questions) \in Nat
<1>1. IsFiniteSet(Executors)
  BY WorkflowAssumption, FS_Subset DEF Executors
<1>2. IsFiniteSet(Steps)
  BY WorkflowAssumption, FS_Interval DEF Steps
<1>3. IsFiniteSet(Kinds)
  <2>1. Kinds = (({"policy"} \cup {"budget"}) \cup {"retry"}) \cup {"takeover"}
    BY DEF Kinds
  <2>2. IsFiniteSet({"policy"})
    BY FS_Singleton
  <2> QED
    BY <2>1, <2>2, FS_AddElement
<1>4. IsFiniteSet(Questions)
  <2>1. IsFiniteSet(Steps \X Kinds)
    BY <1>2, <1>3, FS_Product
  <2>2. Questions \in SUBSET (Steps \X Kinds)
    BY DEF Questions
  <2> QED
    BY <2>1, <2>2, FS_Subset
<1> QED
  BY <1>1, <1>4, FS_CardinalityType

\* A set that gains no element, gains one at most, or loses one.
LEMMA Counting ==
    ASSUME NEW S, IsFiniteSet(S), NEW x, NEW T
    PROVE  /\ T \subseteq S => Cardinality(T) <= Cardinality(S)
           /\ T \subseteq S \cup {x} => Cardinality(T) <= Cardinality(S) + 1
           /\ x \in S /\ T = S \ {x} => Cardinality(T) = Cardinality(S) - 1
<1>1. Cardinality(S) \in Nat
  BY FS_CardinalityType
<1>2. T \subseteq S => Cardinality(T) <= Cardinality(S)
  BY FS_Subset
<1>3. ASSUME T \subseteq S \cup {x} PROVE Cardinality(T) <= Cardinality(S) + 1
  <2>1. IsFiniteSet(S \cup {x})
    BY FS_AddElement
  <2>2. IsFiniteSet(T) /\ Cardinality(T) <= Cardinality(S \cup {x})
    BY <1>3, <2>1, FS_Subset
  <2>3. Cardinality(S \cup {x}) <= Cardinality(S) + 1 /\ Cardinality(S \cup {x}) \in Nat
    BY <1>1, FS_AddElement
  <2>4. Cardinality(T) \in Nat
    BY <2>2, FS_CardinalityType
  <2> QED
    BY <1>1, <2>2, <2>3, <2>4
<1>4. x \in S /\ T = S \ {x} => Cardinality(T) = Cardinality(S) - 1
  BY FS_RemoveElement
<1> QED
  BY <1>2, <1>3, <1>4

\* What the changes of the claims mean for the number of executors.
LEMMA ExecutorsCounted ==
    ASSUME TypeOK
    PROVE  /\ IsFiniteSet(Executors')
           /\ Cardinality(Executors') \in Nat
           /\ claim' = claim => Executors' = Executors
           /\ \A w \in Workers : claim' = [claim EXCEPT ![w] = Idle] =>
                 /\ Cardinality(Executors') <= Cardinality(Executors)
                 /\ Executing(w) => Cardinality(Executors') = Cardinality(Executors) - 1
           /\ \A w \in Workers : (\E c : claim' = [claim EXCEPT ![w] = c]) =>
                 Cardinality(Executors') <= Cardinality(Executors) + 1
<1>f. IsFiniteSet(Executors)
  BY CountsAreNumbers
<1>1. IsFiniteSet(Executors') /\ Cardinality(Executors') \in Nat
  <2>1. IsFiniteSet(Executors')
    BY WorkflowAssumption, FS_Subset DEF Executors
  <2> QED
    BY <2>1, FS_CardinalityType
<1>2. claim' = claim => Executors' = Executors
  BY DEF Executors, Executing
<1>3. ASSUME NEW w \in Workers, claim' = [claim EXCEPT ![w] = Idle]
      PROVE  /\ Cardinality(Executors') <= Cardinality(Executors)
             /\ Executing(w) => Cardinality(Executors') = Cardinality(Executors) - 1
  <2>1. \A v \in Workers : Executing(v)' <=> Executing(v) /\ v # w
    BY <1>3, StepNumbers DEF TypeOK, Executing, Idle
  <2>2. Executors' = Executors \ {w}
    BY <2>1 DEF Executors
  <2>3. Executing(w) => w \in Executors
    BY DEF Executors
  <2> QED
    BY <1>f, <2>2, <2>3, Counting
<1>4. ASSUME NEW w \in Workers, NEW c, claim' = [claim EXCEPT ![w] = c]
      PROVE  Cardinality(Executors') <= Cardinality(Executors) + 1
  <2>1. \A v \in Workers : v # w => (Executing(v)' <=> Executing(v))
    BY <1>4 DEF TypeOK, Executing
  <2>2. Executors' \subseteq Executors \cup {w}
    BY <2>1 DEF Executors
  <2> QED
    BY <1>f, <2>2, Counting
<1> QED
  BY <1>1, <1>2, <1>3, <1>4

\* What the changes of the approvals mean for the number of questions.
LEMMA QuestionsCounted ==
    /\ Cardinality(Questions') \in Nat
    /\ (\A s \in Steps, k \in Kinds : Outstanding(s, k)' => Outstanding(s, k)) =>
          Cardinality(Questions') <= Cardinality(Questions)
    /\ \A s \in Steps, k \in Kinds :
          (\A t \in Steps, j \in Kinds :
              Outstanding(t, j)' => Outstanding(t, j) \/ (t = s /\ j = k)) =>
          Cardinality(Questions') <= Cardinality(Questions) + 1
    /\ \A s \in Steps, k \in Kinds :
          /\ Outstanding(s, k)
          /\ \A t \in Steps, j \in Kinds :
                Outstanding(t, j)' <=> Outstanding(t, j) /\ (t # s \/ j # k)
          => Cardinality(Questions') = Cardinality(Questions) - 1
<1>f. IsFiniteSet(Questions)
  BY CountsAreNumbers
<1>1. Cardinality(Questions') \in Nat
  <2>1. (Cardinality(Questions) \in Nat)'
    BY CountsAreNumbers, PTL
  <2> QED
    BY <2>1
<1>2. ASSUME \A s \in Steps, k \in Kinds : Outstanding(s, k)' => Outstanding(s, k)
      PROVE  Cardinality(Questions') <= Cardinality(Questions)
  <2>1. Questions' \subseteq Questions
    BY <1>2 DEF Questions
  <2> QED
    BY <1>f, <2>1, Counting
<1>3. ASSUME NEW s \in Steps, NEW k \in Kinds,
             \A t \in Steps, j \in Kinds :
                 Outstanding(t, j)' => Outstanding(t, j) \/ (t = s /\ j = k)
      PROVE  Cardinality(Questions') <= Cardinality(Questions) + 1
  <2>1. Questions' \subseteq Questions \cup {<<s, k>>}
    BY <1>3 DEF Questions
  <2> QED
    BY <1>f, <2>1, Counting
<1>4. ASSUME NEW s \in Steps, NEW k \in Kinds, Outstanding(s, k),
             \A t \in Steps, j \in Kinds :
                 Outstanding(t, j)' <=> Outstanding(t, j) /\ (t # s \/ j # k)
      PROVE  Cardinality(Questions') = Cardinality(Questions) - 1
  <2>1. Questions' = Questions \ {<<s, k>>} /\ <<s, k>> \in Questions
    BY <1>4 DEF Questions
  <2> QED
    BY <1>f, <2>1, Counting
<1> QED
  BY <1>1, <1>2, <1>3, <1>4

\* A pause asks one question at most, and none that was answered before.
LEMMA PauseShape ==
    ASSUME TypeOK, ApprovalShape, NEW s \in Steps, NEW k \in Kinds, NEW llm \in BOOLEAN,
           llm => k = "policy", PauseRun(s, k, llm), applied' = applied
    PROVE  /\ ApprovalShape'
           /\ \A t \in Steps, j \in Kinds :
                 Outstanding(t, j)' => Outstanding(t, j) \/ (t = s /\ j = k)
<1>1. CASE approval' = approval
  BY <1>1 DEF ApprovalShape, Outstanding
<1>2. CASE approval[s][k].status = "none"
  <2> DEFINE new == [status |-> "pending", llm |-> llm, action |-> "none"]
  <2>1. approval' = [approval EXCEPT ![s][k] = new]
    BY <1>2 DEF PauseRun
  <2>2. /\ approval'[s][k] = new
        /\ \A t \in Steps, j \in Kinds :
              t # s \/ j # k => approval'[t][j] = approval[t][j]
    BY <2>1 DEF TypeOK
  <2>3. /\ approval'[s][k].status = "pending"
        /\ approval'[s][k].llm = llm
        /\ approval'[s][k].action = "none"
        /\ <<s, k>> \notin applied
    BY <1>2, <2>2 DEF ApprovalShape
  <2> HIDE DEF new
  <2>4. ASSUME NEW t \in Steps, NEW j \in Kinds
        PROVE  /\ approval'[t][j].status \in {"none", "pending"} => approval'[t][j].action = "none"
               /\ approval'[t][j].llm => j = "policy"
               /\ <<t, j>> \in applied' => approval'[t][j].status \notin {"none", "pending"}
    <3>1. CASE t = s /\ j = k
      BY <2>3, <3>1
    <3>2. CASE t # s \/ j # k
      BY <2>2, <3>2 DEF ApprovalShape
    <3> QED
      BY <3>1, <3>2
  <2>5. \A t \in Steps, j \in Kinds :
           Outstanding(t, j)' => Outstanding(t, j) \/ (t = s /\ j = k)
    BY <2>2 DEF Outstanding
  <2> QED
    BY <2>4, <2>5 DEF ApprovalShape
<1> QED
  BY <1>1, <1>2 DEF PauseRun, approvalVars

\* A decided approval is decided for good, and stays outstanding until it is applied.
LEMMA DecisionShape ==
    ASSUME TypeOK, ApprovalShape, NEW s \in Steps, NEW k \in Kinds,
           \/ \E d \in {"approved", "denied"} : Decide(s, k, d)
           \/ Expire(s, k)
    PROVE  /\ ApprovalShape'
           /\ Outstanding(s, k) /\ approval[s][k].status = "pending"
           /\ approval'[s][k].status \notin {"none", "pending"}
           /\ ShouldResume(s, k)' <=> approval'[s][k].status = "approved" \/ approval'[s][k].llm
           /\ \A t \in Steps, j \in Kinds : t # s \/ j # k => approval'[t][j] = approval[t][j]
           /\ \A t \in Steps, j \in Kinds : Outstanding(t, j)' <=> Outstanding(t, j)
<1>1. approval[s][k] \in Approval
  BY DEF TypeOK
<1>2. /\ approval[s][k].status = "pending"
      /\ applied' = applied
  BY DEF Decide, Expire, historyVars
<1>3. /\ approval'[s][k].status \in {"approved", "denied", "expired"}
      /\ approval'[s][k].llm = approval[s][k].llm
      /\ \A t \in Steps, j \in Kinds : t # s \/ j # k => approval'[t][j] = approval[t][j]
  <2>1. CASE Expire(s, k)
    BY <1>1, <2>1 DEF Expire, TypeOK, Approval
  <2>2. ASSUME NEW d \in {"approved", "denied"}, Decide(s, k, d)
        PROVE  /\ approval'[s][k].status \in {"approved", "denied", "expired"}
               /\ approval'[s][k].llm = approval[s][k].llm
               /\ \A t \in Steps, j \in Kinds :
                     t # s \/ j # k => approval'[t][j] = approval[t][j]
    BY <1>1, <2>2 DEF Decide, TypeOK, Approval
  <2> QED
    BY <2>1, <2>2
<1>4. <<s, k>> \notin applied
  BY <1>2 DEF ApprovalShape
<1>5. ApprovalShape'
  <2> SUFFICES ASSUME NEW t \in Steps, NEW j \in Kinds
               PROVE  /\ approval'[t][j].status \in {"none", "pending"}
                            => approval'[t][j].action = "none"
                      /\ approval'[t][j].llm => j = "policy"
                      /\ <<t, j>> \in applied' => approval'[t][j].status \notin {"none", "pending"}
    BY DEF ApprovalShape
  <2>1. CASE t = s /\ j = k
    BY <1>2, <1>3, <1>4, <2>1 DEF ApprovalShape
  <2>2. CASE t # s \/ j # k
    BY <1>2, <1>3, <2>2 DEF ApprovalShape
  <2> QED
    BY <2>1, <2>2
<1>6. \A t \in Steps, j \in Kinds : Outstanding(t, j)' <=> Outstanding(t, j)
  <2> SUFFICES ASSUME NEW t \in Steps, NEW j \in Kinds
               PROVE  Outstanding(t, j)' <=> Outstanding(t, j)
    OBVIOUS
  <2>1. CASE t = s /\ j = k
    BY <1>2, <1>3, <2>1 DEF Outstanding
  <2>2. CASE t # s \/ j # k
    BY <1>2, <1>3, <2>2 DEF Outstanding
  <2> QED
    BY <2>1, <2>2
<1>7. ShouldResume(s, k)' <=> approval'[s][k].status = "approved" \/ approval'[s][k].llm
  BY <1>3 DEF ShouldResume
<1> QED
  BY <1>2, <1>3, <1>4, <1>5, <1>6, <1>7 DEF Outstanding

\* A decision that reaches the run is settled by that, unless it was settled before.
LEMMA AppliedShape ==
    ASSUME TypeOK, ApprovalShape, NEW s \in Steps, NEW k \in Kinds,
           EngineApplies(s, k) \/ ClientResume(s, k)
    PROVE  /\ ApprovalShape'
           /\ approval[s][k].status \notin {"none", "pending"}
           /\ \A t \in Steps, j \in Kinds :
                 /\ approval'[t][j].status = approval[t][j].status
                 /\ approval'[t][j].llm = approval[t][j].llm
           /\ \A t \in Steps, j \in Kinds :
                 Outstanding(t, j)' <=> Outstanding(t, j) /\ (t # s \/ j # k)
           /\ Outstanding(s, k) <=> <<s, k>> \notin applied
<1>1. approval[s][k] \in Approval
  BY DEF TypeOK
<1>2. applied' = applied \cup {<<s, k>>}
  BY DecisionReaches DEF Applied
<1>3. approval[s][k].status \notin {"none", "pending"}
  BY DEF EngineApplies, ExecuteAction, ClientResume, ApprovalShape
<1>4. \A t \in Steps, j \in Kinds :
         /\ approval'[t][j].status = approval[t][j].status
         /\ approval'[t][j].llm = approval[t][j].llm
         /\ t # s \/ j # k => approval'[t][j] = approval[t][j]
  <2>1. CASE approval' = approval
    BY <2>1
  <2>2. CASE approval' = [approval EXCEPT ![s][k] = [@ EXCEPT !.action = "done"]]
    BY <1>1, <2>2 DEF TypeOK, Approval
  <2> QED
    BY <2>1, <2>2, DecisionReaches
<1>5. ApprovalShape'
  <2> SUFFICES ASSUME NEW t \in Steps, NEW j \in Kinds
               PROVE  /\ approval'[t][j].status \in {"none", "pending"}
                            => approval'[t][j].action = "none"
                      /\ approval'[t][j].llm => j = "policy"
                      /\ <<t, j>> \in applied' => approval'[t][j].status \notin {"none", "pending"}
    BY DEF ApprovalShape
  <2>1. CASE t = s /\ j = k
    BY <1>3, <1>4, <2>1 DEF ApprovalShape
  <2>2. CASE t # s \/ j # k
    BY <1>2, <1>4, <2>2 DEF ApprovalShape
  <2> QED
    BY <2>1, <2>2
<1>6. ASSUME NEW t \in Steps, NEW j \in Kinds
      PROVE  Outstanding(t, j)' <=> Outstanding(t, j) /\ (t # s \/ j # k)
  BY <1>2, <1>4 DEF Outstanding
<1> QED
  BY <1>3, <1>4, <1>5, <1>6 DEF Outstanding

\* Where a claim may start a step or pause the run, nobody works under the lease: a lease
\* that its holder works under is somebody else's and has not lapsed, or has with the last
\* attempt, which no claim repeats.
LEMMA ClaimFindsRoom ==
    ASSUME LeaseIffRunning, NEW w \in Workers, NEW s \in Steps, Claimable(w), NextOpenStep(s),
           stepStatus[s] = "queued" \/ ~AttemptsExhausted(s)
    PROVE  Spare
<1>1. runStatus \notin Terminal \cup {"paused"}
  BY DEF Claimable, Terminal
<1>2. ASSUME HolderWorks PROVE FALSE
  <2> DEFINE r == claim[leaseOwner].step
  <2>1. leaseOwner # w
    BY <1>2, StepNumbers DEF HolderWorks, Claimable, Executing, Idle
  <2>2. leaseExpired
    BY <1>2, <2>1, WorkflowAssumption DEF HolderWorks, Claimable, LeaseAvailable
  <2>3. r \in Steps /\ NextOpenStep(r) /\ stepStatus[r] = "running" /\ AttemptsExhausted(r)
    BY <1>2, <2>2 DEF HolderWorks, Executing
  <2>4. r = s
    BY <2>3, StepNumbers DEF NextOpenStep
  <2> QED
    BY <2>3, <2>4
<1> QED
  BY <1>1, <1>2 DEF Spare

\* Every step of the specification keeps the bound: what goes on may grow by one where there
\* was room, and where there may be room again it has shrunk, or a fault happened.
LEMMA ActivityNext ==
    ASSUME FaultInv, ActivityInv, [Next]_vars PROVE ActivityInv'
<1> DEFINE E == Cardinality(Executors)
           O == Cardinality(Questions)
           E1 == Cardinality(Executors')
           O1 == Cardinality(Questions')
<1> USE DEF runVars, budgetVars, stepVars, approvalVars, workerVars, historyVars
<1>t. TypeOK /\ ApprovalShape /\ LeaseIffRunning
  BY DEF FaultInv, ActivityInv
<1>n. E \in Nat /\ O \in Nat /\ E1 \in Nat /\ O1 \in Nat /\ faults \in Nat
  BY <1>t, CountsAreNumbers, ExecutorsCounted, QuestionsCounted DEF TypeOK
<1>b. /\ E <= 1 + faults
      /\ runStatus \notin Terminal => E + O <= 1 + faults
      /\ Spare => E + O <= faults
  BY DEF ActivityInv, ActivityNeedsFaults
<1>keep. ASSUME approval' = approval, applied' = applied PROVE ApprovalShape' /\ O1 <= O
  BY <1>keep, <1>t, QuestionsCounted DEF ApprovalShape, Outstanding
\* The run is over.
<1>over. ASSUME ApprovalShape', runStatus' \in Terminal, E1 <= E, faults' \in Nat, faults' >= faults
         PROVE  ActivityInv'
  BY <1>over, <1>n, <1>b DEF ActivityInv, ActivityNeedsFaults, Spare
\* The run goes on, and nothing is added.
<1>calm. ASSUME ApprovalShape', runStatus \notin Terminal, faults' \in Nat, faults' >= faults,
                E1 + O1 <= E + O,
                Spare' => Spare \/ faults' > faults \/ E1 + O1 < E + O
         PROVE  ActivityInv'
  BY <1>calm, <1>n, <1>b DEF ActivityInv, ActivityNeedsFaults
\* There was room, and it is used.
<1>use. ASSUME ApprovalShape', Spare, ~Spare', faults' = faults, E1 + O1 <= E + O + 1
        PROVE  ActivityInv'
  BY <1>use, <1>n, <1>b DEF ActivityInv, ActivityNeedsFaults
<1>pause. ASSUME NEW s \in Steps, NEW k \in Kinds, NEW llm \in BOOLEAN, llm => k = "policy",
                 PauseRun(s, k, llm), applied' = applied
          PROVE  ApprovalShape' /\ O1 <= O + 1 /\ ~Spare' /\ runStatus' = "paused"
  <2>1. /\ ApprovalShape'
        /\ \A t \in Steps, j \in Kinds :
              Outstanding(t, j)' => Outstanding(t, j) \/ (t = s /\ j = k)
    BY <1>pause, <1>t, PauseShape
  <2> QED
    BY <1>pause, <2>1, QuestionsCounted DEF PauseRun, Spare
<1>1. CASE UNCHANGED vars
  BY <1>1, <1>t DEF vars, ActivityInv, ApprovalShape, ActivityNeedsFaults, Spare, HolderWorks,
       Executors, Executing, Questions, Outstanding, NextOpenStep, AttemptsExhausted
<1>2. ASSUME NEW w \in Workers, ClaimNothingLeft(w) PROVE ActivityInv'
  BY <1>2, <1>t, <1>n, <1>keep, <1>over, ExecutorsCounted DEF ClaimNothingLeft, Terminal
<1>3. ASSUME NEW w \in Workers, NEW s \in Steps,
             RecoverExhausted(w, s) \/ ClaimPolicyDenied(w, s)
      PROVE  ActivityInv'
  BY <1>3, <1>t, <1>n, <1>keep, <1>over, ExecutorsCounted
     DEF RecoverExhausted, ClaimPolicyDenied, FailRun, Terminal
<1>4. ASSUME NEW w \in Workers, NEW s \in Steps,
             RecoverNeedsApproval(w, s) \/ ClaimBudgetPause(w, s) \/ ClaimPolicyPause(w, s)
      PROVE  ActivityInv'
  <2>1. Spare
    BY <1>4, <1>t, ClaimFindsRoom
       DEF RecoverNeedsApproval, ClaimBudgetPause, ClaimPolicyPause, Startable
  <2>2. PICK k \in Kinds : PauseRun(s, k, FALSE)
    BY <1>4 DEF RecoverNeedsApproval, ClaimBudgetPause, ClaimPolicyPause, Kinds
  <2>3. claim' = claim /\ applied' = applied /\ faults' = faults
    BY <1>4 DEF RecoverNeedsApproval, ClaimBudgetPause, ClaimPolicyPause
  <2>4. E1 = E
    BY <2>3, <1>t, ExecutorsCounted
  <2>5. ApprovalShape' /\ O1 <= O + 1 /\ ~Spare'
    BY <2>2, <2>3, <1>pause
  <2> QED
    BY <2>1, <2>3, <2>4, <2>5, <1>n, <1>use
<1>5. ASSUME NEW w \in Workers, NEW s \in Steps, ClaimWorkspaceBusy(w, s) PROVE ActivityInv'
  <2>1. Spare
    BY <1>5, <1>t, ClaimFindsRoom DEF ClaimWorkspaceBusy, Startable
  <2>2. claim' = claim /\ approval' = approval /\ applied' = applied /\ faults' = faults
    BY <1>5 DEF ClaimWorkspaceBusy
  <2>3. E1 = E /\ O1 <= O /\ ApprovalShape'
    BY <2>2, <1>t, <1>keep, ExecutorsCounted
  <2> QED
    BY <2>1, <2>2, <2>3, <1>n, <1>calm DEF Spare
<1>6. ASSUME NEW w \in Workers, NEW s \in Steps, StartStep(w, s) PROVE ActivityInv'
  <2>1. Spare /\ NextOpenStep(s)
    BY <1>6, <1>t, ClaimFindsRoom DEF StartStep, Startable
  <2>2. /\ claim' = [claim EXCEPT ![w] = [step |-> s, attempt |-> attemptCount[s] + 1]]
        /\ stepStatus' = [stepStatus EXCEPT ![s] = "running"]
        /\ leaseOwner' = w /\ leaseExpired' = FALSE
        /\ approval' = approval /\ applied' = applied /\ faults' = faults
    BY <1>6 DEF StartStep
  <2>3. E1 <= E + 1 /\ O1 <= O /\ ApprovalShape'
    BY <2>2, <1>t, <1>keep, ExecutorsCounted
  <2>4. claim'[w].step = s
    BY <2>2, <1>t DEF TypeOK
  <2>5. stepStatus'[s] = "running" /\ NextOpenStep(s)'
    BY <2>1, <2>2, <1>t, StepNumbers DEF TypeOK, NextOpenStep, Open
  <2>6. HolderWorks'
    BY <2>2, <2>4, <2>5 DEF HolderWorks, Executing
  <2> QED
    BY <2>1, <2>2, <2>3, <2>6, <1>n, <1>use DEF Spare
<1>7. ASSUME NEW w \in Workers,
             FinishSucceeded(w) \/ FinishRetry(w) \/ FinishFailed(w) \/ FinishPaused(w)
      PROVE  ActivityInv'
  <2>1. /\ Finishing(w) /\ Executing(w) /\ runStatus \notin Terminal
        /\ applied' = applied /\ faults' = faults
    BY <1>7 DEF FinishSucceeded, FinishRetry, FinishFailed, FinishPaused, Finishing
  <2>2. E1 = E - 1
    BY <2>1, <1>t, ExecutorsCounted DEF Finishing
  <2>3. CASE FinishPaused(w)
    <3>1. claim[w].step \in Steps
      BY <2>1 DEF Executing
    <3>2. PICK k \in Kinds, llm \in BOOLEAN :
             PauseRequested(claim[w].step, k, llm) /\ PauseRun(claim[w].step, k, llm)
      BY <2>3 DEF FinishPaused
    <3>3. llm => k = "policy"
      BY <3>2 DEF PauseRequested
    <3>4. ApprovalShape' /\ O1 <= O + 1 /\ ~Spare'
      BY <2>1, <3>1, <3>2, <3>3, <1>pause
    <3> QED
      BY <2>1, <2>2, <3>4, <1>n, <1>calm
  <2>4. CASE ~FinishPaused(w)
    <3>1. approval' = approval
      BY <1>7, <2>4 DEF FinishSucceeded, FinishRetry, FinishFailed
    <3>2. ApprovalShape' /\ O1 <= O
      BY <2>1, <3>1, <1>keep
    <3> QED
      BY <2>1, <2>2, <3>2, <1>n, <1>calm
  <2> QED
    BY <2>3, <2>4
<1>8. ASSUME NEW w \in Workers, FinishDiscarded(w) \/ LoseClaim(w) \/ Crash(w)
      PROVE  ActivityInv'
  <2>1. /\ claim' = [claim EXCEPT ![w] = Idle]
        /\ approval' = approval /\ applied' = applied /\ faults' = faults
        /\ UNCHANGED <<runStatus, leaseOwner, leaseExpired, stepStatus, attemptCount>>
    BY <1>8 DEF FinishDiscarded, LoseClaim, Crash
  <2>2. E1 <= E /\ (Executing(w) => E1 = E - 1) /\ O1 <= O /\ ApprovalShape'
    BY <2>1, <1>t, <1>keep, ExecutorsCounted
  <2>3. CASE runStatus \in Terminal
    BY <2>1, <2>2, <2>3, <1>n, <1>over
  <2>4. CASE Executing(w) /\ runStatus \notin Terminal
    BY <2>1, <2>2, <2>4, <1>n, <1>calm
  <2>5. CASE ~Executing(w) /\ runStatus \notin Terminal
    <3>1. ASSUME HolderWorks PROVE HolderWorks'
      <4>1. leaseOwner # w
        BY <2>5, <3>1 DEF HolderWorks
      <4>2. claim'[leaseOwner] = claim[leaseOwner]
        BY <2>1, <4>1, <1>t, <3>1 DEF TypeOK, HolderWorks
      <4> QED
        BY <2>1, <4>2, <3>1 DEF HolderWorks, Executing, NextOpenStep, AttemptsExhausted
    <3>2. Spare' => Spare
      BY <2>1, <3>1 DEF Spare
    <3> QED
      BY <2>1, <2>2, <2>5, <3>2, <1>n, <1>calm
  <2> QED
    BY <2>3, <2>4, <2>5
<1>9. ASSUME NEW s \in Steps, NEW k \in Kinds,
             \/ \E d \in {"approved", "denied"} : Decide(s, k, d)
             \/ Expire(s, k)
      PROVE  ActivityInv'
  <2>1. /\ claim' = claim /\ applied' = applied /\ faults' = faults
        /\ UNCHANGED <<runStatus, leaseOwner, leaseExpired, stepStatus, attemptCount>>
    BY <1>9 DEF Decide, Expire
  <2>2. ApprovalShape' /\ O1 <= O
    BY <1>9, <1>t, DecisionShape, QuestionsCounted
  <2>3. E1 = E
    BY <2>1, <1>t, ExecutorsCounted
  <2>4. Spare' => Spare
    BY <2>1 DEF Spare, HolderWorks, Executing, NextOpenStep, AttemptsExhausted
  <2>5. CASE runStatus \in Terminal
    BY <2>1, <2>2, <2>3, <2>5, <1>n, <1>over
  <2>6. CASE runStatus \notin Terminal
    BY <2>1, <2>2, <2>3, <2>4, <2>6, <1>n, <1>calm
  <2> QED
    BY <2>5, <2>6
<1>10. ASSUME NEW s \in Steps, NEW k \in Kinds, EngineApplies(s, k) \/ ClientResume(s, k)
       PROVE  ActivityInv'
  <2>1. claim' = claim /\ Applied(s, k)
    BY <1>10, DecisionReaches
  <2>2. E1 = E
    BY <2>1, <1>t, ExecutorsCounted
  <2>3. /\ ApprovalShape'
        /\ \A t \in Steps, j \in Kinds :
              Outstanding(t, j)' <=> Outstanding(t, j) /\ (t # s \/ j # k)
        /\ Outstanding(s, k) <=> <<s, k>> \notin applied
    BY <1>10, <1>t, AppliedShape
  <2>4. O1 <= O /\ (<<s, k>> \notin applied => O1 = O - 1)
    BY <2>3, QuestionsCounted
  <2>5. CASE runStatus \in Terminal
    <3>1. runStatus' = runStatus /\ faults' = faults
      BY <1>10, <2>1, <2>5, DecisionReaches DEF Applied, Repeats
    <3> QED
      BY <2>2, <2>3, <2>5, <3>1, <1>n, <1>over
  <2>6. CASE runStatus \notin Terminal /\ <<s, k>> \notin applied
    <3>1. faults' = faults
      BY <2>1, <2>6 DEF Applied, Repeats
    <3> QED
      BY <2>2, <2>3, <2>4, <2>6, <3>1, <1>n, <1>calm
  <2>7. CASE runStatus \notin Terminal /\ <<s, k>> \in applied
    <3>1. faults' = faults + 1
      BY <2>1, <2>7 DEF Applied, Repeats
    <3> QED
      BY <2>2, <2>3, <2>4, <2>7, <3>1, <1>n, <1>calm
  <2> QED
    BY <2>5, <2>6, <2>7
<1>11. CASE ClientCancel
  BY <1>11, <1>t, <1>n, <1>keep, <1>over, ExecutorsCounted DEF ClientCancel, CancelRun, Terminal
<1>12. ASSUME NEW n \in StepCounts, CreateRun(n) PROVE ActivityInv'
  <2>1. /\ runStatus = "none" /\ runStatus \notin Terminal \cup {"paused"}
        /\ claim' = claim /\ approval' = approval /\ applied' = applied /\ faults' = faults
    BY <1>12 DEF CreateRun, Terminal
  <2>2. Spare
    BY <2>1, <1>t, WorkflowAssumption DEF Spare, HolderWorks, LeaseIffRunning
  <2>3. E1 = E /\ O1 <= O /\ ApprovalShape'
    BY <2>1, <1>t, <1>keep, ExecutorsCounted
  <2> QED
    BY <2>1, <2>2, <2>3, <1>n, <1>calm
<1>13. CASE LeaseExpires
  <2>1. /\ claim' = claim /\ approval' = approval /\ applied' = applied
        /\ UNCHANGED <<runStatus, leaseOwner, stepStatus, attemptCount>>
        /\ faults' = IF Lapses THEN faults + 1 ELSE faults
        /\ leaseOwner # NoOwner
    BY <1>13 DEF LeaseExpires
  <2>2. E1 = E /\ O1 <= O /\ ApprovalShape'
    BY <2>1, <1>t, <1>keep, ExecutorsCounted
  <2>3. runStatus \notin Terminal
    BY <2>1, <1>t DEF LeaseIffRunning, Terminal
  <2>4. faults' = faults + 1 \/ (Spare' => Spare)
    <3> SUFFICES ASSUME ~Lapses, HolderWorks PROVE HolderWorks'
      BY <2>1 DEF Spare
    <3> QED
      BY <2>1 DEF Lapses, HolderWorks, Executing, NextOpenStep, AttemptsExhausted
  <2>5. faults' \in Nat /\ faults' >= faults
    BY <2>1, <1>n
  <2> QED
    BY <2>2, <2>3, <2>4, <2>5, <1>n, <1>calm
<1>14. CASE BudgetElapses
  <2>1. UNCHANGED <<claim, approval, applied, faults, runStatus, leaseOwner, leaseExpired,
                    stepStatus, attemptCount>>
    BY <1>14 DEF BudgetElapses
  <2> QED
    BY <2>1, <1>t DEF ActivityInv, ApprovalShape, ActivityNeedsFaults, Spare, HolderWorks,
       Executors, Executing, Questions, Outstanding, NextOpenStep, AttemptsExhausted
<1> QED
  BY <1>1, <1>2, <1>3, <1>4, <1>5, <1>6, <1>7, <1>8, <1>9, <1>10, <1>11, <1>12, <1>13,
     <1>14, NextCases

LEMMA ActivityInit == Init => ActivityInv
<1> SUFFICES ASSUME Init PROVE ActivityInv
  OBVIOUS
<1>1. ApprovalShape
  BY DEF Init, ApprovalShape, NoApproval
<1>2. Executors = {}
  BY StepNumbers DEF Init, Executors, Executing, Idle
<1>3. Questions = {}
  BY DEF Init, Questions, Outstanding, NoApproval
<1>4. Cardinality({}) = 0
  BY FS_EmptySet
<1> QED
  BY <1>1, <1>2, <1>3, <1>4 DEF Init, ActivityInv, ActivityNeedsFaults

\* Whatever crashes, lapses or is presented twice, by however many workers: what goes on at
\* once in a run, its executors and the decisions it waits for, is one thing and one more for
\* every fault.
THEOREM ActivityIsBounded == Spec => []ActivityNeedsFaults
<1>1. Init => FaultInv /\ ActivityInv
  BY FaultInit, ActivityInit
<1>2. FaultInv /\ ActivityInv /\ [Next]_vars => (FaultInv /\ ActivityInv)'
  BY FaultNext, ActivityNext
<1>3. ActivityInv => ActivityNeedsFaults
  BY DEF ActivityInv
<1> QED
  BY <1>1, <1>2, <1>3, PTL DEF Spec

-----------------------------------------------------------------------------
(* What holds until the first fault.                                       *)

\* Exactly the steps of the plan have a row, and nothing else was ever started.
PlanShape ==
    /\ \A s \in Steps : stepStatus[s] = "none" <=> s > numSteps
    /\ \A s \in Steps : stepStatus[s] = "none" => attemptCount[s] = 0
    /\ runStatus = "none" => numSteps = 0

\* A step got beyond queued by being started.
BegunStepWasStarted ==
    \A s \in Steps : stepStatus[s] \in {"running", "paused", "succeeded"} => attemptCount[s] > 0

\* Only a run that is over has a step that failed or was cancelled.
NoDeadStep ==
    runStatus \notin Terminal => \A s \in Steps : stepStatus[s] \notin {"failed", "cancelled"}

\* A worker that executes owns the run, and if its lease lapsed the step has no attempt
\* left, so whoever takes over can only fail the run.
ExecutorOwnsRun ==
    runStatus \notin Terminal => \A w \in Workers : Executing(w) =>
        /\ leaseOwner = w
        /\ stepStatus[claim[w].step] = "running"
        /\ claim[w].attempt = attemptCount[claim[w].step]
        /\ leaseExpired => AttemptsExhausted(claim[w].step)

\* What an outstanding approval says of a run that is not over: the run is paused for
\* this very approval and no other, and the step it blocks is still to be done.
OutstandingBlocks ==
    runStatus \notin Terminal => \A s \in Steps, k \in Kinds : Outstanding(s, k) =>
        /\ runStatus = "paused"
        /\ blockedReason = PauseReason(k)
        /\ stepStatus[s] \in Open
        /\ \A t \in Steps, j \in Kinds : Outstanding(t, j) => t = s /\ j = k

StepInv == PlanShape /\ BegunStepWasStarted /\ StepsInOrder /\ NoDeadStep /\ SucceededRunIsComplete

ApprovalInv == OutstandingBlocks /\ ApprovalShape /\ BudgetOverrideIsApproved

\* What a run is that had no fault.
StrictInv ==
    faults = 0 /\ TypeOK /\ LeaseIffRunning /\ StepInv /\ ExecutorOwnsRun /\ ApprovalInv

-----------------------------------------------------------------------------
(* What the invariant says where a transaction starts.                     *)

\* A step that is open has no started step after it.
LEMMA OpenStepIsLast ==
    ASSUME StrictInv, NEW s \in Steps, stepStatus[s] \in Open
    PROVE  \A t \in Steps : t > s => attemptCount[t] = 0 /\ stepStatus[t] \notin {"running", "paused", "succeeded"}
<1>1. ASSUME NEW t \in Steps, t > s, attemptCount[t] > 0 PROVE FALSE
  BY <1>1, StepNumbers DEF StrictInv, StepInv, StepsInOrder, Open
<1>2. \A t \in Steps : attemptCount[t] \in Nat
  BY DEF StrictInv, TypeOK
<1> QED
  BY <1>1, <1>2 DEF StrictInv, StepInv, BegunStepWasStarted

\* A run that is not paused and not over is not waiting for any decision.
LEMMA NothingOutstanding ==
    ASSUME StrictInv, runStatus \notin Terminal, runStatus # "paused"
    PROVE  \A s \in Steps, k \in Kinds : ~Outstanding(s, k)
    BY DEF StrictInv, ApprovalInv, OutstandingBlocks

\* A claim that does not fail the run finds no worker executing it.
LEMMA ClaimExcludesExecution ==
    ASSUME StrictInv, NEW w \in Workers, NEW s \in Steps, Claimable(w), NextOpenStep(s),
           stepStatus[s] = "queued" \/ ~AttemptsExhausted(s)
    PROVE  \A v \in Workers : ~Executing(v)
<1> SUFFICES ASSUME NEW v \in Workers, Executing(v) PROVE FALSE
  OBVIOUS
<1> DEFINE r == claim[v].step
<1>1. r \in Steps
  BY ExecutingStep DEF StrictInv
<1>2. runStatus \notin Terminal
  BY DEF Claimable, Terminal
<1>3. /\ leaseOwner = v
      /\ stepStatus[r] = "running"
      /\ leaseExpired => AttemptsExhausted(r)
  BY <1>2 DEF StrictInv, ExecutorOwnsRun
<1>4. v # w
  BY StepNumbers DEF Claimable, Executing, Idle
<1>5. leaseExpired
  BY <1>3, <1>4, WorkflowAssumption DEF Claimable, LeaseAvailable
<1>6. ~(r < s)
  BY <1>1, <1>3 DEF NextOpenStep, Open
<1>7. ~(r > s)
  BY <1>1, <1>3, OpenStepIsLast DEF NextOpenStep
<1>8. r = s
  BY <1>1, <1>6, <1>7, StepNumbers
<1> QED
  BY <1>3, <1>5, <1>8

\* A claimed step is a step of the plan, every step before it succeeded.
LEMMA ClaimedStep ==
    ASSUME StrictInv, NEW w \in Workers, NEW s \in Steps, Claimable(w), NextOpenStep(s)
    PROVE  \A t \in Steps : t < s => stepStatus[t] = "succeeded"
<1>1. runStatus \notin Terminal
  BY DEF Claimable, Terminal
<1>2. ASSUME NEW t \in Steps, t < s PROVE stepStatus[t] = "succeeded"
  <2>1. stepStatus[t] \notin Open /\ stepStatus[t] \notin {"failed", "cancelled"}
    BY <1>1, <1>2 DEF NextOpenStep, StrictInv, StepInv, NoDeadStep
  <2>2. stepStatus[t] # "none"
    <3>1. stepStatus[s] # "none"
      BY DEF NextOpenStep, Open
    <3>2. numSteps \in Nat /\ t \in Nat /\ s \in Nat
      BY StepNumbers DEF StrictInv, TypeOK
    <3> QED
      BY <1>2, <3>1, <3>2 DEF StrictInv, StepInv, PlanShape
  <2> QED
    BY <2>1, <2>2 DEF StrictInv, TypeOK, Terminal
<1> QED
  BY <1>2

\* The worker that records an outcome owns the running run, and nobody else executes it.
LEMMA FinishingOwner ==
    ASSUME StrictInv, NEW w \in Workers, Finishing(w)
    PROVE  /\ claim[w].step \in Steps
           /\ runStatus = "running"
           /\ stepStatus[claim[w].step] = "running"
           /\ \A v \in Workers : Executing(v) => v = w
<1>1. runStatus \notin Terminal /\ Executing(w)
  BY DEF Finishing
<1>2. leaseOwner = w /\ stepStatus[claim[w].step] = "running"
  BY <1>1 DEF StrictInv, ExecutorOwnsRun
<1>3. \A v \in Workers : Executing(v) => v = w
  BY <1>1, <1>2 DEF StrictInv, ExecutorOwnsRun
<1>4. runStatus = "running"
  BY <1>2, WorkflowAssumption DEF StrictInv, LeaseIffRunning
<1> QED
  BY <1>1, <1>2, <1>3, <1>4 DEF Executing

\* A decision that reaches the run for the first time finds it over, or paused on the step
\* that it resumes.
LEMMA AppliedStep ==
    ASSUME StrictInv, faults' = 0, NEW s \in Steps, NEW k \in Kinds,
           EngineApplies(s, k) \/ ClientResume(s, k), runStatus \notin Terminal
    PROVE  /\ Outstanding(s, k)
           /\ runStatus = "paused"
           /\ blockedReason = PauseReason(k)
           /\ stepStatus[s] \in Open
           /\ \A t \in Steps, j \in Kinds : Outstanding(t, j) => t = s /\ j = k
           /\ \A v \in Workers : ~Executing(v)
<1>1. <<s, k>> \notin applied
  BY DecisionReaches DEF StrictInv, Applied, Repeats
<1>2. Outstanding(s, k)
  BY <1>1, AppliedShape DEF StrictInv, ApprovalInv
<1>3. /\ runStatus = "paused"
      /\ blockedReason = PauseReason(k)
      /\ stepStatus[s] \in Open
      /\ \A t \in Steps, j \in Kinds : Outstanding(t, j) => t = s /\ j = k
  BY <1>2 DEF StrictInv, ApprovalInv, OutstandingBlocks
<1>4. \A v \in Workers : ~Executing(v)
  BY <1>3, WorkflowAssumption DEF StrictInv, ExecutorOwnsRun, LeaseIffRunning
<1> QED
  BY <1>2, <1>3, <1>4

-----------------------------------------------------------------------------
(* The steps.                                                              *)

\* Moving one open step within the open statuses of a run that goes on.
LEMMA StepMoved ==
    ASSUME StrictInv, NEW s \in Steps, stepStatus[s] \in Open, NEW st \in Open,
           stepStatus' = [stepStatus EXCEPT ![s] = st],
           \/ attemptCount' = attemptCount
           \/ /\ attemptCount' = [attemptCount EXCEPT ![s] = @ + 1]
              /\ \A t \in Steps : t < s => stepStatus[t] = "succeeded",
           st \in {"running", "paused"} => attemptCount'[s] > 0,
           runStatus \notin Terminal, runStatus' \in Live, numSteps' = numSteps
    PROVE  StepInv'
<1> USE DEF StrictInv, StepInv
<1>1. \A t \in Steps : attemptCount[t] \in Nat /\ stepStatus \in [Steps -> {"none"} \cup Open \cup Terminal]
  BY DEF TypeOK
<1>2. \A t \in Steps : t # s => stepStatus'[t] = stepStatus[t] /\ attemptCount'[t] = attemptCount[t]
  BY DEF TypeOK
<1>3. stepStatus'[s] = st /\ st \notin {"none", "succeeded", "failed", "cancelled"}
  BY <1>1 DEF Open
<1>4. PlanShape'
  BY <1>2, <1>3 DEF PlanShape, Live, Open
<1>5. BegunStepWasStarted'
  BY <1>2, <1>3 DEF BegunStepWasStarted
<1>6. StepsInOrder'
  <2> SUFFICES ASSUME NEW a \in Steps, NEW b \in Steps, a < b, attemptCount'[b] > 0
               PROVE  stepStatus'[a] = "succeeded"
    BY DEF StepsInOrder
  <2>1. CASE b = s
    <3>1. a # s
      BY <2>1, StepNumbers
    <3>2. stepStatus[a] = "succeeded"
      BY <2>1 DEF StepsInOrder
    <3> QED
      BY <3>1, <3>2, <1>2
  <2>2. CASE b # s
    <3>1. attemptCount[b] > 0
      BY <2>2, <1>2
    <3>2. a # s
      BY <3>1, OpenStepIsLast, StepNumbers DEF StepsInOrder, Open
    <3> QED
      BY <3>1, <3>2, <1>2 DEF StepsInOrder
  <2> QED
    BY <2>1, <2>2
<1>7. NoDeadStep'
  BY <1>2, <1>3 DEF NoDeadStep
<1>8. SucceededRunIsComplete'
  BY DEF SucceededRunIsComplete, Live
<1> QED
  BY <1>4, <1>5, <1>6, <1>7, <1>8

\* Closing a run: the steps that succeeded keep their status.
LEMMA StepsClosed ==
    ASSUME StrictInv, NEW s \in 0..MaxSteps, s \in Steps => stepStatus[s] \in Open,
           NEW own \in {"failed", "cancelled"}, stepStatus' = CloseSteps(s, own),
           runStatus' \in {"failed", "cancelled"}, UNCHANGED <<attemptCount, numSteps>>
    PROVE  StepInv'
<1> USE DEF StrictInv, StepInv
<1>1. \A t \in Steps : /\ stepStatus'[t] = "succeeded" <=> stepStatus[t] = "succeeded"
                       /\ stepStatus'[t] = "none" <=> stepStatus[t] = "none"
                       /\ stepStatus'[t] \notin Open
  BY DEF CloseSteps, Open
<1>2. PlanShape'
  BY <1>1 DEF PlanShape
<1>3. BegunStepWasStarted'
  BY <1>1 DEF BegunStepWasStarted, Open
<1>4. StepsInOrder'
  BY <1>1 DEF StepsInOrder
<1>5. NoDeadStep' /\ SucceededRunIsComplete'
  BY DEF NoDeadStep, SucceededRunIsComplete, Terminal
<1> QED
  BY <1>2, <1>3, <1>4, <1>5

\* No transaction breaks the order of the steps.
LEMMA StepInvNext ==
    ASSUME StrictInv, [Next]_vars, faults' = 0 PROVE StepInv'
<1> USE DEF runVars, stepVars
<1>s. ASSUME UNCHANGED <<stepStatus, attemptCount, numSteps>>,
             runStatus' = runStatus \/ (runStatus \notin Terminal /\ runStatus' = "paused")
      PROVE  StepInv'
  BY <1>s DEF StrictInv, StepInv, PlanShape, BegunStepWasStarted, StepsInOrder, NoDeadStep,
              SucceededRunIsComplete, Terminal
<1>1. CASE UNCHANGED vars
  BY <1>1, <1>s DEF vars
<1>2. ASSUME NEW w \in Workers, ClaimNothingLeft(w) PROVE StepInv'
  <2>1. \A s \in 1..numSteps : s \in Steps /\ ~(s > numSteps)
    BY StepNumbers DEF Steps, StrictInv, TypeOK
  <2>2. runStatus \notin Terminal /\ runStatus' = "succeeded" /\ \A s \in Steps : stepStatus[s] \notin Open
    BY <1>2 DEF ClaimNothingLeft, Claimable, Terminal
  <2>3. UNCHANGED <<stepStatus, attemptCount, numSteps>>
    BY <1>2 DEF ClaimNothingLeft
  <2>4. SucceededRunIsComplete'
    BY <2>1, <2>2, <2>3 DEF SucceededRunIsComplete, StrictInv, TypeOK, StepInv, NoDeadStep, PlanShape, Terminal
  <2> QED
    BY <2>2, <2>3, <2>4 DEF StrictInv, StepInv, PlanShape, BegunStepWasStarted, StepsInOrder,
                            NoDeadStep, Terminal
<1>3. ASSUME NEW w \in Workers, NEW s \in Steps,
             RecoverExhausted(w, s) \/ ClaimPolicyDenied(w, s)
      PROVE  StepInv'
  <2>1. stepStatus[s] \in Open
    BY <1>3 DEF RecoverExhausted, ClaimPolicyDenied, Startable, NextOpenStep
  <2> QED
    BY <1>3, <2>1, StepsClosed, StepNumbers DEF RecoverExhausted, ClaimPolicyDenied, FailRun
<1>4. ASSUME NEW w \in Workers, NEW s \in Steps, RecoverNeedsApproval(w, s)
      PROVE  StepInv'
  BY <1>4, <1>s DEF RecoverNeedsApproval, PauseRun, Claimable, Terminal
<1>5. ASSUME NEW w \in Workers, NEW s \in Steps,
             ClaimBudgetPause(w, s) \/ ClaimPolicyPause(w, s) \/ ClaimWorkspaceBusy(w, s)
      PROVE  StepInv'
  <2>1. stepStatus[s] \in Open /\ runStatus \notin Terminal
    BY <1>5 DEF ClaimBudgetPause, ClaimPolicyPause, ClaimWorkspaceBusy, Startable,
                NextOpenStep, Claimable, Terminal
  <2>2. runStatus' \in Live
    BY <1>5 DEF ClaimBudgetPause, ClaimPolicyPause, ClaimWorkspaceBusy, PauseRun, Startable,
                Claimable, Live
  <2>3. stepStatus' = [stepStatus EXCEPT ![s] = "queued"] /\ UNCHANGED <<attemptCount, numSteps>>
    BY <1>5 DEF ClaimBudgetPause, ClaimPolicyPause, ClaimWorkspaceBusy
  <2> QED
    BY <2>1, <2>2, <2>3, StepMoved DEF Open
<1>6. ASSUME NEW w \in Workers, NEW s \in Steps, StartStep(w, s) PROVE StepInv'
  <2>1. stepStatus[s] \in Open /\ runStatus \notin Terminal /\ Claimable(w) /\ NextOpenStep(s)
    BY <1>6 DEF StartStep, Startable, NextOpenStep, Claimable, Terminal
  <2>2. \A t \in Steps : t < s => stepStatus[t] = "succeeded"
    BY <2>1, ClaimedStep
  <2>3. attemptCount'[s] > 0
    BY <1>6 DEF StartStep, StrictInv, TypeOK
  <2> QED
    BY <1>6, <2>1, <2>2, <2>3, StepMoved DEF StartStep, Open, Live
<1>7. ASSUME NEW w \in Workers, FinishDiscarded(w) \/ LoseClaim(w) \/ Crash(w)
      PROVE  StepInv'
  BY <1>7, <1>s DEF FinishDiscarded, LoseClaim, Crash
<1>8. ASSUME NEW w \in Workers, FinishSucceeded(w) PROVE StepInv'
  <2> DEFINE s == claim[w].step
  <2>1. s \in Steps /\ stepStatus[s] = "running" /\ runStatus = "running"
    BY <1>8, FinishingOwner DEF FinishSucceeded
  <2>2. attemptCount[s] > 0
    BY <2>1 DEF StrictInv, StepInv, BegunStepWasStarted
  <2>3. /\ stepStatus' = [stepStatus EXCEPT ![s] = "succeeded"]
        /\ runStatus' = IF s = numSteps THEN "succeeded" ELSE "queued"
        /\ UNCHANGED <<attemptCount, numSteps>>
    BY <1>8 DEF FinishSucceeded, StatusAfterSuccess
  <2> HIDE DEF s
  <2>4. \A t \in Steps : stepStatus'[t] = IF t = s THEN "succeeded" ELSE stepStatus[t]
    BY <2>1, <2>3 DEF StrictInv, TypeOK
  <2>5. PlanShape' /\ BegunStepWasStarted' /\ StepsInOrder'
    BY <2>1, <2>2, <2>3, <2>4
       DEF StrictInv, StepInv, PlanShape, BegunStepWasStarted, StepsInOrder
  <2>6. NoDeadStep'
    BY <2>1, <2>3, <2>4 DEF StrictInv, StepInv, NoDeadStep, Terminal
  <2>7. SucceededRunIsComplete'
    <3> SUFFICES ASSUME s = numSteps, NEW t \in 1..numSteps PROVE stepStatus'[t] = "succeeded"
      BY <2>3 DEF SucceededRunIsComplete
    <3>1. t \in Steps /\ (t < s \/ t = s)
      BY <2>1, StepNumbers DEF Steps
    <3>2. t < s => stepStatus[t] = "succeeded"
      BY <2>1, <2>2, <3>1 DEF StrictInv, StepInv, StepsInOrder
    <3> QED
      BY <3>1, <3>2, <2>4
  <2> QED
    BY <2>5, <2>6, <2>7 DEF StepInv
<1>9. ASSUME NEW w \in Workers, FinishRetry(w) \/ FinishPaused(w) PROVE StepInv'
  <2>1. claim[w].step \in Steps /\ stepStatus[claim[w].step] = "running" /\ runStatus = "running"
    BY <1>9, FinishingOwner DEF FinishRetry, FinishPaused
  <2>2. attemptCount[claim[w].step] > 0
    BY <2>1 DEF StrictInv, StepInv, BegunStepWasStarted
  <2>3. PICK st \in {"queued", "paused"} :
             stepStatus' = [stepStatus EXCEPT ![claim[w].step] = st]
    BY <1>9 DEF FinishRetry, FinishPaused
  <2>4. runStatus' \in Live /\ UNCHANGED <<attemptCount, numSteps>>
    BY <1>9 DEF FinishRetry, FinishPaused, PauseRun, Live
  <2>5. runStatus \notin Terminal /\ stepStatus[claim[w].step] \in Open /\ st \in Open
    BY <2>1, <2>3 DEF Terminal, Open
  <2> QED
    BY <2>1, <2>2, <2>3, <2>4, <2>5, StepMoved
<1>10. ASSUME NEW w \in Workers, FinishFailed(w) PROVE StepInv'
  <2>1. claim[w].step \in Steps /\ stepStatus[claim[w].step] \in Open
    BY <1>10, FinishingOwner DEF FinishFailed, Open
  <2>2. claim[w].step \in 0..MaxSteps
    BY <2>1, StepNumbers
  <2> QED
    BY <1>10, <2>1, <2>2, StepsClosed DEF FinishFailed, FailRun
<1>11. ASSUME NEW s \in Steps, NEW k \in Kinds,
              \/ \E d \in {"approved", "denied"} : Decide(s, k, d)
              \/ Expire(s, k)
       PROVE  StepInv'
  BY <1>11, <1>s DEF Decide, Expire
<1>12. ASSUME NEW s \in Steps, NEW k \in Kinds, EngineApplies(s, k) \/ ClientResume(s, k)
       PROVE  StepInv'
  <2>1. CASE runStatus \in Terminal
    BY <1>12, <2>1, <1>s, DecisionReaches
  <2>2. CASE runStatus \notin Terminal /\ Requeue(s)
    <3>1. stepStatus[s] \in Open
      BY <1>12, <2>2, AppliedStep
    <3> QED
      BY <2>2, <3>1, StepMoved DEF Requeue, Open, Live
  <2>3. CASE runStatus \notin Terminal /\ CancelRun
    BY <2>3, StepsClosed, StepNumbers DEF CancelRun
  <2> QED
    BY <1>12, <2>1, <2>2, <2>3, DecisionReaches
<1>14. CASE ClientCancel
  BY <1>14, StepsClosed, StepNumbers DEF ClientCancel, CancelRun
<1>15. ASSUME NEW n \in StepCounts, CreateRun(n) PROVE StepInv'
  <2>1. n \in Nat
    BY WorkflowAssumption
  <2>2. runStatus = "none" /\ numSteps = 0 /\ \A s \in Steps : attemptCount[s] = 0
    BY <1>15, StepNumbers DEF CreateRun, StrictInv, StepInv, PlanShape
  <2> QED
    BY <1>15, <2>1, <2>2, StepNumbers
       DEF CreateRun, StepInv, PlanShape, BegunStepWasStarted, StepsInOrder, NoDeadStep,
           SucceededRunIsComplete
<1>16. CASE LeaseExpires \/ BudgetElapses
  BY <1>16, <1>s DEF LeaseExpires, BudgetElapses
<1> QED
  BY <1>1, <1>2, <1>3, <1>4, <1>5, <1>6, <1>7, <1>8, <1>9, <1>10, <1>11, <1>12, <1>14,
     <1>15, <1>16, NextCases

-----------------------------------------------------------------------------
(* The workers.                                                            *)

\* A lease that lapses does so on an idle holder, or on the last attempt of its step.
LEMMA ExecutorNext ==
    ASSUME StrictInv, [Next]_vars, faults' = 0 PROVE ExecutorOwnsRun'
<1> USE DEF runVars, stepVars, workerVars
<1>t. TypeOK
  BY DEF StrictInv
\* Nothing the executors see changes, or some of them stop.
<1>same. ASSUME UNCHANGED <<leaseOwner, leaseExpired, stepStatus, attemptCount>>,
                runStatus \in Terminal => runStatus' \in Terminal,
                \A v \in Workers : claim'[v] = claim[v] \/ claim'[v] = Idle
         PROVE  ExecutorOwnsRun'
  BY <1>same, StepNumbers
     DEF StrictInv, ExecutorOwnsRun, Executing, Idle, AttemptsExhausted
\* Nobody executes afterwards, or the run is over.
<1>none. ASSUME runStatus' \in Terminal \/ \A v \in Workers : ~Executing(v)'
         PROVE  ExecutorOwnsRun'
  BY <1>none DEF ExecutorOwnsRun
<1>1. CASE UNCHANGED vars
  BY <1>1, <1>same DEF vars
<1>2. ASSUME NEW w \in Workers, ClaimNothingLeft(w) PROVE ExecutorOwnsRun'
  BY <1>2, <1>none DEF ClaimNothingLeft, Terminal
<1>3. ASSUME NEW w \in Workers, NEW s \in Steps,
             RecoverExhausted(w, s) \/ ClaimPolicyDenied(w, s)
      PROVE  ExecutorOwnsRun'
  BY <1>3, <1>none DEF RecoverExhausted, ClaimPolicyDenied, FailRun, Terminal
<1>4. ASSUME NEW w \in Workers, NEW s \in Steps,
             \/ RecoverNeedsApproval(w, s)
             \/ ClaimBudgetPause(w, s)
             \/ ClaimPolicyPause(w, s)
             \/ ClaimWorkspaceBusy(w, s)
      PROVE  ExecutorOwnsRun'
  <2>1. \A v \in Workers : ~Executing(v)
    BY <1>4, ClaimExcludesExecution
       DEF RecoverNeedsApproval, ClaimBudgetPause, ClaimPolicyPause, ClaimWorkspaceBusy, Startable
  <2>2. claim' = claim
    BY <1>4 DEF RecoverNeedsApproval, ClaimBudgetPause, ClaimPolicyPause, ClaimWorkspaceBusy
  <2> QED
    BY <2>1, <2>2, <1>none DEF Executing
<1>5. ASSUME NEW w \in Workers, NEW s \in Steps, StartStep(w, s) PROVE ExecutorOwnsRun'
  <2>1. \A v \in Workers : ~Executing(v)
    BY <1>5, ClaimExcludesExecution DEF StartStep, Startable
  <2>2. claim' = [claim EXCEPT ![w] = [step |-> s, attempt |-> attemptCount[s] + 1]]
    BY <1>5 DEF StartStep
  <2>3. \A v \in Workers : Executing(v)' => v = w
    BY <2>1, <2>2, <1>t DEF Executing, TypeOK
  <2>4. claim'[w].step = s /\ claim'[w].attempt = attemptCount[s] + 1
    BY <2>2, <1>t DEF TypeOK
  <2>5. /\ leaseOwner' = w
        /\ leaseExpired' = FALSE
        /\ stepStatus'[s] = "running"
        /\ attemptCount'[s] = attemptCount[s] + 1
    BY <1>5, <1>t DEF StartStep, TypeOK
  <2> QED
    BY <2>3, <2>4, <2>5 DEF ExecutorOwnsRun
<1>6. ASSUME NEW w \in Workers, FinishDiscarded(w) \/ LoseClaim(w) \/ Crash(w)
      PROVE  ExecutorOwnsRun'
  <2>1. \A v \in Workers : claim'[v] = claim[v] \/ claim'[v] = Idle
    BY <1>6, <1>t DEF FinishDiscarded, LoseClaim, Crash, TypeOK
  <2> QED
    BY <1>6, <2>1, <1>same DEF FinishDiscarded, LoseClaim, Crash
<1>7. ASSUME NEW w \in Workers,
             FinishSucceeded(w) \/ FinishRetry(w) \/ FinishFailed(w) \/ FinishPaused(w)
      PROVE  ExecutorOwnsRun'
  <2>1. Finishing(w)
    BY <1>7 DEF FinishSucceeded, FinishRetry, FinishFailed, FinishPaused
  <2>2. \A v \in Workers : Executing(v) => v = w
    BY <2>1, FinishingOwner
  <2>3. claim' = [claim EXCEPT ![w] = Idle]
    BY <2>1 DEF Finishing
  <2>4. \A v \in Workers : ~Executing(v)'
    BY <2>2, <2>3, <1>t, StepNumbers DEF Executing, TypeOK, Idle
  <2> QED
    BY <2>4, <1>none
<1>8. ASSUME NEW s \in Steps, NEW k \in Kinds,
             \/ \E d \in {"approved", "denied"} : Decide(s, k, d)
             \/ Expire(s, k)
      PROVE  ExecutorOwnsRun'
  BY <1>8, <1>same DEF Decide, Expire
<1>9. ASSUME NEW s \in Steps, NEW k \in Kinds, EngineApplies(s, k) \/ ClientResume(s, k)
      PROVE  ExecutorOwnsRun'
  <2>1. claim' = claim
    BY <1>9, DecisionReaches
  <2>2. CASE runStatus \in Terminal
    BY <1>9, <2>1, <2>2, <1>same, DecisionReaches
  <2>3. CASE runStatus \notin Terminal
    BY <1>9, <2>1, <2>3, AppliedStep, <1>none DEF Executing
  <2> QED
    BY <2>2, <2>3
<1>11. CASE ClientCancel
  BY <1>11, <1>none DEF ClientCancel, CancelRun, Terminal
<1>12. ASSUME NEW n \in StepCounts, CreateRun(n) PROVE ExecutorOwnsRun'
  <2>1. \A v \in Workers : ~Executing(v)
    BY <1>12, WorkflowAssumption
       DEF CreateRun, StrictInv, ExecutorOwnsRun, LeaseIffRunning, Terminal
  <2> QED
    BY <1>12, <2>1, <1>none DEF CreateRun, Executing
<1>13. CASE LeaseExpires
  <2> SUFFICES ASSUME runStatus \notin Terminal, NEW w \in Workers, Executing(w)
               PROVE  AttemptsExhausted(claim[w].step)
    BY <1>13 DEF LeaseExpires, StrictInv, ExecutorOwnsRun, Executing, AttemptsExhausted
  <2>1. leaseOwner = w
    BY DEF StrictInv, ExecutorOwnsRun
  <2>2. ~Lapses
    BY <1>13 DEF LeaseExpires, StrictInv
  <2> QED
    BY <2>1, <2>2 DEF Lapses
<1>14. CASE BudgetElapses
  BY <1>14, <1>same DEF BudgetElapses
<1> QED
  BY <1>1, <1>2, <1>3, <1>4, <1>5, <1>6, <1>7, <1>8, <1>9, <1>11, <1>12, <1>13, <1>14,
     NextCases

-----------------------------------------------------------------------------
(* The approvals.                                                          *)

\* Pausing a run that was not paused: its approval becomes the only outstanding one, or
\* none is.
LEMMA PauseBlocks ==
    ASSUME StrictInv, faults' = 0, NEW s \in Steps, NEW k \in Kinds, NEW llm \in BOOLEAN,
           llm => k = "policy", PauseRun(s, k, llm), applied' = applied,
           runStatus \notin Terminal, runStatus # "paused",
           stepStatus'[s] \in Open, budgetOverridden' = budgetOverridden
    PROVE  ApprovalInv'
<1>t. TypeOK /\ ApprovalShape
  BY DEF StrictInv, ApprovalInv
<1>1. \A t \in Steps, j \in Kinds : ~Outstanding(t, j)
  BY NothingOutstanding
<1>2. /\ ApprovalShape'
      /\ \A t \in Steps, j \in Kinds :
            Outstanding(t, j)' => Outstanding(t, j) \/ (t = s /\ j = k)
  BY <1>t, PauseShape
<1>3. OutstandingBlocks'
  BY <1>1, <1>2 DEF OutstandingBlocks, PauseRun
<1>4. BudgetOverrideIsApproved'
  <2>1. ASSUME NEW t \in Steps, approval[t]["budget"].status = "approved"
        PROVE  approval'[t]["budget"].status = "approved"
    <3>1. CASE approval' = approval
      BY <2>1, <3>1
    <3>2. CASE /\ approval[s][k].status = "none"
               /\ approval' = [approval EXCEPT ![s][k] =
                     [status |-> "pending", llm |-> llm, action |-> "none"]]
      <4>1. t # s \/ k # "budget"
        BY <2>1, <3>2
      <4>2. approval'[t]["budget"] = approval[t]["budget"]
        BY <4>1, <3>2, <1>t DEF TypeOK, Kinds
      <4> QED
        BY <2>1, <4>2
    <3> QED
      BY <3>1, <3>2 DEF PauseRun, approvalVars
  <2> QED
    BY <2>1 DEF StrictInv, ApprovalInv, BudgetOverrideIsApproved
<1> QED
  BY <1>2, <1>3, <1>4 DEF ApprovalInv

\* A decision leaves the run as it is, and the approval outstanding.
LEMMA DecisionBlocks ==
    ASSUME StrictInv, NEW s \in Steps, NEW k \in Kinds,
           \/ \E d \in {"approved", "denied"} : Decide(s, k, d)
           \/ Expire(s, k)
    PROVE  ApprovalInv'
<1>1. /\ ApprovalShape'
      /\ approval[s][k].status = "pending"
      /\ \A t \in Steps, j \in Kinds : t # s \/ j # k => approval'[t][j] = approval[t][j]
      /\ \A t \in Steps, j \in Kinds : Outstanding(t, j)' <=> Outstanding(t, j)
  BY DecisionShape DEF StrictInv, ApprovalInv
<1>2. UNCHANGED <<runStatus, blockedReason, stepStatus, budgetOverridden>>
  BY DEF Decide, Expire, runVars, stepVars, budgetVars
<1>3. OutstandingBlocks'
  <2> SUFFICES ASSUME runStatus \notin Terminal, NEW t \in Steps, NEW j \in Kinds,
                      Outstanding(t, j)
               PROVE  /\ runStatus = "paused"
                      /\ blockedReason = PauseReason(j)
                      /\ stepStatus[t] \in Open
                      /\ \A u \in Steps, i \in Kinds : Outstanding(u, i) => u = t /\ i = j
    BY <1>1, <1>2 DEF OutstandingBlocks
  <2> QED
    BY DEF StrictInv, ApprovalInv, OutstandingBlocks
<1>4. BudgetOverrideIsApproved'
  <2>1. \A t \in Steps : approval[t]["budget"].status = "approved"
                          => approval'[t]["budget"].status = "approved"
    BY <1>1 DEF Kinds
  <2> QED
    BY <1>2, <2>1 DEF StrictInv, ApprovalInv, BudgetOverrideIsApproved
<1> QED
  BY <1>1, <1>3, <1>4 DEF ApprovalInv

\* A decision is applied: the approval is settled, and a budget is lifted only by an
\* approved budget approval.
LEMMA AppliedSettles ==
    ASSUME StrictInv, faults' = 0, NEW s \in Steps, NEW k \in Kinds,
           EngineApplies(s, k) \/ ClientResume(s, k)
    PROVE  ApprovalInv'
<1>t. TypeOK /\ ApprovalShape
  BY DEF StrictInv, ApprovalInv
<1>1. /\ ApprovalShape'
      /\ \A t \in Steps, j \in Kinds :
            /\ approval'[t][j].status = approval[t][j].status
            /\ approval'[t][j].llm = approval[t][j].llm
      /\ \A t \in Steps, j \in Kinds :
            Outstanding(t, j)' <=> Outstanding(t, j) /\ (t # s \/ j # k)
  BY <1>t, AppliedShape
<1>2. "budget" \in Kinds
  BY DEF Kinds
<1>3. CASE runStatus \in Terminal
  <2>1. UNCHANGED <<runStatus, budgetOverridden>>
    BY <1>3, DecisionReaches DEF runVars, budgetVars
  <2> QED
    BY <1>1, <1>2, <1>3, <2>1
       DEF StrictInv, ApprovalInv, OutstandingBlocks, BudgetOverrideIsApproved
<1>4. CASE runStatus \notin Terminal /\ ShouldResume(s, k) /\ Requeue(s)
  <2>1. \A t \in Steps, j \in Kinds : ~Outstanding(t, j)'
    BY <1>1, <1>4, AppliedStep
  <2>2. blockedReason = "budget" => approval'[s]["budget"].status = "approved"
    <3>1. blockedReason = PauseReason(k)
      BY <1>4, AppliedStep
    <3>2. blockedReason = "budget" => k = "budget"
      BY <3>1 DEF PauseReason
    <3>3. k = "budget" => approval[s][k].status = "approved"
      BY <1>4, <1>t DEF ShouldResume, ApprovalShape
    <3> QED
      BY <3>2, <3>3, <1>1
  <2>3. BudgetOverrideIsApproved'
    BY <1>1, <1>2, <1>4, <2>2
       DEF Requeue, LiftsBudget, StrictInv, ApprovalInv, BudgetOverrideIsApproved
  <2> QED
    BY <1>1, <2>1, <2>3 DEF ApprovalInv, OutstandingBlocks
<1>5. CASE runStatus \notin Terminal /\ CancelRun
  <2>1. runStatus' = "cancelled" /\ budgetOverridden' = budgetOverridden
    BY <1>5 DEF CancelRun, budgetVars
  <2>2. BudgetOverrideIsApproved'
    BY <1>1, <1>2, <2>1 DEF StrictInv, ApprovalInv, BudgetOverrideIsApproved
  <2> QED
    BY <1>1, <2>1, <2>2 DEF ApprovalInv, OutstandingBlocks, Terminal
<1> QED
  BY <1>3, <1>4, <1>5, DecisionReaches

\* While an approval is outstanding nothing but its decision moves the run.
LEMMA ApprovalInvNext ==
    ASSUME StrictInv, [Next]_vars, faults' = 0 PROVE ApprovalInv'
<1> USE DEF runVars, stepVars, budgetVars, approvalVars, historyVars
<1>t. TypeOK
  BY DEF StrictInv
\* The approvals stay as they are and the run is over, or goes on and was not waiting.
<1>same. ASSUME approval' = approval, applied' = applied, budgetOverridden' = budgetOverridden,
                \/ runStatus' \in Terminal
                \/ runStatus \notin Terminal /\ runStatus # "paused"
                \/ UNCHANGED <<runStatus, blockedReason, stepStatus>>
         PROVE  ApprovalInv'
  <2>1. ApprovalShape' /\ BudgetOverrideIsApproved'
    BY <1>same DEF StrictInv, ApprovalInv, ApprovalShape, BudgetOverrideIsApproved
  <2>2. CASE runStatus' \in Terminal
    BY <2>1, <2>2 DEF ApprovalInv, OutstandingBlocks
  <2>3. CASE runStatus \notin Terminal /\ runStatus # "paused"
    <3>1. \A s \in Steps, k \in Kinds : ~Outstanding(s, k)'
      BY <1>same, <2>3, NothingOutstanding DEF Outstanding
    <3> QED
      BY <2>1, <3>1 DEF ApprovalInv, OutstandingBlocks
  <2>4. CASE UNCHANGED <<runStatus, blockedReason, stepStatus>>
    BY <1>same, <2>1, <2>4 DEF StrictInv, ApprovalInv, OutstandingBlocks, Outstanding
  <2> QED
    BY <1>same, <2>2, <2>3, <2>4
<1>1. CASE UNCHANGED vars
  BY <1>1, <1>same DEF vars
<1>2. ASSUME NEW w \in Workers, ClaimNothingLeft(w) PROVE ApprovalInv'
  BY <1>2, <1>same DEF ClaimNothingLeft, Terminal
<1>3. ASSUME NEW w \in Workers, NEW s \in Steps,
             RecoverExhausted(w, s) \/ ClaimPolicyDenied(w, s)
      PROVE  ApprovalInv'
  BY <1>3, <1>same DEF RecoverExhausted, ClaimPolicyDenied, FailRun, Terminal
<1>4. ASSUME NEW w \in Workers, NEW s \in Steps, RecoverNeedsApproval(w, s)
      PROVE  ApprovalInv'
  <2>1. runStatus \notin Terminal /\ runStatus # "paused" /\ stepStatus'[s] \in Open
    BY <1>4 DEF RecoverNeedsApproval, Claimable, NextOpenStep, Terminal
  <2>2. PauseRun(s, "retry", FALSE) /\ UNCHANGED <<budgetOverridden, applied>>
    BY <1>4 DEF RecoverNeedsApproval
  <2> QED
    BY <2>1, <2>2, PauseBlocks DEF Kinds
<1>5. ASSUME NEW w \in Workers, NEW s \in Steps,
             ClaimBudgetPause(w, s) \/ ClaimPolicyPause(w, s)
      PROVE  ApprovalInv'
  <2>1. runStatus \notin Terminal /\ runStatus # "paused"
    BY <1>5 DEF ClaimBudgetPause, ClaimPolicyPause, Startable, Claimable, Terminal
  <2>2. stepStatus'[s] \in Open
    BY <1>5, <1>t DEF ClaimBudgetPause, ClaimPolicyPause, TypeOK, Open
  <2>3. /\ PauseRun(s, "budget", FALSE) \/ PauseRun(s, "policy", FALSE)
        /\ UNCHANGED <<budgetOverridden, applied>>
    BY <1>5 DEF ClaimBudgetPause, ClaimPolicyPause
  <2> QED
    BY <2>1, <2>2, <2>3, PauseBlocks DEF Kinds
<1>6. ASSUME NEW w \in Workers, NEW s \in Steps,
             ClaimWorkspaceBusy(w, s) \/ StartStep(w, s)
      PROVE  ApprovalInv'
  BY <1>6, <1>same DEF ClaimWorkspaceBusy, StartStep, Startable, Claimable, Terminal
<1>7. ASSUME NEW w \in Workers, FinishDiscarded(w) \/ LoseClaim(w) \/ Crash(w)
      PROVE  ApprovalInv'
  BY <1>7, <1>same DEF FinishDiscarded, LoseClaim, Crash
<1>8. ASSUME NEW w \in Workers, FinishSucceeded(w) \/ FinishRetry(w) \/ FinishFailed(w)
      PROVE  ApprovalInv'
  <2>1. runStatus = "running"
    BY <1>8, FinishingOwner DEF FinishSucceeded, FinishRetry, FinishFailed
  <2> QED
    BY <1>8, <2>1, <1>same DEF FinishSucceeded, FinishRetry, FinishFailed, Terminal
<1>9. ASSUME NEW w \in Workers, FinishPaused(w) PROVE ApprovalInv'
  <2>1. claim[w].step \in Steps /\ runStatus = "running"
    BY <1>9, FinishingOwner DEF FinishPaused
  <2>2. PICK k \in Kinds, llm \in BOOLEAN :
             PauseRequested(claim[w].step, k, llm) /\ PauseRun(claim[w].step, k, llm)
    BY <1>9 DEF FinishPaused
  <2>3. llm => k = "policy"
    BY <2>2 DEF PauseRequested
  <2>4. stepStatus'[claim[w].step] \in Open /\ UNCHANGED <<budgetOverridden, applied>>
    BY <1>9, <2>1, <1>t DEF FinishPaused, TypeOK, Open
  <2>5. runStatus \notin Terminal /\ runStatus # "paused"
    BY <2>1 DEF Terminal
  <2> QED
    BY <2>1, <2>2, <2>3, <2>4, <2>5, PauseBlocks
<1>10. ASSUME NEW s \in Steps, NEW k \in Kinds,
              \/ \E d \in {"approved", "denied"} : Decide(s, k, d)
              \/ Expire(s, k)
       PROVE  ApprovalInv'
  BY <1>10, DecisionBlocks
<1>12. CASE ClientCancel
  BY <1>12, <1>same DEF ClientCancel, CancelRun, Terminal
<1>13. ASSUME NEW n \in StepCounts, CreateRun(n) PROVE ApprovalInv'
  BY <1>13, <1>same DEF CreateRun, Terminal
<1>14. CASE LeaseExpires \/ BudgetElapses
  BY <1>14, <1>same DEF LeaseExpires, BudgetElapses
<1> QED
  BY <1>1, <1>2, <1>3, <1>4, <1>5, <1>6, <1>7, <1>8, <1>9, <1>10, <1>12, <1>13, <1>14,
     NextCases, AppliedSettles

-----------------------------------------------------------------------------
(* The theorems.                                                           *)

LEMMA StrictInit == Init => StrictInv
<1> SUFFICES ASSUME Init PROVE StrictInv
  OBVIOUS
<1>1. TypeOK /\ LeaseIffRunning
  BY FaultInit DEF FaultInv
<1>2. StepInv
  BY StepNumbers DEF Init, StepInv, PlanShape, BegunStepWasStarted, StepsInOrder, NoDeadStep,
                     SucceededRunIsComplete
<1>3. ExecutorOwnsRun
  BY StepNumbers DEF Init, ExecutorOwnsRun, Executing, Idle
<1>4. \A s \in Steps, k \in Kinds : approval[s][k] = NoApproval
  BY DEF Init
<1>5. ApprovalInv
  BY <1>4 DEF Init, ApprovalInv, OutstandingBlocks, Outstanding, ApprovalShape, NoApproval,
              BudgetOverrideIsApproved
<1> QED
  BY <1>1, <1>2, <1>3, <1>5 DEF Init, StrictInv

\* The number of faults never falls.
LEMMA FaultsGrow == TypeOK /\ [Next]_vars => faults' \in Nat /\ faults' >= faults
<1> SUFFICES ASSUME TypeOK, [Next]_vars PROVE faults' \in Nat /\ faults' >= faults
  OBVIOUS
<1>n. faults \in Nat
  BY DEF TypeOK
<1>1. ASSUME NEW s \in Steps, NEW k \in Kinds, EngineApplies(s, k) \/ ClientResume(s, k)
      PROVE  faults' \in Nat /\ faults' >= faults
  BY <1>1, <1>n, DecisionReaches DEF Applied
<1>2. CASE LeaseExpires
  BY <1>2, <1>n DEF LeaseExpires
<1>3. CASE faults' = faults
  BY <1>3, <1>n
<1> QED
  BY <1>1, <1>2, <1>3, NextCases
     DEF vars, ClaimNothingLeft, RecoverExhausted, RecoverNeedsApproval, ClaimBudgetPause,
         ClaimPolicyDenied, ClaimPolicyPause, ClaimWorkspaceBusy, StartStep, FinishDiscarded,
         FinishSucceeded, FinishRetry, FinishFailed, FinishPaused, LoseClaim, Crash, Decide,
         Expire, ClientCancel, CreateRun, BudgetElapses, historyVars

\* LeaseIffRunning comes with FaultInv, so the two invariants are carried together.
LEMMA StrictNext ==
    FaultInv /\ (faults = 0 => StrictInv) /\ [Next]_vars => (faults' = 0 => StrictInv')
<1> SUFFICES ASSUME FaultInv, faults = 0 => StrictInv, [Next]_vars, faults' = 0
             PROVE  StrictInv'
  OBVIOUS
<1>1. TypeOK' /\ LeaseIffRunning'
  BY FaultNext DEF FaultInv
<1>2. StrictInv
  BY FaultsGrow DEF FaultInv, TypeOK
<1> QED
  BY <1>1, <1>2, StepInvNext, ExecutorNext, ApprovalInvNext DEF StrictInv

\* So it always holds until the first fault.
LEMMA AlwaysStrict == Spec => [](faults = 0 => StrictInv)
<1>1. Init => FaultInv /\ (faults = 0 => StrictInv)
  BY FaultInit, StrictInit
<1>2. FaultInv /\ (faults = 0 => StrictInv) /\ [Next]_vars
         => (FaultInv /\ (faults = 0 => StrictInv))'
  BY FaultNext, StrictNext
<1> QED
  BY <1>1, <1>2, PTL DEF Spec

\* The promises of claimNextWorkflowRunStep and executeWorkflowRunClaim until the first
\* fault: a run is executed by the holder of its lease only, and nothing moves while an
\* approval is undecided.
THEOREM StrictSafety == Spec => [](ExecutorHoldsLease /\ PausedWhilePending)
<1>1. (faults = 0 => StrictInv) => ExecutorHoldsLease
  BY DEF StrictInv, ExecutorOwnsRun, ExecutorHoldsLease, Live, Terminal
<1>2. (faults = 0 => StrictInv) => PausedWhilePending
  <2> SUFFICES ASSUME StrictInv, runStatus \notin Terminal, NEW s \in Steps, NEW k \in Kinds,
                      approval[s][k].status = "pending"
               PROVE  runStatus = "paused"
    BY DEF PausedWhilePending
  <2>1. Outstanding(s, k)
    BY DEF StrictInv, ApprovalInv, ApprovalShape, Outstanding
  <2> QED
    BY <2>1 DEF StrictInv, ApprovalInv, OutstandingBlocks
<1> QED
  BY <1>1, <1>2, AlwaysStrict, PTL

\* No step is started before every earlier one succeeded, although a claim only looks for
\* the first open step, until a resume puts a step back to the queue a second time or a
\* lease lapses on an executor.
THEOREM StepsDoneInOrder == Spec => []StepsInOrder
<1>1. (faults = 0 => StrictInv) => StepsInOrder
  BY DEF StrictInv, StepInv, StepsInOrder
<1> QED
  BY <1>1, AlwaysStrict, PTL

\* A run without a fault that is reported succeeded did all its steps, although the
\* transaction that completes it looks at the number of its own step only.
THEOREM SuccessIsComplete == Spec => []SucceededRunIsComplete
<1>1. (faults = 0 => StrictInv) => SucceededRunIsComplete
  BY DEF StrictInv, StepInv, SucceededRunIsComplete
<1> QED
  BY <1>1, AlwaysStrict, PTL

\* Until the first fault only an approved budget approval lifts the budget, although the
\* resuming transaction looks at the reason the run is blocked for and not at the kind of
\* the approval whose token it is given.
THEOREM BudgetLiftIsApproved == Spec => []BudgetOverrideIsApproved
<1>1. (faults = 0 => StrictInv) => BudgetOverrideIsApproved
  BY DEF StrictInv, ApprovalInv, BudgetOverrideIsApproved
<1> QED
  BY <1>1, AlwaysStrict, PTL

\* Only a fault takes the recorded success of a step back: a step that succeeded is put back
\* to the queue, or closed, by no step of a run without one.
THEOREM SuccessIsFinal == Spec => SuccessNeedsFault
<1>1. ASSUME StrictInv, [Next]_vars, faults' = 0, NEW s \in Steps, stepStatus[s] = "succeeded"
      PROVE  stepStatus'[s] = "succeeded"
  <2> USE <1>1 DEF runVars, stepVars
  <2>t. TypeOK
    BY DEF StrictInv
  <2>move. ASSUME NEW t \in Steps, stepStatus[t] \in Open, NEW st,
                  stepStatus' = [stepStatus EXCEPT ![t] = st]
           PROVE  stepStatus'[s] = "succeeded"
    BY <2>move, <2>t DEF TypeOK, Open
  <2>close. ASSUME NEW t \in 0..MaxSteps, t \in Steps => stepStatus[t] \in Open, NEW own,
                   stepStatus' = CloseSteps(t, own)
            PROVE  stepStatus'[s] = "succeeded"
    BY <2>close DEF CloseSteps, Open
  <2>1. CASE UNCHANGED vars
    BY <2>1 DEF vars
  <2>2. ASSUME NEW w \in Workers, NEW t \in Steps, NextOpenStep(t),
               \/ stepStatus' = stepStatus
               \/ \E st : stepStatus' = [stepStatus EXCEPT ![t] = st]
               \/ stepStatus' = CloseSteps(t, "failed")
        PROVE  stepStatus'[s] = "succeeded"
    BY <2>2, <2>move, <2>close, StepNumbers DEF NextOpenStep
  <2>3. ASSUME NEW w \in Workers, NEW t \in Steps,
               \/ RecoverExhausted(w, t)
               \/ RecoverNeedsApproval(w, t)
               \/ ClaimBudgetPause(w, t)
               \/ ClaimPolicyDenied(w, t)
               \/ ClaimPolicyPause(w, t)
               \/ ClaimWorkspaceBusy(w, t)
               \/ StartStep(w, t)
        PROVE  stepStatus'[s] = "succeeded"
    <3>1. NextOpenStep(t)
      BY <2>3 DEF RecoverExhausted, RecoverNeedsApproval, ClaimBudgetPause, ClaimPolicyDenied,
                  ClaimPolicyPause, ClaimWorkspaceBusy, StartStep, Startable
    <3>2. \/ stepStatus' = stepStatus
          \/ \E st : stepStatus' = [stepStatus EXCEPT ![t] = st]
          \/ stepStatus' = CloseSteps(t, "failed")
      BY <2>3 DEF RecoverExhausted, RecoverNeedsApproval, ClaimBudgetPause, ClaimPolicyDenied,
                  ClaimPolicyPause, ClaimWorkspaceBusy, StartStep, FailRun
    <3> QED
      BY <2>2, <3>1, <3>2
  <2>4. ASSUME NEW w \in Workers,
               \/ ClaimNothingLeft(w)
               \/ FinishDiscarded(w)
               \/ LoseClaim(w)
               \/ Crash(w)
        PROVE  stepStatus'[s] = "succeeded"
    BY <2>4 DEF ClaimNothingLeft, FinishDiscarded, LoseClaim, Crash
  <2>5. ASSUME NEW w \in Workers,
               FinishSucceeded(w) \/ FinishRetry(w) \/ FinishFailed(w) \/ FinishPaused(w)
        PROVE  stepStatus'[s] = "succeeded"
    <3>1. claim[w].step \in Steps /\ stepStatus[claim[w].step] \in Open
      BY <2>5, FinishingOwner
         DEF FinishSucceeded, FinishRetry, FinishFailed, FinishPaused, Open
    <3>2. \/ \E st : stepStatus' = [stepStatus EXCEPT ![claim[w].step] = st]
          \/ stepStatus' = CloseSteps(claim[w].step, "failed")
      BY <2>5 DEF FinishSucceeded, FinishRetry, FinishFailed, FinishPaused, FailRun
    <3> QED
      BY <3>1, <3>2, <2>move, <2>close, StepNumbers
  <2>6. ASSUME NEW t \in Steps, NEW k \in Kinds,
               \/ \E d \in {"approved", "denied"} : Decide(t, k, d)
               \/ Expire(t, k)
        PROVE  stepStatus'[s] = "succeeded"
    BY <2>6 DEF Decide, Expire
  <2>7. ASSUME NEW t \in Steps, NEW k \in Kinds, EngineApplies(t, k) \/ ClientResume(t, k)
        PROVE  stepStatus'[s] = "succeeded"
    <3>1. CASE runStatus \in Terminal
      BY <2>7, <3>1, DecisionReaches
    <3>2. CASE runStatus \notin Terminal
      <4>1. stepStatus[t] \in Open
        BY <2>7, <3>2, AppliedStep
      <4>2. \/ stepStatus' = [stepStatus EXCEPT ![t] = "queued"]
            \/ stepStatus' = CloseSteps(0, "cancelled")
        BY <2>7, <3>2, DecisionReaches DEF Requeue, CancelRun
      <4> QED
        BY <4>1, <4>2, <2>move, <2>close, StepNumbers
    <3> QED
      BY <3>1, <3>2
  <2>9. CASE ClientCancel
    BY <2>9, <2>close, StepNumbers DEF ClientCancel, CancelRun
  <2>10. ASSUME NEW n \in StepCounts, CreateRun(n) PROVE FALSE
    <3>1. numSteps = 0
      BY <2>10 DEF CreateRun, StrictInv, StepInv, PlanShape
    <3> QED
      BY <3>1, StepNumbers DEF StrictInv, StepInv, PlanShape
  <2>11. CASE LeaseExpires \/ BudgetElapses
    BY <2>11 DEF LeaseExpires, BudgetElapses
  <2> QED
    BY <2>1, <2>3, <2>4, <2>5, <2>6, <2>7, <2>9, <2>10, <2>11, NextCases
<1>2. /\ TypeOK
      /\ faults = 0 => StrictInv
      /\ [Next]_vars
      => [faults' = 0 =>
             \A s \in Steps : stepStatus[s] = "succeeded" => stepStatus'[s] = "succeeded"]_vars
  BY <1>1, FaultsGrow DEF TypeOK
<1> QED
  BY <1>2, TypeCorrect, AlwaysStrict, PTL DEF Spec, SuccessNeedsFault

-----------------------------------------------------------------------------
(* The run implements RunPromise.                                          *)

\* What became of an approval that the run waits for, and the answer in those terms.
AnswerTo(s, k) ==
    IF approval[s][k].status = "pending" THEN "pending"
    ELSE IF ShouldResume(s, k) THEN "resume" ELSE "cancel"

AnswerRule ==
    /\ runStatus \in Terminal => answerBar = "none"
    /\ runStatus \notin Terminal /\ runStatus # "paused" => answerBar = "none"
    /\ (\A s \in Steps, k \in Kinds : ~Outstanding(s, k)) => answerBar = "none"
    /\ runStatus \notin Terminal => \A s \in Steps, k \in Kinds :
          Outstanding(s, k) => answerBar = AnswerTo(s, k)

LEMMA AnswerRuleHolds == StrictInv => AnswerRule
<1> SUFFICES ASSUME StrictInv PROVE AnswerRule
  OBVIOUS
<1>p. ASSUME NEW s \in Steps, NEW k \in Kinds, approval[s][k].status = "pending"
      PROVE  Outstanding(s, k)
  BY <1>p DEF StrictInv, ApprovalInv, ApprovalShape, Outstanding
<1>1. ASSUME \A s \in Steps, k \in Kinds : ~Outstanding(s, k) PROVE answerBar = "none"
  BY <1>1, <1>p DEF answerBar
<1>2. ASSUME runStatus \notin Terminal, NEW s \in Steps, NEW k \in Kinds, Outstanding(s, k)
      PROVE  answerBar = AnswerTo(s, k)
  <2>1. \A t \in Steps, j \in Kinds : Outstanding(t, j) => t = s /\ j = k
    BY <1>2 DEF StrictInv, ApprovalInv, OutstandingBlocks
  <2>2. (\E t \in Steps, j \in Kinds : approval[t][j].status = "pending")
           <=> approval[s][k].status = "pending"
    BY <1>p, <2>1
  <2>3. (\E t \in Steps, j \in Kinds : Outstanding(t, j) /\ ShouldResume(t, j))
           <=> ShouldResume(s, k)
    BY <1>2, <2>1
  <2>4. \E t \in Steps, j \in Kinds : Outstanding(t, j)
    BY <1>2
  <2> QED
    BY <1>2, <2>2, <2>3, <2>4 DEF answerBar, AnswerTo
<1>3. runStatus \in Terminal => answerBar = "none"
  BY DEF answerBar
<1>4. runStatus \notin Terminal /\ runStatus # "paused" => answerBar = "none"
  BY <1>1, NothingOutstanding
<1> QED
  BY <1>1, <1>2, <1>3, <1>4 DEF AnswerRule

\* A run that goes on with nobody executing it.
LEMMA NobodyExecutes ==
    ASSUME TypeOK, \A w \in Workers : ~Executing(w)
    PROVE  executingBar = Promise!Nobody
<1>1. \A w \in Workers : claim[w].step = 0
  BY StepNumbers DEF TypeOK, Executing, Claim, Steps
<1> QED
  BY <1>1 DEF executingBar, Promise!Nobody

\* What the changes of the claims and of the steps mean.
LEMMA MappedClaims ==
    ASSUME TypeOK
    PROVE  /\ claim' = claim => executingBar' = executingBar
           /\ \A w \in Workers : claim' = [claim EXCEPT ![w] = Idle]
                 => executingBar' = [executingBar EXCEPT ![w] = 0]
           /\ \A w \in Workers, s \in Steps, n \in Nat :
                 claim' = [claim EXCEPT ![w] = [step |-> s, attempt |-> n]]
                 => executingBar' = [executingBar EXCEPT ![w] = s]
<1>1. claim' = claim => executingBar' = executingBar
  BY DEF executingBar
<1>2. ASSUME NEW w \in Workers, NEW s, NEW n,
             claim' = [claim EXCEPT ![w] = [step |-> s, attempt |-> n]]
      PROVE  executingBar' = [executingBar EXCEPT ![w] = s]
  <2>1. \A v \in Workers : claim'[v].step = IF v = w THEN s ELSE claim[v].step
    BY <1>2 DEF TypeOK
  <2> QED
    BY <2>1 DEF executingBar
<1> QED
  BY <1>1, <1>2 DEF Idle

LEMMA MappedSteps ==
    ASSUME TypeOK
    PROVE  /\ stepStatus' = stepStatus => finishedBar' = finishedBar
           /\ \A s \in Steps : \A st :
                 /\ stepStatus[s] # "succeeded"
                 /\ st # "succeeded"
                 /\ stepStatus' = [stepStatus EXCEPT ![s] = st]
                 => finishedBar' = finishedBar
           /\ \A s \in Steps : stepStatus' = [stepStatus EXCEPT ![s] = "succeeded"]
                 => finishedBar' = finishedBar \cup {s}
           /\ \A s \in 0..MaxSteps, st \in {"failed", "cancelled"} :
                 /\ s \in Steps => stepStatus[s] # "succeeded"
                 /\ stepStatus' = CloseSteps(s, st)
                 => finishedBar' = finishedBar
<1>1. ASSUME stepStatus' = stepStatus PROVE finishedBar' = finishedBar
  BY <1>1 DEF finishedBar
<1>2. ASSUME NEW s \in Steps, NEW st, stepStatus[s] # "succeeded", st # "succeeded",
             stepStatus' = [stepStatus EXCEPT ![s] = st]
      PROVE  finishedBar' = finishedBar
  BY <1>2 DEF finishedBar, TypeOK
<1>3. ASSUME NEW s \in Steps, stepStatus' = [stepStatus EXCEPT ![s] = "succeeded"]
      PROVE  finishedBar' = finishedBar \cup {s}
  BY <1>3 DEF finishedBar, TypeOK
<1>4. ASSUME NEW s \in 0..MaxSteps, NEW st \in {"failed", "cancelled"},
             s \in Steps => stepStatus[s] # "succeeded", stepStatus' = CloseSteps(s, st)
      PROVE  finishedBar' = finishedBar
  <2>1. \A t \in Steps : stepStatus'[t] = "succeeded" <=> stepStatus[t] = "succeeded"
    BY <1>4 DEF CloseSteps, Open
  <2> QED
    BY <2>1 DEF finishedBar
<1> QED
  BY <1>1, <1>2, <1>3, <1>4

-----------------------------------------------------------------------------
(* The steps, seen through the mapping.                                    *)

\* A step of the promise that no fault has voided, or one it does not see.
KeptStep ==
    \/ Promise!Kept
    \/ UNCHANGED <<stateBar, numSteps, finishedBar, executingBar, answerBar>>

\* A run that is claimed or whose outcome is recorded goes on, and awaits no answer.
LEMMA Going ==
    ASSUME StrictInv, runStatus \in {"queued", "running"}
    PROVE  stateBar = "going" /\ answerBar = "none"
  BY AnswerRuleHolds DEF stateBar, AnswerRule, Terminal

\* The step a claim picks: it is part of the plan, not done, and all before it are.
LEMMA PickedStep ==
    ASSUME StrictInv, NEW w \in Workers, NEW s \in Steps, Claimable(w), NextOpenStep(s)
    PROVE  /\ stateBar = "going" /\ answerBar = "none"
           /\ s \in (1..numSteps) \ finishedBar
           /\ 1..(s - 1) \subseteq finishedBar
           /\ stepStatus[s] # "succeeded"
<1>1. stateBar = "going" /\ answerBar = "none"
  BY Going DEF Claimable
<1>2. stepStatus[s] \notin {"none", "succeeded"}
  BY DEF NextOpenStep, Open
<1>3. s \in 1..numSteps
  BY <1>2, StepNumbers DEF StrictInv, StepInv, PlanShape, TypeOK, Steps
<1>4. 1..(s - 1) \subseteq finishedBar
  BY <1>3, ClaimedStep, StepNumbers DEF finishedBar, Steps
<1> QED
  BY <1>1, <1>2, <1>3, <1>4 DEF finishedBar

\* Pausing a run nobody else executes.
LEMMA PauseAsks ==
    ASSUME StrictInv, StrictInv', NEW s \in Steps, NEW k \in Kinds, NEW llm \in BOOLEAN,
           runStatus \in {"queued", "running"}, PauseRun(s, k, llm), numSteps' = numSteps,
           applied' = applied, finishedBar' = finishedBar, executingBar' = Promise!Nobody
    PROVE  Promise!Ask
<1>1. stateBar' = "waiting"
  BY DEF PauseRun, stateBar
<1>2. AnswerRule'
  BY AnswerRuleHolds, PTL
<1>3. CASE approval[s][k].status = "none"
  <2>1. approval'[s][k].status = "pending"
    BY <1>3 DEF PauseRun, StrictInv, TypeOK
  <2>2. Outstanding(s, k)'
    BY <2>1 DEF StrictInv, ApprovalInv, ApprovalShape, Outstanding
  <2>3. answerBar' = "pending"
    BY <1>2, <2>1, <2>2 DEF AnswerRule, AnswerTo, PauseRun, Terminal
  <2> QED
    BY <1>1, <2>3, Going DEF Promise!Ask
<1>4. CASE approval' = approval
  <2>1. \A t \in Steps, j \in Kinds : ~Outstanding(t, j)
    BY NothingOutstanding DEF Terminal
  <2>2. \A t \in Steps, j \in Kinds : ~Outstanding(t, j)'
    BY <1>4, <2>1 DEF Outstanding
  <2>3. answerBar' = "none"
    BY <1>2, <2>2 DEF AnswerRule
  <2> QED
    BY <1>1, <2>3, Going DEF Promise!Ask
<1> QED
  BY <1>3, <1>4 DEF PauseRun, approvalVars

\* The claim's transaction.
LEMMA ClaimPromised ==
    ASSUME StrictInv, StrictInv', NEW w \in Workers, NEW s \in Steps,
           \/ RecoverExhausted(w, s)
           \/ RecoverNeedsApproval(w, s)
           \/ ClaimBudgetPause(w, s)
           \/ ClaimPolicyDenied(w, s)
           \/ ClaimPolicyPause(w, s)
           \/ ClaimWorkspaceBusy(w, s)
           \/ StartStep(w, s)
    PROVE  KeptStep
<1> USE DEF runVars, stepVars, budgetVars, approvalVars, workerVars, historyVars
<1>t. TypeOK
  BY DEF StrictInv
<1>c. Claimable(w) /\ NextOpenStep(s)
  BY DEF RecoverExhausted, RecoverNeedsApproval, ClaimBudgetPause, ClaimPolicyDenied,
         ClaimPolicyPause, ClaimWorkspaceBusy, StartStep, Startable
<1>p. /\ stateBar = "going" /\ answerBar = "none"
      /\ s \in (1..numSteps) \ finishedBar
      /\ 1..(s - 1) \subseteq finishedBar
      /\ stepStatus[s] # "succeeded"
  BY <1>c, PickedStep
<1>r. runStatus \in {"queued", "running"}
  BY <1>c DEF Claimable
<1>n. ASSUME stepStatus[s] = "queued" \/ ~AttemptsExhausted(s)
      PROVE  executingBar = Promise!Nobody
  BY <1>c, <1>n, <1>t, ClaimExcludesExecution, NobodyExecutes
<1>1. CASE RecoverExhausted(w, s) \/ ClaimPolicyDenied(w, s)
  <2>1. /\ stateBar' = "failed" /\ answerBar' = "none"
        /\ stepStatus' = CloseSteps(s, "failed")
        /\ UNCHANGED <<numSteps, claim>>
    BY <1>1 DEF RecoverExhausted, ClaimPolicyDenied, FailRun, stateBar, answerBar, Terminal
  <2>2. UNCHANGED <<finishedBar, executingBar>>
    BY <1>p, <1>t, <2>1, StepNumbers, MappedSteps, MappedClaims
  <2> QED
    BY <1>p, <2>1, <2>2 DEF KeptStep, Promise!Kept, Promise!Fail
<1>2. CASE RecoverNeedsApproval(w, s)
  <2>1. /\ PauseRun(s, "retry", FALSE) /\ "retry" \in Kinds
        /\ UNCHANGED <<numSteps, stepStatus, claim, applied>>
        /\ ~AttemptsExhausted(s)
    BY <1>2 DEF RecoverNeedsApproval, Kinds
  <2>2. finishedBar' = finishedBar /\ executingBar' = Promise!Nobody
    BY <1>t, <1>n, <2>1, MappedSteps, MappedClaims
  <2>3. Promise!Ask
    BY <1>r, <2>1, <2>2, PauseAsks
  <2> QED
    BY <2>3 DEF KeptStep, Promise!Kept
<1>3. CASE ClaimBudgetPause(w, s) \/ ClaimPolicyPause(w, s)
  <2>1. /\ PauseRun(s, "budget", FALSE) \/ PauseRun(s, "policy", FALSE)
        /\ stepStatus' = [stepStatus EXCEPT ![s] = "queued"]
        /\ UNCHANGED <<numSteps, claim, applied>>
        /\ stepStatus[s] = "queued" \/ ~AttemptsExhausted(s)
    BY <1>3 DEF ClaimBudgetPause, ClaimPolicyPause, Startable
  <2>2. finishedBar' = finishedBar
    BY <1>t, <1>p, <2>1, MappedSteps
  <2>3. executingBar' = Promise!Nobody
    BY <1>t, <1>n, <2>1, MappedClaims
  <2>4. Promise!Ask
    <3>1. "budget" \in Kinds /\ "policy" \in Kinds
      BY DEF Kinds
    <3> QED
      BY <1>r, <2>1, <2>2, <2>3, <3>1, PauseAsks
  <2> QED
    BY <2>4 DEF KeptStep, Promise!Kept
<1>4. CASE ClaimWorkspaceBusy(w, s)
  <2>1. /\ stepStatus' = [stepStatus EXCEPT ![s] = "queued"]
        /\ UNCHANGED <<runStatus, approval, numSteps, claim, applied>>
    BY <1>4 DEF ClaimWorkspaceBusy
  <2>2. UNCHANGED <<finishedBar, executingBar>>
    BY <1>t, <1>p, <2>1, MappedSteps, MappedClaims
  <2>3. UNCHANGED <<stateBar, answerBar>>
    BY <2>1 DEF stateBar, answerBar, Outstanding, ShouldResume
  <2> QED
    BY <2>1, <2>2, <2>3 DEF KeptStep
<1>5. CASE StartStep(w, s)
  <2>1. /\ stepStatus' = [stepStatus EXCEPT ![s] = "running"]
        /\ claim' = [claim EXCEPT ![w] = [step |-> s, attempt |-> attemptCount[s] + 1]]
        /\ runStatus' = "running"
        /\ UNCHANGED <<approval, numSteps>>
        /\ stepStatus[s] = "queued" \/ ~AttemptsExhausted(s)
    BY <1>5 DEF StartStep, Startable
  <2>2. attemptCount[s] + 1 \in Nat
    BY <1>t DEF TypeOK
  <2>3. finishedBar' = finishedBar /\ executingBar' = [executingBar EXCEPT ![w] = s]
    BY <1>t, <1>p, <2>1, <2>2, MappedSteps, MappedClaims
  <2>4. executingBar = Promise!Nobody
    BY <1>n, <2>1
  <2>5. stateBar' = "going" /\ answerBar' = "none"
    <3>1. AnswerRule'
      BY AnswerRuleHolds, PTL
    <3> QED
      BY <2>1, <3>1 DEF stateBar, AnswerRule, Terminal
  <2>6. Promise!Begin(w)
    BY <1>p, <2>1, <2>3, <2>4, <2>5 DEF Promise!Begin
  <2> QED
    BY <2>6 DEF KeptStep, Promise!Kept
<1> QED
  BY <1>1, <1>2, <1>3, <1>4, <1>5

\* The transaction that records an outcome, and the workers that never come to it.
LEMMA OutcomePromised ==
    ASSUME StrictInv, StrictInv', NEW w \in Workers,
           \/ FinishDiscarded(w)
           \/ FinishSucceeded(w)
           \/ FinishRetry(w)
           \/ FinishFailed(w)
           \/ FinishPaused(w)
           \/ LoseClaim(w)
           \/ Crash(w)
    PROVE  KeptStep
<1> USE DEF runVars, stepVars, budgetVars, approvalVars, historyVars
<1> DEFINE s == claim[w].step
<1>t. TypeOK /\ AnswerRule'
  BY AnswerRuleHolds, PTL DEF StrictInv
<1>c. claim' = [claim EXCEPT ![w] = Idle]
  BY DEF FinishDiscarded, FinishSucceeded, FinishRetry, FinishFailed, FinishPaused, LoseClaim,
         Crash, Finishing
<1>e. executingBar' = [executingBar EXCEPT ![w] = 0] /\ executingBar[w] = s
  BY <1>c, <1>t, MappedClaims DEF executingBar
<1>o. ASSUME Finishing(w)
      PROVE  /\ s \in Steps /\ runStatus = "running" /\ stepStatus[s] = "running"
             /\ stateBar = "going" /\ answerBar = "none"
             /\ \A v \in Workers : Executing(v) => v = w
  BY <1>o, FinishingOwner, Going
<1>1. CASE FinishDiscarded(w) \/ LoseClaim(w) \/ Crash(w)
  <2>1. UNCHANGED <<runStatus, numSteps, stepStatus, approval, applied>>
    BY <1>1 DEF FinishDiscarded, LoseClaim, Crash
  <2>2. UNCHANGED <<stateBar, finishedBar, answerBar>>
    BY <1>t, <2>1, MappedSteps DEF stateBar, answerBar, Outstanding, ShouldResume
  <2>3. CASE s # 0
    BY <1>e, <2>1, <2>2, <2>3 DEF KeptStep, Promise!Kept, Promise!Stop
  <2>4. CASE s = 0
    <3>1. executingBar' = executingBar
      BY <1>e, <2>4 DEF executingBar
    <3> QED
      BY <2>1, <2>2, <3>1 DEF KeptStep
  <2> QED
    BY <2>3, <2>4
<1>2. CASE FinishSucceeded(w)
  <2>1. /\ s \in Steps /\ stepStatus[s] = "running" /\ stateBar = "going" /\ answerBar = "none"
        /\ stepStatus' = [stepStatus EXCEPT ![s] = "succeeded"]
        /\ runStatus' = StatusAfterSuccess(s)
        /\ numSteps' = numSteps
    BY <1>2, <1>o DEF FinishSucceeded
  <2>2. finishedBar' = finishedBar \cup {s}
    BY <1>t, <2>1, MappedSteps
  <2>3. s \in (1..numSteps) \ finishedBar
    BY <1>t, <2>1, StepNumbers
       DEF StrictInv, StepInv, PlanShape, TypeOK, Steps, finishedBar
  <2>4. s = numSteps => finishedBar \cup {s} = 1..numSteps
    <3>1. ASSUME NEW r \in 1..numSteps, r < s PROVE r \in finishedBar
      <4>1. r \in Steps /\ attemptCount[s] > 0
        BY <2>1, <2>3, <3>1, <1>t, StepNumbers
           DEF StrictInv, StepInv, BegunStepWasStarted, Steps, TypeOK
      <4> QED
        BY <2>1, <3>1, <4>1 DEF StrictInv, StepInv, StepsInOrder, finishedBar
    <3>2. finishedBar \subseteq 1..numSteps
      BY <1>t, StepNumbers DEF StrictInv, StepInv, PlanShape, TypeOK, Steps, finishedBar
    <3>3. ASSUME s = numSteps, NEW r \in 1..numSteps PROVE r \in finishedBar \cup {s}
      <4>1. r < s \/ r = s
        BY <3>3, <1>t DEF TypeOK
      <4> QED
        BY <3>1, <4>1
    <3> QED
      BY <2>3, <3>2, <3>3
  <2>5. s # numSteps => numSteps \in (1..numSteps) \ (finishedBar \cup {s})
    <3>1. SUFFICES ASSUME s # numSteps
                   PROVE  numSteps \in Steps /\ numSteps > s /\ numSteps # 0
      BY <2>1, <1>t, OpenStepIsLast, StepNumbers DEF Open, finishedBar, TypeOK
    <3> QED
      BY <3>1, <2>3, <1>t, StepNumbers DEF TypeOK, Steps
  <2>6. stateBar' = (IF finishedBar' = 1..numSteps THEN "succeeded" ELSE "going")
    <3>1. CASE s = numSteps
      BY <2>1, <2>2, <2>4, <3>1 DEF StatusAfterSuccess, stateBar
    <3>2. CASE s # numSteps
      BY <2>1, <2>2, <2>5, <3>2 DEF StatusAfterSuccess, stateBar
    <3> QED
      BY <3>1, <3>2
  <2>7. answerBar' = "none"
    BY <2>1, <1>t DEF StatusAfterSuccess, AnswerRule, Terminal
  <2>8. Promise!Finish(w)
    BY <1>e, <2>1, <2>2, <2>3, <2>6, <2>7 DEF Promise!Finish
  <2> QED
    BY <2>8 DEF KeptStep, Promise!Kept
<1>3. CASE FinishRetry(w)
  <2>1. /\ s \in Steps /\ stepStatus[s] = "running" /\ stateBar = "going" /\ answerBar = "none"
        /\ stepStatus' = [stepStatus EXCEPT ![s] = "queued"]
        /\ runStatus' = "queued"
        /\ numSteps' = numSteps
    BY <1>3, <1>o DEF FinishRetry
  <2>2. finishedBar' = finishedBar
    BY <1>t, <2>1, MappedSteps
  <2>3. stateBar' = "going" /\ answerBar' = "none"
    BY <1>t, <2>1 DEF stateBar, AnswerRule, Terminal
  <2>4. s # 0
    BY <2>1, StepNumbers
  <2> QED
    BY <1>e, <2>1, <2>2, <2>3, <2>4 DEF KeptStep, Promise!Kept, Promise!Stop
<1>4. CASE FinishFailed(w)
  <2>1. /\ s \in Steps /\ stepStatus[s] = "running" /\ stateBar = "going" /\ answerBar = "none"
        /\ stepStatus' = CloseSteps(s, "failed")
        /\ runStatus' = "failed"
        /\ numSteps' = numSteps
    BY <1>4, <1>o DEF FinishFailed, FailRun
  <2>2. finishedBar' = finishedBar
    BY <1>t, <2>1, MappedSteps, StepNumbers
  <2>3. stateBar' = "failed" /\ answerBar' = "none"
    BY <1>t, <2>1 DEF stateBar, AnswerRule, Terminal
  <2> QED
    BY <1>e, <2>1, <2>2, <2>3 DEF KeptStep, Promise!Kept, Promise!Fail
<1>5. CASE FinishPaused(w)
  <2>1. /\ s \in Steps /\ runStatus = "running" /\ stepStatus[s] = "running"
        /\ \A v \in Workers : Executing(v) => v = w
        /\ stepStatus' = [stepStatus EXCEPT ![s] = "paused"]
        /\ UNCHANGED <<numSteps, applied>>
    BY <1>5, <1>o DEF FinishPaused
  <2>2. PICK k \in Kinds, llm \in BOOLEAN : PauseRun(s, k, llm)
    BY <1>5 DEF FinishPaused
  <2>3. finishedBar' = finishedBar
    BY <1>t, <2>1, MappedSteps
  <2>4. executingBar' = Promise!Nobody
    <3>1. \A v \in Workers : v # w => claim[v].step = 0
      BY <1>t, <2>1, StepNumbers DEF TypeOK, Executing, Claim, Steps
    <3> QED
      BY <1>e, <3>1 DEF executingBar, Promise!Nobody
  <2>5. Promise!Ask
    BY <2>1, <2>2, <2>3, <2>4, PauseAsks
  <2> QED
    BY <2>5 DEF KeptStep, Promise!Kept
<1> QED
  BY <1>1, <1>2, <1>3, <1>4, <1>5

\* The decision of an approval answers what the run waits for.
LEMMA DecisionPromised ==
    ASSUME StrictInv, StrictInv', NEW s \in Steps, NEW k \in Kinds,
           \/ \E d \in {"approved", "denied"} : Decide(s, k, d)
           \/ Expire(s, k)
    PROVE  KeptStep
<1>t. TypeOK /\ ApprovalShape /\ AnswerRule /\ AnswerRule'
  BY AnswerRuleHolds, PTL DEF StrictInv, ApprovalInv
<1>1. UNCHANGED <<runStatus, numSteps, stepStatus, claim>>
  BY DEF Decide, Expire, runVars, stepVars, workerVars
<1>2. UNCHANGED <<stateBar, finishedBar, executingBar>>
  BY <1>t, <1>1, MappedSteps, MappedClaims DEF stateBar
<1>3. CASE runStatus \in Terminal
  BY <1>t, <1>1, <1>2, <1>3 DEF AnswerRule, KeptStep
<1>4. CASE runStatus \notin Terminal
  <2>1. /\ Outstanding(s, k) /\ approval[s][k].status = "pending"
        /\ Outstanding(s, k)' /\ approval'[s][k].status # "pending"
    BY <1>t, DecisionShape
  <2>2. answerBar = "pending"
    BY <1>t, <1>4, <2>1 DEF AnswerRule, AnswerTo
  <2>3. answerBar' \in {"resume", "cancel"}
    BY <1>t, <1>1, <1>4, <2>1 DEF AnswerRule, AnswerTo
  <2> QED
    BY <1>1, <1>2, <2>2, <2>3 DEF KeptStep, Promise!Kept, Promise!Answer
<1> QED
  BY <1>3, <1>4

\* The answer reaches the run, from the engine or from a client, for the first time.
LEMMA AnswerPromised ==
    ASSUME StrictInv, StrictInv', NEW s \in Steps, NEW k \in Kinds,
           EngineApplies(s, k) \/ ClientResume(s, k), runStatus \notin Terminal
    PROVE  KeptStep
<1>t. TypeOK /\ ApprovalShape /\ AnswerRule /\ AnswerRule'
  BY AnswerRuleHolds, PTL DEF StrictInv, ApprovalInv
<1>1. Outstanding(s, k) /\ runStatus = "paused" /\ stepStatus[s] \in Open
  BY AppliedStep DEF StrictInv
<1>2. stateBar = "waiting" /\ (ShouldResume(s, k) => answerBar = "resume")
  <2>1. approval[s][k].status # "pending"
    BY <1>t, AppliedShape
  <2>2. answerBar = AnswerTo(s, k)
    BY <1>t, <1>1 DEF AnswerRule
  <2> QED
    BY <1>1, <2>1, <2>2 DEF stateBar, AnswerTo
<1>3. executingBar' = executingBar
  BY <1>t, MappedClaims, DecisionReaches
<1>4. CASE ShouldResume(s, k) /\ Requeue(s)
  <2>1. stateBar' = "going" /\ answerBar' = "none" /\ numSteps' = numSteps
    BY <1>t, <1>4 DEF Requeue, stateBar, AnswerRule, Terminal
  <2>2. finishedBar' = finishedBar
    BY <1>t, <1>1, <1>4, MappedSteps DEF Requeue, Open
  <2> QED
    BY <1>2, <1>3, <1>4, <2>1, <2>2 DEF KeptStep, Promise!Kept, Promise!Resume
<1>5. CASE CancelRun
  <2>1. stateBar' = "cancelled" /\ answerBar' = "none" /\ numSteps' = numSteps
    BY <1>t, <1>5 DEF CancelRun, stateBar, AnswerRule, Terminal
  <2>2. finishedBar' = finishedBar
    BY <1>t, <1>5, StepNumbers, MappedSteps DEF CancelRun
  <2> QED
    BY <1>2, <1>3, <2>1, <2>2 DEF KeptStep, Promise!Kept, Promise!Cancel
<1> QED
  BY <1>4, <1>5, DecisionReaches

\* Without a fault, every step of a run that is not over keeps the promise.
LEMMA KeptNext ==
    StrictInv /\ StrictInv' /\ runStatus \notin Terminal /\ [Next]_vars => KeptStep
<1> SUFFICES ASSUME StrictInv, StrictInv', runStatus \notin Terminal, [Next]_vars
             PROVE  KeptStep
  OBVIOUS
<1> USE DEF runVars, stepVars, budgetVars, approvalVars, workerVars, historyVars
<1>t. TypeOK /\ AnswerRule /\ AnswerRule'
  BY AnswerRuleHolds, PTL DEF StrictInv
<1>same. ASSUME UNCHANGED <<runStatus, numSteps, stepStatus, approval, claim, applied>>
         PROVE  KeptStep
  BY <1>same, <1>t, MappedSteps, MappedClaims
     DEF stateBar, answerBar, Outstanding, ShouldResume, KeptStep
<1>1. CASE UNCHANGED vars
  BY <1>1, <1>same DEF vars
<1>2. ASSUME NEW w \in Workers, ClaimNothingLeft(w) PROVE KeptStep
  <2>1. runStatus \in {"queued", "running"} /\ runStatus \notin Terminal
    BY <1>2 DEF ClaimNothingLeft, Claimable, Terminal
  <2>2. \A s \in Steps : s \in finishedBar <=> s <= numSteps
    <3>1. ASSUME NEW s \in Steps PROVE stepStatus[s] \in {"none", "succeeded"}
      BY <1>2, <1>t, <2>1
         DEF ClaimNothingLeft, StrictInv, StepInv, NoDeadStep, TypeOK, Terminal
    <3> QED
      BY <3>1, <1>t, StepNumbers DEF StrictInv, StepInv, PlanShape, TypeOK, finishedBar
  <2>3. finishedBar = 1..numSteps
    BY <2>2, <1>t, StepNumbers DEF TypeOK, Steps, finishedBar
  <2>4. UNCHANGED <<numSteps, finishedBar, executingBar>>
    BY <1>2, <1>t, MappedSteps, MappedClaims DEF ClaimNothingLeft
  <2>5. stateBar' = "succeeded" /\ answerBar' = "none"
    BY <1>2, <1>t DEF ClaimNothingLeft, stateBar, AnswerRule, Terminal
  <2> QED
    BY <2>1, <2>3, <2>4, <2>5, Going DEF KeptStep, Promise!Kept, Promise!Close
<1>4. CASE ClientCancel
  <2>1. /\ stateBar \in {"going", "waiting"}
        /\ stateBar' = "cancelled" /\ answerBar' = "none"
        /\ stepStatus' = CloseSteps(0, "cancelled")
        /\ UNCHANGED <<numSteps, claim>>
    BY <1>4, <1>t DEF ClientCancel, CancelRun, Live, stateBar, AnswerRule, Terminal
  <2>2. UNCHANGED <<finishedBar, executingBar>>
    BY <1>t, <2>1, StepNumbers, MappedSteps, MappedClaims
  <2> QED
    BY <2>1, <2>2 DEF KeptStep, Promise!Kept, Promise!Cancel
<1>5. ASSUME NEW n \in StepCounts, CreateRun(n) PROVE KeptStep
  <2>1. /\ stateBar = "none" /\ stateBar' = "going"
        /\ answerBar = "none" /\ answerBar' = "none"
    BY <1>5, <1>t DEF CreateRun, stateBar, AnswerRule, Terminal
  <2>2. n \in 0..MaxSteps /\ numSteps' = n /\ numSteps = 0
    BY <1>5, WorkflowAssumption DEF CreateRun, StrictInv, StepInv, PlanShape
  <2>3. finishedBar = {} /\ finishedBar' = {}
    <3>1. \A s \in Steps : stepStatus[s] # "succeeded"
      BY <2>2, StepNumbers DEF StrictInv, StepInv, PlanShape, Steps
    <3>2. \A s \in Steps : stepStatus'[s] # "succeeded"
      BY <1>5 DEF CreateRun
    <3> QED
      BY <3>1, <3>2 DEF finishedBar
  <2>4. executingBar' = executingBar
    BY <1>5, <1>t, MappedClaims DEF CreateRun
  <2> QED
    BY <2>1, <2>2, <2>3, <2>4 DEF KeptStep, Promise!Kept, Promise!Create
<1>6. CASE LeaseExpires \/ BudgetElapses
  BY <1>6, <1>same DEF LeaseExpires, BudgetElapses
<1> QED
  BY <1>1, <1>2, <1>4, <1>5, <1>6, NextCases, ClaimPromised, OutcomePromised,
     DecisionPromised, AnswerPromised

-----------------------------------------------------------------------------
(* What faults do not void.                                                *)

PromiseStep ==
    \/ Promise!Next
    \/ UNCHANGED <<stateBar, numSteps, finishedBar, executingBar, answerBar, faults>>

\* When the run is over, executors find out one after the other, and that is all.
LEMMA EndedNext ==
    ASSUME FaultInv, runStatus \in Terminal, [Next]_vars PROVE PromiseStep
<1> USE DEF runVars, stepVars, historyVars, workerVars
<1>t. TypeOK /\ leaseOwner = NoOwner /\ runStatus \notin {"none", "queued", "running"} \cup Live
  BY DEF FaultInv, LeaseIffRunning, Terminal, Live
<1>1. /\ UNCHANGED <<runStatus, numSteps, stepStatus, faults>>
      /\ claim' = claim \/ \E w \in Workers : claim' = [claim EXCEPT ![w] = Idle]
  <2>1. ASSUME NEW s \in Steps, NEW k \in Kinds, EngineApplies(s, k) \/ ClientResume(s, k)
        PROVE  UNCHANGED <<runStatus, numSteps, stepStatus, faults, claim>>
    BY <2>1, DecisionReaches DEF Applied, Repeats
  <2>2. ASSUME NEW w \in Workers, FinishDiscarded(w) \/ LoseClaim(w) \/ Crash(w)
        PROVE  /\ UNCHANGED <<runStatus, numSteps, stepStatus, faults>>
               /\ claim' = [claim EXCEPT ![w] = Idle]
    BY <2>2 DEF FinishDiscarded, LoseClaim, Crash
  <2>3. ASSUME NEW s \in Steps, NEW k \in Kinds,
               (\E d \in {"approved", "denied"} : Decide(s, k, d)) \/ Expire(s, k)
        PROVE  UNCHANGED <<runStatus, numSteps, stepStatus, faults, claim>>
    BY <2>3 DEF Decide, Expire
  <2>4. CASE UNCHANGED vars \/ BudgetElapses
    BY <2>4 DEF vars, BudgetElapses
  <2>5. ASSUME NEW w \in Workers, Claimable(w) \/ Finishing(w) PROVE FALSE
    BY <2>5, <1>t DEF Claimable, Finishing
  <2>6. ~ClientCancel /\ ~LeaseExpires /\ \A n \in StepCounts : ~CreateRun(n)
    BY <1>t DEF ClientCancel, LeaseExpires, CreateRun
  <2> QED
    BY <2>1, <2>2, <2>3, <2>4, <2>5, <2>6, NextCases
       DEF ClaimNothingLeft, RecoverExhausted, RecoverNeedsApproval, ClaimBudgetPause,
           ClaimPolicyDenied, ClaimPolicyPause, ClaimWorkspaceBusy, StartStep, Startable,
           FinishSucceeded, FinishRetry, FinishFailed, FinishPaused
<1>2. UNCHANGED <<stateBar, finishedBar, answerBar>>
  BY <1>t, <1>1, MappedSteps DEF stateBar, answerBar
<1>3. CASE claim' = claim
  BY <1>t, <1>1, <1>2, <1>3, MappedClaims DEF PromiseStep
<1>4. ASSUME NEW w \in Workers, claim' = [claim EXCEPT ![w] = Idle] PROVE PromiseStep
  <2>1. executingBar' = [executingBar EXCEPT ![w] = 0]
    BY <1>t, <1>4, MappedClaims
  <2>2. CASE executingBar[w] = 0
    <3>1. executingBar' = executingBar
      BY <2>1, <2>2 DEF executingBar
    <3> QED
      BY <1>1, <1>2, <3>1 DEF PromiseStep
  <2>3. CASE executingBar[w] # 0
    <3>1. stateBar \in Promise!Ended
      BY <1>t DEF stateBar, Terminal, Promise!Ended
    <3> QED
      BY <1>1, <1>2, <2>1, <2>3, <3>1
         DEF PromiseStep, Promise!Next, Promise!Kept, Promise!Stop
  <2> QED
    BY <2>2, <2>3
<1> QED
  BY <1>1, <1>3, <1>4

\* A success is recorded with the last step, and a run that is not over is never without it.
LEMMA SuccessHasLastStep ==
    ASSUME FaultInv, [Next]_vars, runStatus \notin Terminal, runStatus' = "succeeded",
           numSteps > 0
    PROVE  stepStatus'[numSteps] = "succeeded"
<1> USE DEF runVars
<1>1. numSteps \in Steps
  BY StepNumbers DEF FaultInv, TypeOK, Steps
<1>2. ASSUME NEW w \in Workers, ClaimNothingLeft(w) PROVE FALSE
  BY <1>1, <1>2 DEF ClaimNothingLeft, Claimable, FaultInv, LastStepOpen, Live
<1>3. ASSUME NEW w \in Workers, FinishSucceeded(w)
      PROVE  stepStatus'[numSteps] = "succeeded"
  BY <1>1, <1>3 DEF FinishSucceeded, StatusAfterSuccess, FaultInv, TypeOK
<1>4. ASSUME NEW w \in Workers, NEW s \in Steps,
             \/ RecoverExhausted(w, s)
             \/ RecoverNeedsApproval(w, s)
             \/ ClaimBudgetPause(w, s)
             \/ ClaimPolicyDenied(w, s)
             \/ ClaimPolicyPause(w, s)
             \/ ClaimWorkspaceBusy(w, s)
             \/ StartStep(w, s)
      PROVE  FALSE
  BY <1>4 DEF RecoverExhausted, RecoverNeedsApproval, ClaimBudgetPause, ClaimPolicyDenied,
              ClaimPolicyPause, ClaimWorkspaceBusy, StartStep, FailRun, PauseRun, Terminal
<1>5. ASSUME NEW w \in Workers,
             \/ FinishDiscarded(w)
             \/ FinishRetry(w)
             \/ FinishFailed(w)
             \/ FinishPaused(w)
             \/ LoseClaim(w)
             \/ Crash(w)
      PROVE  FALSE
  BY <1>5 DEF FinishDiscarded, FinishRetry, FinishFailed, FinishPaused, LoseClaim, Crash,
              FailRun, PauseRun, Terminal
<1>6. ASSUME NEW s \in Steps, NEW k \in Kinds,
             \/ \E d \in {"approved", "denied"} : Decide(s, k, d)
             \/ Expire(s, k)
             \/ EngineApplies(s, k)
             \/ ClientResume(s, k)
      PROVE  FALSE
  BY <1>6, DecisionReaches DEF Decide, Expire, Requeue, CancelRun, Terminal
<1>7. ~ClientCancel /\ ~LeaseExpires /\ ~BudgetElapses /\ ~UNCHANGED vars
      /\ \A n \in StepCounts : ~CreateRun(n)
  BY DEF ClientCancel, CancelRun, LeaseExpires, BudgetElapses, CreateRun, vars, Terminal
<1> QED
  BY <1>2, <1>3, <1>4, <1>5, <1>6, <1>7, NextCases

\* No fault happens to a run that does not exist, and none ends its existence or changes its
\* plan.
LEMMA PlanStays ==
    ASSUME FaultInv, [Next]_vars, faults' > 0
    PROVE  runStatus # "none" /\ runStatus' # "none" /\ numSteps' = numSteps
<1> USE DEF runVars, historyVars
<1>t. TypeOK /\ (runStatus = "none" => leaseOwner = NoOwner)
  BY DEF FaultInv, LeaseIffRunning
<1>1. runStatus # "none"
  <2> SUFFICES ASSUME runStatus = "none" PROVE FALSE
    OBVIOUS
  <2>1. applied = {} /\ faults = 0
    BY DEF FaultInv, NothingBeforeCreation
  <2>2. ASSUME NEW s \in Steps, NEW k \in Kinds, EngineApplies(s, k) \/ ClientResume(s, k)
        PROVE  FALSE
    BY <2>1, <2>2, DecisionReaches DEF Applied, Repeats
  <2>3. ~LeaseExpires
    BY <1>t DEF LeaseExpires
  <2>4. faults' # faults
    BY <2>1
  <2> QED
    BY <2>2, <2>3, <2>4, NextCases
       DEF vars, ClaimNothingLeft, RecoverExhausted, RecoverNeedsApproval, ClaimBudgetPause,
           ClaimPolicyDenied, ClaimPolicyPause, ClaimWorkspaceBusy, StartStep,
           FinishDiscarded, FinishSucceeded, FinishRetry, FinishFailed, FinishPaused,
           LoseClaim, Crash, Decide, Expire, ClientCancel, CreateRun, BudgetElapses
<1>2. ASSUME NEW s \in Steps, NEW k \in Kinds, EngineApplies(s, k) \/ ClientResume(s, k)
      PROVE  runStatus' # "none" /\ numSteps' = numSteps
  BY <1>1, <1>2, DecisionReaches DEF Requeue, CancelRun
<1>3. ASSUME NEW w \in Workers, NEW s \in Steps,
             \/ RecoverExhausted(w, s)
             \/ RecoverNeedsApproval(w, s)
             \/ ClaimBudgetPause(w, s)
             \/ ClaimPolicyDenied(w, s)
             \/ ClaimPolicyPause(w, s)
      PROVE  runStatus' # "none" /\ numSteps' = numSteps
  BY <1>3 DEF RecoverExhausted, RecoverNeedsApproval, ClaimBudgetPause, ClaimPolicyDenied,
              ClaimPolicyPause, FailRun, PauseRun
<1>4. ASSUME NEW w \in Workers,
             \/ ClaimNothingLeft(w)
             \/ \E s \in Steps : ClaimWorkspaceBusy(w, s) \/ StartStep(w, s)
      PROVE  runStatus' # "none" /\ numSteps' = numSteps
  BY <1>1, <1>4 DEF ClaimNothingLeft, ClaimWorkspaceBusy, StartStep
<1>5. ASSUME NEW w \in Workers,
             \/ FinishDiscarded(w) \/ FinishSucceeded(w) \/ FinishRetry(w)
             \/ FinishFailed(w) \/ FinishPaused(w) \/ LoseClaim(w) \/ Crash(w)
      PROVE  runStatus' # "none" /\ numSteps' = numSteps
  BY <1>1, <1>5 DEF FinishDiscarded, FinishSucceeded, StatusAfterSuccess, FinishRetry,
                    FinishFailed, FinishPaused, LoseClaim, Crash, FailRun, PauseRun
<1>6. ASSUME NEW s \in Steps, NEW k \in Kinds,
             (\E d \in {"approved", "denied"} : Decide(s, k, d)) \/ Expire(s, k)
      PROVE  runStatus' # "none" /\ numSteps' = numSteps
  BY <1>1, <1>6 DEF Decide, Expire
<1>7. CASE ClientCancel \/ LeaseExpires \/ BudgetElapses \/ UNCHANGED vars
  BY <1>1, <1>7 DEF ClientCancel, CancelRun, LeaseExpires, BudgetElapses, vars
<1>8. \A n \in StepCounts : ~CreateRun(n)
  BY <1>1 DEF CreateRun
<1> QED
  BY <1>1, <1>2, <1>3, <1>4, <1>5, <1>6, <1>7, <1>8, NextCases

\* Whatever a fault, or a step after one, does to a run that is not over is among what the
\* promise then leaves open.
LEMMA VoidedNext ==
    ASSUME FaultInv, FaultInv', ActivityInv', runStatus \notin Terminal, faults' > 0, [Next]_vars
    PROVE  Promise!Voided
<1>1. runStatus # "none" /\ runStatus' # "none" /\ numSteps' = numSteps
  BY PlanStays
<1>2. stateBar \notin Promise!Ended \cup {"none"} /\ stateBar' # "none"
  BY <1>1 DEF stateBar, FaultInv, TypeOK, Live, Terminal, Promise!Ended
<1>3. stateBar' = "succeeded" /\ numSteps > 0 => numSteps \in finishedBar'
  <2> SUFFICES ASSUME stateBar' = "succeeded", numSteps > 0 PROVE numSteps \in finishedBar'
    OBVIOUS
  <2>1. runStatus' = "succeeded" /\ numSteps \in Steps
    BY StepNumbers DEF stateBar, FaultInv, TypeOK, Steps
  <2> QED
    BY <2>1, SuccessHasLastStep DEF finishedBar
<1>4. {w \in Workers : executingBar'[w] # 0} = Executors'
  BY StepNumbers DEF FaultInv, TypeOK, Claim, Steps, executingBar, Executors, Executing
<1>5. Cardinality(Executors') <= 1 + faults'
  BY DEF ActivityInv, ActivityNeedsFaults
<1>6. faults' >= faults
  BY FaultsGrow DEF FaultInv
<1>7. \A S : Promise!Cardinality(S) = Cardinality(S)
  BY Zenon DEF Cardinality, Promise!Cardinality
<1> QED
  BY <1>1, <1>2, <1>3, <1>4, <1>5, <1>6, <1>7 DEF Promise!Voided

\* Every step of the run is a step of the promise, or one it does not see.
LEMMA PromiseNext ==
    ASSUME FaultInv, FaultInv', ActivityInv', faults = 0 => StrictInv,
           faults' = 0 => StrictInv', [Next]_vars
    PROVE  PromiseStep
<1>f. faults \in Nat /\ faults' \in Nat /\ faults' >= faults
  BY FaultsGrow DEF FaultInv, TypeOK
<1>1. CASE runStatus \in Terminal
  BY <1>1, EndedNext
<1>2. CASE runStatus \notin Terminal /\ faults' = 0
  <2>1. faults = 0
    BY <1>2, <1>f
  <2> QED
    BY <1>2, <2>1, KeptNext DEF PromiseStep, KeptStep, Promise!Next
<1>3. CASE runStatus \notin Terminal /\ faults' > 0
  BY <1>3, VoidedNext DEF PromiseStep, Promise!Next
<1> QED
  BY <1>1, <1>2, <1>3, <1>f

LEMMA PromiseInit == Init => Promise!Init
<1> SUFFICES ASSUME Init PROVE Promise!Init
  OBVIOUS
<1>1. finishedBar = {}
  BY DEF Init, finishedBar
<1>2. executingBar = Promise!Nobody
  BY DEF Init, Idle, executingBar, Promise!Nobody
<1>3. \A s \in Steps, k \in Kinds : approval[s][k] = NoApproval
  BY DEF Init
<1>4. answerBar = "none"
  <2>1. \A s \in Steps, k \in Kinds : approval[s][k].status = "none"
    BY <1>3 DEF NoApproval
  <2> QED
    BY <2>1 DEF answerBar, Outstanding
<1>5. stateBar = "none" /\ numSteps = 0 /\ faults = 0
  BY DEF Init, stateBar
<1> QED
  BY <1>1, <1>2, <1>4, <1>5 DEF Promise!Init

\* The whole of the runner, whoever claims, recovers, executes, pauses and resumes, whoever
\* dies, however often a decision is applied and a lease lapses: the run implements
\* RunPromise.
THEOREM RunKeepsPromise == Spec => KeepsRunPromise
<1>1. Init => FaultInv /\ ActivityInv /\ (faults = 0 => StrictInv) /\ Promise!Init
  BY FaultInit, ActivityInit, StrictInit, PromiseInit
<1>2. FaultInv /\ ActivityInv /\ (faults = 0 => StrictInv) /\ [Next]_vars
        => (FaultInv /\ ActivityInv /\ (faults = 0 => StrictInv))'
  BY FaultNext, ActivityNext, StrictNext
<1>3. FaultInv /\ ActivityInv /\ (faults = 0 => StrictInv) /\ [Next]_vars
        /\ (FaultInv /\ ActivityInv /\ (faults = 0 => StrictInv))'
        => [Promise!Next]_<<stateBar, numSteps, finishedBar, executingBar, answerBar, faults>>
  BY PromiseNext DEF PromiseStep
<1> QED
  BY <1>1, <1>2, <1>3, PTL
     DEF Spec, KeepsRunPromise, Promise!Spec, Promise!promiseVars
=============================================================================
