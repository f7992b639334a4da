---------------------------- MODULE WorkflowRun ----------------------------
(***************************************************************************)
(* The lifecycle of one durable workflow run: its row in workflow_runs,    *)
(* the rows of its steps in workflow_run_steps, the approvals that block   *)
(* it, and the workers that claim a step, execute it outside of any        *)
(* transaction and then record the outcome in a second transaction.        *)
(*                                                                         *)
(* Every action is one database transaction of the gateway, or a step of   *)
(* the environment (time passes, a worker dies, a reviewer decides).  Two  *)
(* runs share no row except the workspace lease of CLI steps, so one run   *)
(* is modelled and a workspace held by another run is an input.            *)
(***************************************************************************)
EXTENDS Naturals, FiniteSets

CONSTANTS
    Workers,        \* worker loops, one identity per gateway process
    NoOwner,        \* lease_owner IS NULL
    MaxSteps,       \* largest plan
    StepCounts,     \* the plan lengths a run may be created with
    MaxAttempts,    \* workflow_run_steps.max_attempts
    Retryable,      \* steps whose action isRetryableAction accepts
    CliSteps,       \* steps that need the workspace lease
    LlmSteps,       \* steps whose executor may pause for a tool approval
    PostSteps,      \* steps with a postcondition, whose evidence may be missing
    PolicyOf,       \* the decisions the policy snapshot may give for a step
    HasBudget,      \* the run has budgets.max_duration_ms
    AttemptBound,   \* BOUND: no step is started more often than this
    MaxFaults       \* BOUND: no more faults than this (see faults)

Steps == 1..MaxSteps

Decisions == {"allow", "deny", "require_approval"}

ASSUME WorkflowAssumption ==
    /\ NoOwner \notin Workers
    /\ IsFiniteSet(Workers)
    /\ MaxSteps \in Nat
    /\ StepCounts \subseteq 0..MaxSteps
    /\ MaxAttempts \in Nat \ {0}
    /\ Retryable \subseteq Steps /\ CliSteps \subseteq Steps
    /\ LlmSteps \subseteq Steps /\ PostSteps \subseteq Steps
    /\ PolicyOf \in [Steps -> SUBSET Decisions]
    /\ AttemptBound \in Nat
    /\ MaxFaults \in Nat
    /\ HasBudget \in BOOLEAN

VARIABLES
    runStatus,         \* workflow_runs.status, "none" before the run exists
    numSteps,          \* how many steps the run was created with
    leaseOwner,        \* workflow_runs.lease_owner
    leaseExpired,      \* lease_expires_at_ms <= now
    blockedReason,     \* workflow_runs.blocked_reason
    overBudget,        \* now - started_at > max_duration_ms
    budgetOverridden,  \* budget_overridden_at IS NOT NULL
    stepStatus,        \* workflow_run_steps.status
    attemptCount,      \* workflow_run_steps.attempt_count
    approval,          \* the approvals with key workflow:<run>:step:<s>:<kind>
    latestApproval,    \* kind of the step's most recently created approval
    claim,             \* what each worker is executing (its StepClaim)
    crashed,           \* workers whose process is gone for good
    applied,           \* HISTORY: the approvals whose decision was applied to the run
    faults             \* HISTORY: how often the run was resumed by a decision that was
                       \* applied before, or its lease lapsed on an executor (Lapses)

runVars == <<runStatus, numSteps, leaseOwner, leaseExpired, blockedReason>>
budgetVars == <<overBudget, budgetOverridden>>
stepVars == <<stepStatus, attemptCount>>
approvalVars == <<approval, latestApproval>>
workerVars == <<claim, crashed>>
historyVars == <<applied, faults>>
vars == <<runStatus, numSteps, leaseOwner, leaseExpired, blockedReason, overBudget,
          budgetOverridden, stepStatus, attemptCount, approval, latestApproval, claim,
          crashed, applied, faults>>

-----------------------------------------------------------------------------
(* Types.                                                                  *)

Terminal == {"succeeded", "failed", "cancelled"}
Live == {"queued", "running", "paused"}
Open == {"queued", "running", "paused"}
Kinds == {"policy", "budget", "retry", "takeover"}
ApprovalStatus == {"none", "pending", "approved", "denied", "expired"}
EngineAction == {"none", "resume", "cancel", "done"}
Approval == [status : ApprovalStatus, llm : BOOLEAN, action : EngineAction]
Claim == [step : 0..MaxSteps, attempt : Nat]
NoApproval == [status |-> "none", llm |-> FALSE, action |-> "none"]
Idle == [step |-> 0, attempt |-> 0]

TypeOK ==
    /\ runStatus \in {"none"} \cup Live \cup Terminal
    /\ numSteps \in 0..MaxSteps
    /\ leaseOwner \in Workers \cup {NoOwner}
    /\ leaseExpired \in BOOLEAN
    /\ blockedReason \in {"none", "budget", "policy", "approval"}
    /\ overBudget \in BOOLEAN
    /\ budgetOverridden \in BOOLEAN
    /\ stepStatus \in [Steps -> {"none"} \cup Open \cup Terminal]
    /\ attemptCount \in [Steps -> Nat]
    /\ approval \in [Steps -> [Kinds -> Approval]]
    /\ latestApproval \in [Steps -> {"none"} \cup Kinds]
    /\ claim \in [Workers -> Claim]
    /\ crashed \subseteq Workers
    /\ applied \subseteq Steps \X Kinds
    /\ faults \in Nat

Init ==
    /\ runStatus = "none"
    /\ numSteps = 0
    /\ leaseOwner = NoOwner
    /\ leaseExpired = FALSE
    /\ blockedReason = "none"
    /\ overBudget = FALSE
    /\ budgetOverridden = FALSE
    /\ stepStatus = [s \in Steps |-> "none"]
    /\ attemptCount = [s \in Steps |-> 0]
    /\ approval = [s \in Steps |-> [k \in Kinds |-> NoApproval]]
    /\ latestApproval = [s \in Steps |-> "none"]
    /\ claim = [w \in Workers |-> Idle]
    /\ crashed = {}
    /\ applied = {}
    /\ faults = 0

-----------------------------------------------------------------------------
(* Helpers shared by the transactions.                                     *)

\* Mutant: the lease columns are left as they are.
KeepLease == UNCHANGED <<leaseOwner, leaseExpired>>

\* clearWorkflowRunLeaseTx
ClearLease ==
    /\ leaseOwner' = NoOwner
    /\ leaseExpired' = FALSE

\* approvalPauseReason
PauseReason(k) == IF k \in {"budget", "policy"} THEN k ELSE "approval"

\* pauseRunForApprovalTx.  The approval is inserted with ON CONFLICT DO NOTHING on its
\* key, so a second pause of one step for one kind finds the approval of the first.
PauseRun(s, k, llm) ==
    /\ runStatus' = "paused"
    /\ blockedReason' = PauseReason(k)
    /\ ClearLease
    /\ IF approval[s][k].status = "none"
       THEN /\ approval' = [approval EXCEPT ![s][k] =
                   [status |-> "pending", llm |-> llm, action |-> "none"]]
            /\ latestApproval' = [latestApproval EXCEPT ![s] = k]
       ELSE UNCHANGED approvalVars

\* The step statuses after step s failed or the run was cancelled (s = 0).
CloseSteps(s, own) ==
    [t \in Steps |-> IF t = s THEN own
                     ELSE IF stepStatus[t] \in Open THEN "cancelled" ELSE stepStatus[t]]

\* failRunTx
FailRun(s) ==
    /\ stepStatus' = CloseSteps(s, "failed")
    /\ runStatus' = "failed"
    /\ blockedReason' = "none"
    /\ ClearLease

\* cancelWorkflowRun, of a run that is not terminal
CancelRun ==
    /\ stepStatus' = CloseSteps(0, "cancelled")
    /\ runStatus' = "cancelled"
    /\ blockedReason' = "none"
    /\ ClearLease
    /\ UNCHANGED <<numSteps, budgetVars, attemptCount>>

-----------------------------------------------------------------------------
(* Creating the run.                                                       *)

\* createQueuedWorkflowRunFromActions: the run and its steps, all queued
CreateRun(n) ==
    /\ runStatus = "none"
    /\ runStatus' = "queued"
    /\ numSteps' = n
    /\ stepStatus' = [s \in Steps |-> IF s <= n THEN "queued" ELSE "none"]
    /\ UNCHANGED <<leaseOwner, leaseExpired, blockedReason, budgetVars, attemptCount,
                   approvalVars, workerVars, historyVars>>

-----------------------------------------------------------------------------
(* claimNextWorkflowRunStep: one transaction with seven outcomes.          *)

\* Mutants: the lease is not looked at; an expired lease is never taken over.
LeaseIgnored(w) == TRUE

LeaseNeverTakenOver(w) == leaseOwner \in {NoOwner, w}

LeaseAvailable(w) ==
    \/ leaseOwner = NoOwner
    \/ leaseOwner = w
    \/ leaseExpired

\* An idle worker whose tick finds the run runnable and its lease available.
Claimable(w) ==
    /\ w \notin crashed
    /\ claim[w] = Idle
    /\ runStatus \in {"queued", "running"}
    /\ LeaseAvailable(w)

\* Mutant: the step index is ignored.
AnyOpenStep(s) == stepStatus[s] \in Open

\* The open step with the lowest index, which the claim picks.
NextOpenStep(s) ==
    /\ stepStatus[s] \in Open
    /\ \A t \in Steps : t < s => stepStatus[t] \notin Open

AttemptsExhausted(s) == attemptCount[s] >= MaxAttempts

\* No open step is left: the run is done.
ClaimNothingLeft(w) ==
    /\ Claimable(w)
    /\ \A s \in Steps : stepStatus[s] \notin Open
    /\ runStatus' = "succeeded"
    /\ ClearLease
    /\ UNCHANGED <<numSteps, blockedReason, budgetVars, stepVars, approvalVars,
                   workerVars, historyVars>>

\* recoverRunningStep on a step that was running and has no attempt left
RecoverExhausted(w, s) ==
    /\ Claimable(w)
    /\ NextOpenStep(s)
    /\ stepStatus[s] = "running"
    /\ AttemptsExhausted(s)
    /\ FailRun(s)
    /\ UNCHANGED <<numSteps, budgetVars, attemptCount, approvalVars, workerVars,
                   historyVars>>

\* recoverRunningStep on a step that must not be repeated without a decision;
\* the step keeps its status
RecoverNeedsApproval(w, s) ==
    /\ Claimable(w)
    /\ NextOpenStep(s)
    /\ stepStatus[s] = "running"
    /\ ~AttemptsExhausted(s)
    /\ s \notin Retryable
    /\ PauseRun(s, "retry", FALSE)
    /\ UNCHANGED <<numSteps, budgetVars, stepVars, workerVars, historyVars>>

\* The claim gets as far as the budget check: step s is queued, or was running and is
\* put back to queued.
Startable(w, s) ==
    /\ Claimable(w)
    /\ NextOpenStep(s)
    /\ \/ stepStatus[s] = "queued"
       \/ stepStatus[s] = "running" /\ ~AttemptsExhausted(s) /\ s \in Retryable

\* maybePauseForBudget
OutOfBudget == HasBudget /\ overBudget /\ ~budgetOverridden

ClaimBudgetPause(w, s) ==
    /\ Startable(w, s)
    /\ OutOfBudget
    /\ stepStatus' = [stepStatus EXCEPT ![s] = "queued"]
    /\ PauseRun(s, "budget", FALSE)
    /\ UNCHANGED <<numSteps, budgetVars, attemptCount, workerVars, historyVars>>

\* maybePauseForSnapshotPolicy: the latest approval of the step, whatever its kind,
\* lets the step pass when it is approved
LatestApproved(s) ==
    latestApproval[s] # "none" /\ approval[s][latestApproval[s]].status = "approved"

PolicyPasses(s) ==
    \/ "allow" \in PolicyOf[s]
    \/ "require_approval" \in PolicyOf[s] /\ LatestApproved(s)

ClaimPolicyDenied(w, s) ==
    /\ Startable(w, s)
    /\ ~OutOfBudget
    /\ "deny" \in PolicyOf[s]
    /\ FailRun(s)
    /\ UNCHANGED <<numSteps, budgetVars, attemptCount, approvalVars, workerVars,
                   historyVars>>

ClaimPolicyPause(w, s) ==
    /\ Startable(w, s)
    /\ ~OutOfBudget
    /\ "require_approval" \in PolicyOf[s]
    /\ ~LatestApproved(s)
    /\ stepStatus' = [stepStatus EXCEPT ![s] = "queued"]
    /\ PauseRun(s, "policy", FALSE)
    /\ UNCHANGED <<numSteps, budgetVars, attemptCount, workerVars, historyVars>>

\* The workspace is leased to somebody else: the claim gives up after a recovered step
\* has been put back to queued.
ClaimWorkspaceBusy(w, s) ==
    /\ Startable(w, s)
    /\ ~OutOfBudget
    /\ PolicyPasses(s)
    /\ s \in CliSteps
    /\ stepStatus' = [stepStatus EXCEPT ![s] = "queued"]
    /\ UNCHANGED <<runVars, budgetVars, attemptCount, approvalVars, workerVars,
                   historyVars>>

StartStep(w, s) ==
    /\ Startable(w, s)
    /\ ~OutOfBudget
    /\ PolicyPasses(s)
    /\ attemptCount[s] < AttemptBound
    /\ stepStatus' = [stepStatus EXCEPT ![s] = "running"]
    /\ attemptCount' = [attemptCount EXCEPT ![s] = @ + 1]
    /\ runStatus' = "running"
    /\ leaseOwner' = w
    /\ leaseExpired' = FALSE
    /\ claim' = [claim EXCEPT ![w] = [step |-> s, attempt |-> attemptCount[s] + 1]]
    /\ UNCHANGED <<numSteps, blockedReason, budgetVars, approvalVars, crashed,
                   historyVars>>

-----------------------------------------------------------------------------
(* executeWorkflowRunClaim: the executor ran outside of any transaction;   *)
(* these are the outcomes of the transaction that records its result.      *)
(* Only a terminal run is left alone: neither the lease nor the status of  *)
(* the step is compared with the claim.                                    *)

Executing(w) == claim[w].step \in Steps

\* Mutant: the outcome is recorded without looking at the run again.
FinishingBlindly(w) ==
    /\ Executing(w)
    /\ claim' = [claim EXCEPT ![w] = Idle]
    /\ UNCHANGED crashed

Finishing(w) ==
    /\ Executing(w)
    /\ runStatus \notin Terminal
    /\ claim' = [claim EXCEPT ![w] = Idle]
    /\ UNCHANGED crashed

FinishDiscarded(w) ==
    /\ Executing(w)
    /\ runStatus \in Terminal
    /\ claim' = [claim EXCEPT ![w] = Idle]
    /\ UNCHANGED <<runVars, budgetVars, stepVars, approvalVars, crashed, historyVars>>

\* Mutant: the run ends one step too early.
StatusAfterSuccessEarly(s) == IF s + 1 >= numSteps THEN "succeeded" ELSE "queued"

\* The last step completes the run.
StatusAfterSuccess(s) == IF s = numSteps THEN "succeeded" ELSE "queued"

FinishSucceeded(w) ==
    LET s == claim[w].step IN
    /\ Finishing(w)
    /\ stepStatus' = [stepStatus EXCEPT ![s] = "succeeded"]
    /\ runStatus' = StatusAfterSuccess(s)
    /\ ClearLease
    /\ UNCHANGED <<numSteps, blockedReason, budgetVars, attemptCount, approvalVars,
                   historyVars>>

\* The executor failed and the claim's attempt number leaves another attempt.
RetryAllowed(w) ==
    claim[w].attempt < MaxAttempts /\ claim[w].step \in Retryable

FinishRetry(w) ==
    /\ Finishing(w)
    /\ RetryAllowed(w)
    /\ stepStatus' = [stepStatus EXCEPT ![claim[w].step] = "queued"]
    /\ runStatus' = "queued"
    /\ ClearLease
    /\ UNCHANGED <<numSteps, blockedReason, budgetVars, attemptCount, approvalVars,
                   historyVars>>

FinishFailed(w) ==
    /\ Finishing(w)
    /\ ~RetryAllowed(w)
    /\ FailRun(claim[w].step)
    /\ UNCHANGED <<numSteps, budgetVars, attemptCount, approvalVars, historyVars>>

\* What an executor asks for when it pauses: a takeover (missing evidence for the
\* postcondition), or a policy approval, of an LLM step's tool call or of the action
\* itself unless the step's latest approval is an approved policy approval.
PauseRequested(s, k, llm) ==
    \/ k = "takeover" /\ ~llm /\ s \in PostSteps
    \/ k = "policy" /\ llm /\ s \in LlmSteps
    \/ /\ k = "policy" /\ ~llm /\ s \notin LlmSteps
       /\ "require_approval" \in PolicyOf[s]
       /\ ~(latestApproval[s] = "policy" /\ LatestApproved(s))

\* persistPausedStepTx
FinishPaused(w) ==
    LET s == claim[w].step IN
    /\ Finishing(w)
    /\ \E k \in Kinds, llm \in BOOLEAN : PauseRequested(s, k, llm) /\ PauseRun(s, k, llm)
    /\ stepStatus' = [stepStatus EXCEPT ![s] = "paused"]
    /\ UNCHANGED <<numSteps, budgetVars, attemptCount, historyVars>>

\* Recording the outcome fails: the worker loop logs the error and ticks on, the rows
\* stay as the claim left them.
LoseClaim(w) ==
    /\ Executing(w)
    /\ claim' = [claim EXCEPT ![w] = Idle]
    /\ UNCHANGED <<runVars, budgetVars, stepVars, approvalVars, crashed, historyVars>>

\* The process dies.  A restarted one has a new identity, so this one never ticks again;
\* some worker always remains.
Crash(w) ==
    /\ w \notin crashed
    /\ Workers # crashed \cup {w}
    /\ crashed' = crashed \cup {w}
    /\ claim' = [claim EXCEPT ![w] = Idle]
    /\ UNCHANGED <<runVars, budgetVars, stepVars, approvalVars, historyVars>>

-----------------------------------------------------------------------------
(* Decisions, and what the engine and the clients do with them.            *)

\* resolveWithEngineAction: the decision and the engine action it calls for
Decide(s, k, d) ==
    /\ approval[s][k].status = "pending"
    /\ approval' = [approval EXCEPT ![s][k] =
           [@ EXCEPT !.status = d,
                     !.action = IF d = "approved" \/ approval[s][k].llm
                                THEN "resume" ELSE "cancel"]]
    /\ UNCHANGED <<runVars, budgetVars, stepVars, latestApproval, workerVars,
                   historyVars>>

\* expireStaleApprovals: only an LLM step's tool approval carries expires_at, and no
\* engine action is enqueued
Expire(s, k) ==
    /\ approval[s][k].status = "pending"
    /\ approval[s][k].llm
    /\ approval' = [approval EXCEPT ![s][k] = [@ EXCEPT !.status = "expired"]]
    /\ UNCHANGED <<runVars, budgetVars, stepVars, latestApproval, workerVars,
                   historyVars>>

\* resumeWorkflowRun resumes on approval, and on denial or expiry of an LLM tool call
ShouldResume(s, k) ==
    \/ approval[s][k].status = "approved"
    \/ approval[s][k].status \in {"denied", "expired"} /\ approval[s][k].llm

\* Mutant: resuming from any pause lifts the budget.
LiftsBudgetAlways == budgetOverridden \/ blockedReason # "none"

\* budget_overridden_at after a resume: set when the run was blocked on its budget
LiftsBudget == budgetOverridden \/ blockedReason = "budget"

\* The resuming transaction: the step goes back to queued whatever its status.
Requeue(s) ==
    /\ stepStatus' = [stepStatus EXCEPT ![s] = "queued"]
    /\ runStatus' = "queued"
    /\ blockedReason' = "none"
    /\ budgetOverridden' = LiftsBudget
    /\ ClearLease
    /\ UNCHANGED <<numSteps, overBudget, attemptCount>>

\* The decision was applied before, and the run is not over.
Repeats(s, k) == <<s, k>> \in applied /\ runStatus \notin Terminal

\* A decision reaches the run.  The code keeps no record of that.
Applied(s, k) ==
    /\ applied' = applied \cup {<<s, k>>}
    /\ Repeats(s, k) => faults < MaxFaults
    /\ faults' = IF Repeats(s, k) THEN faults + 1 ELSE faults

\* resumeWorkflowRun: presenting the token of a resolved approval
PresentToken(s, k) ==
    /\ Applied(s, k)
    /\ IF runStatus \in Terminal
       THEN UNCHANGED <<runVars, budgetVars, stepVars>>
       ELSE IF ShouldResume(s, k) THEN Requeue(s) ELSE CancelRun

\* ApprovalEngineActionProcessor.executeAction: resumeRun with the token, or cancelRun
ExecuteAction(s, k) ==
    \/ approval[s][k].action = "resume" /\ PresentToken(s, k)
    \/ /\ approval[s][k].action = "cancel"
       /\ Applied(s, k)
       /\ IF runStatus \in Terminal
          THEN UNCHANGED <<runVars, budgetVars, stepVars>>
          ELSE CancelRun

\* ApprovalEngineActionProcessor: executes the action, then marks it succeeded in a
\* second statement.  If that fails, or the process dies before it, or the action's lease
\* lapses, the action is executed again.
EngineApplies(s, k) ==
    /\ ExecuteAction(s, k)
    /\ \/ approval' = [approval EXCEPT ![s][k] = [@ EXCEPT !.action = "done"]]
       \/ UNCHANGED approval
    /\ UNCHANGED <<latestApproval, workerVars>>

\* POST /workflow/resume and workflow.resume with the token of a resolved approval, as
\* often as a client likes
ClientResume(s, k) ==
    /\ approval[s][k].status \in {"approved", "denied", "expired"}
    /\ PresentToken(s, k)
    /\ UNCHANGED <<approvalVars, workerVars>>

\* POST /workflow/cancel and workflow.cancel
ClientCancel ==
    /\ runStatus \in Live
    /\ CancelRun
    /\ UNCHANGED <<approvalVars, workerVars, historyVars>>

-----------------------------------------------------------------------------
(* Time.                                                                   *)

\* The lease runs out on a worker that executes a step with attempts left, so another
\* worker will start that step again.  (If none is left, it can only fail the run.)
Lapses ==
    /\ Executing(leaseOwner)
    /\ ~AttemptsExhausted(claim[leaseOwner].step)

\* 30 seconds after the claim.  Nothing renews the lease, so it also runs out on a
\* worker that is still executing.
LeaseExpires ==
    /\ leaseOwner # NoOwner
    /\ ~leaseExpired
    /\ leaseExpired' = TRUE
    /\ Lapses => faults < MaxFaults
    /\ faults' = IF Lapses THEN faults + 1 ELSE faults
    /\ UNCHANGED <<runStatus, numSteps, leaseOwner, blockedReason, budgetVars, stepVars,
                   approvalVars, workerVars, applied>>

\* max_duration_ms after started_at, which the first claim sets
BudgetElapses ==
    /\ HasBudget
    /\ ~overBudget
    /\ \E s \in Steps : attemptCount[s] > 0
    /\ overBudget' = TRUE
    /\ UNCHANGED <<runVars, budgetOverridden, stepVars, approvalVars, workerVars,
                   historyVars>>

-----------------------------------------------------------------------------

\* One tick of worker w: a claim, or the outcome of what it executes
WorkerStep(w) ==
    \/ ClaimNothingLeft(w)
    \/ \E s \in Steps :
          \/ RecoverExhausted(w, s)
          \/ RecoverNeedsApproval(w, s)
          \/ ClaimBudgetPause(w, s)
          \/ ClaimPolicyDenied(w, s)
          \/ ClaimPolicyPause(w, s)
          \/ StartStep(w, s)
    \/ FinishDiscarded(w)
    \/ FinishSucceeded(w)
    \/ FinishRetry(w)
    \/ FinishFailed(w)
    \/ FinishPaused(w)

WorkspaceContention == \E w \in Workers, s \in Steps : ClaimWorkspaceBusy(w, s)

EngineStep == \E s \in Steps, k \in Kinds : EngineApplies(s, k)

Environment ==
    \/ \E n \in StepCounts : CreateRun(n)
    \/ \E w \in Workers : LoseClaim(w) \/ Crash(w)
    \/ \E s \in Steps, k \in Kinds :
          \/ \E d \in {"approved", "denied"} : Decide(s, k, d)
          \/ Expire(s, k)
          \/ ClientResume(s, k)
    \/ ClientCancel
    \/ BudgetElapses

Next ==
    \/ \E w \in Workers : WorkerStep(w)
    \/ WorkspaceContention
    \/ EngineStep
    \/ LeaseExpires
    \/ Environment

Spec == Init /\ [][Next]_vars

\* Worker loops keep ticking, the engine processor keeps ticking, time passes.
Fairness ==
    /\ \A w \in Workers : WF_vars(WorkerStep(w))
    /\ WF_vars(EngineStep)
    /\ WF_vars(LeaseExpires)

FairSpec == Spec /\ Fairness

-----------------------------------------------------------------------------
(* What holds whatever crashes, lapses or is presented twice.              *)

\* A terminal run never changes again, whatever late finishers, repeated resumes,
\* cancellations and decisions still arrive: neither its status nor a step's.
TerminalRunIsFinal ==
    [][(runStatus \in Terminal) => UNCHANGED <<runStatus, stepStatus>>]_vars

\* A failed or cancelled run has no step a worker could still pick up.
ClosedRunHasNoOpenStep ==
    runStatus \in {"failed", "cancelled"} => \A s \in Steps : stepStatus[s] \notin Open

\* The run is leased exactly while it is running: no paused, queued or finished run
\* keeps a lease that would lock workers out, and no running run is without a holder.
LeaseIffRunning == leaseOwner # NoOwner <=> runStatus = "running"

\* A run that is not finished still has its last step to do, so a live run is never
\* left without work and its success is always recorded by that step.
LastStepOpen ==
    runStatus \in Live /\ numSteps > 0 => stepStatus[numSteps] \in Open

\* Who executes a step of the run, and what the run waits for: the approvals that are
\* undecided, or decided and not yet applied to it.
Executors == {w \in Workers : Executing(w)}

Outstanding(s, k) ==
    approval[s][k].status # "none" /\ <<s, k>> \notin applied

Questions == {q \in Steps \X Kinds : Outstanding(q[1], q[2])}

\* A run does one thing at a time, it executes one step or waits for one decision, and
\* every further one needs a fault of its own: no outcome that comes late, no pause,
\* decision or takeover beside it multiplies what one lapsed lease or one repeated resume
\* started.  When the run is over only executors are left.
ActivityNeedsFaults ==
    /\ Cardinality(Executors) <= 1 + faults
    /\ runStatus \notin Terminal => Cardinality(Executors) + Cardinality(Questions) <= 1 + faults

\* Every claimed or requeued run ends, or comes to wait for a decision: on the run, or, if
\* a repeated resume put the run back to the queue, on its first open step.  A dead
\* worker's lease runs out and another worker recovers the step.
Waits ==
    \/ runStatus = "paused"
    \/ \E s \in Steps : NextOpenStep(s) /\ stepStatus[s] = "paused"

RunSettles ==
    runStatus \in {"queued", "running"} ~> Waits \/ runStatus \in Terminal

-----------------------------------------------------------------------------
(* What holds until the first fault: until a decision is applied again, or *)
(* the lease lapses on a worker whose step has attempts left.              *)

\* A worker that executes a step of a live run holds the run's lease and the step is
\* running on its attempt; so no two workers ever execute the run at once.
ExecutorHoldsLease ==
    \A w \in Workers :
        faults = 0 /\ Executing(w) /\ runStatus \in Live =>
            /\ leaseOwner = w
            /\ stepStatus[claim[w].step] = "running"
            /\ claim[w].attempt = attemptCount[claim[w].step]

\* Steps are done in order: a step that was started follows succeeded steps only.
StepsInOrder ==
    faults = 0 =>
        \A s, t \in Steps : s < t /\ attemptCount[t] > 0 => stepStatus[s] = "succeeded"

\* A run is reported succeeded only when every step of it succeeded.
SucceededRunIsComplete ==
    faults = 0 /\ runStatus = "succeeded" =>
        \A s \in 1..numSteps : stepStatus[s] = "succeeded"

\* The recorded success of a step is not taken back, so no completed step is executed
\* again.
SuccessNeedsFault ==
    [][faults' = 0 =>
          \A s \in Steps : stepStatus[s] = "succeeded" => stepStatus'[s] = "succeeded"]_vars

\* Approval-gated work does not continue before the outcome: while an approval of the
\* run is undecided the run is paused or over.
PausedWhilePending ==
    faults = 0 /\ (\E s \in Steps, k \in Kinds : approval[s][k].status = "pending")
        => runStatus \in {"paused"} \cup Terminal

\* The budget of a run is lifted only by an approved budget approval.
BudgetOverrideIsApproved ==
    faults = 0 /\ budgetOverridden =>
        \E s \in Steps : approval[s]["budget"].status = "approved"

-----------------------------------------------------------------------------
(* What the run looks like to who started it, for RunPromise.              *)

stateBar ==
    CASE runStatus \in {"queued", "running"} -> "going"
      [] runStatus = "paused" -> "waiting"
      [] OTHER -> runStatus

finishedBar == {s \in Steps : stepStatus[s] = "succeeded"}

executingBar == [w \in Workers |-> claim[w].step]

\* The answer to the approval the run waits for, as long as somebody waits for it.
answerBar ==
    IF runStatus \in Terminal THEN "none"
    ELSE IF \E s \in Steps, k \in Kinds : approval[s][k].status = "pending" THEN "pending"
    ELSE IF \E s \in Steps, k \in Kinds : Outstanding(s, k) /\ ShouldResume(s, k) THEN "resume"
    ELSE IF \E s \in Steps, k \in Kinds : Outstanding(s, k) THEN "cancel"
    ELSE "none"

Promise == INSTANCE RunPromise WITH
    state <- stateBar, length <- numSteps, finished <- finishedBar,
    executing <- executingBar, answer <- answerBar

\* The claims, recoveries, outcomes, pauses and resumes implement the promise of a run:
\* steps one after the other, each done once and by one executor at a time, nothing done
\* while a decision is awaited, success only when all is done, one end; and, once a lease
\* lapsed on an executor or a decision was applied again, what is left of it.
KeepsRunPromise == Promise!Spec

-----------------------------------------------------------------------------
(* Claims of the documentation that do not hold (README, section 4).       *)

\* A paused run waits for something: an undecided approval, or a decision the engine
\* has yet to apply.
PausedRunHasDecisionAhead ==
    runStatus = "paused" =>
        \E s \in Steps, k \in Kinds :
            \/ approval[s][k].status = "pending"
            \/ approval[s][k].action \in {"resume", "cancel"}

\* The recorded success of a step is never taken back ("Resume never replays already
\* accepted side effects", approvals.md:52).
SucceededStepIsFinal ==
    [][\A s \in Steps : stepStatus[s] = "succeeded" => stepStatus'[s] = "succeeded"]_vars

\* A step whose policy always asks for approval runs only under an approved policy
\* approval of its own.
PolicyGatedStepIsApproved ==
    \A s \in Steps :
        PolicyOf[s] = {"require_approval"} /\ stepStatus[s] = "running"
            => approval[s]["policy"].status = "approved"
=============================================================================
