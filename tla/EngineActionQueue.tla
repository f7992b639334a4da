------------------------- MODULE EngineActionQueue -------------------------
(***************************************************************************)
(* The queue that applies decisions: the row of one approval in            *)
(* approval_engine_actions and the processors of the gateway processes     *)
(* that lease it, resume or cancel the blocked work and settle the row.    *)
(*                                                                         *)
(* Rows are independent and a processor handles one at a time, so one row  *)
(* is modelled.  Claiming and settling are single conditional updates; the *)
(* execution in between is outside of any transaction of this table.       *)
(***************************************************************************)
EXTENDS Naturals

CONSTANTS
    Gateways,            \* gateway processes, by instance id
    NoGateway,           \* lease_owner IS NULL
    MaxEngineAttempts,   \* maxAttempts of the processor
    Faults               \* processes may die and ticks may be lost

ASSUME QueueAssumption ==
    /\ NoGateway \notin Gateways
    /\ MaxEngineAttempts \in Nat \ {0}
    /\ Faults \in BOOLEAN

VARIABLES
    alive,          \* processes that have not died
    actionStatus,   \* approval_engine_actions.status, "none" before the row exists
    actionKind,     \* action_kind
    attempts,       \* attempts
    actionOwner,    \* lease_owner
    actionLapsed,   \* lease_expires_at_ms <= now
    engine,         \* what each processor is doing, with the attempts it claimed at
    applied         \* history: how often the action was executed

queueVars == <<actionStatus, actionKind, attempts, actionOwner, actionLapsed>>
engineVars == <<engine, applied>>

ActionStatus == {"none", "queued", "processing", "succeeded", "failed"}
ActionKind == {"none", "resume", "cancel"}
Settled == {"succeeded", "failed"}
EngineState == [pc : {"idle", "claimed", "executed", "threw"}, attempt : Nat]
EngineIdle == [pc |-> "idle", attempt |-> 0]

QueueTypeOK ==
    /\ alive \subseteq Gateways
    /\ actionStatus \in ActionStatus
    /\ actionKind \in ActionKind
    /\ attempts \in 0..MaxEngineAttempts
    /\ actionOwner \in Gateways \cup {NoGateway}
    /\ actionLapsed \in BOOLEAN
    /\ engine \in [Gateways -> EngineState]
    /\ applied \in Nat

QueueInit ==
    /\ alive = Gateways
    /\ actionStatus = "none"
    /\ actionKind = "none"
    /\ attempts = 0
    /\ actionOwner = NoGateway
    /\ actionLapsed = FALSE
    /\ engine = [g \in Gateways |-> EngineIdle]
    /\ applied = 0

-----------------------------------------------------------------------------

\* enqueueForResolvedApproval: INSERT ... ON CONFLICT DO NOTHING.  A decision that calls
\* for no action leaves the table alone.
Enqueue(kind) ==
    IF kind = "none" \/ actionStatus # "none"
    THEN UNCHANGED queueVars
    ELSE /\ actionStatus' = "queued"
         /\ actionKind' = kind
         /\ UNCHANGED <<attempts, actionOwner, actionLapsed>>

\* Mutant: an action whose processor died is never picked up again.
ClaimableWhenQueued == attempts < MaxEngineAttempts /\ actionStatus = "queued"

\* The WHERE clause of claimNext
ActionClaimable ==
    /\ attempts < MaxEngineAttempts
    /\ actionStatus = "queued" \/ (actionStatus = "processing" /\ actionLapsed)

\* claimNext
ClaimAction(g) ==
    /\ g \in alive
    /\ engine[g].pc = "idle"
    /\ ActionClaimable
    /\ actionStatus' = "processing"
    /\ actionOwner' = g
    /\ actionLapsed' = FALSE
    /\ attempts' = attempts + 1
    /\ engine' = [engine EXCEPT ![g] = [pc |-> "claimed", attempt |-> attempts + 1]]
    /\ UNCHANGED <<alive, actionKind, applied>>

\* executeAction: resumes or cancels the blocked work
ExecuteAction(g) ==
    /\ engine[g].pc = "claimed"
    /\ engine' = [engine EXCEPT ![g].pc = "executed"]
    /\ applied' = applied + 1
    /\ UNCHANGED <<alive, queueVars>>

\* executeAction throws before it changed anything, or executeAction or markSucceeded
\* throws after the change was made: both end in the catch block.
ExecuteThrows(g) ==
    /\ engine[g].pc \in {"claimed", "executed"}
    /\ engine' = [engine EXCEPT ![g].pc = "threw"]
    /\ UNCHANGED <<alive, queueVars, applied>>

\* Mutant: whoever held the row last may settle it.
MayAlwaysSettle(g) == TRUE

\* The WHERE clause of markSucceeded, requeueWithError and markFailed
MaySettle(g) == actionStatus = "processing" /\ actionOwner = g

Settle(g, status) ==
    /\ IF MaySettle(g)
       THEN /\ actionStatus' = status
            /\ actionOwner' = NoGateway
            /\ actionLapsed' = FALSE
       ELSE UNCHANGED <<actionStatus, actionOwner, actionLapsed>>
    /\ engine' = [engine EXCEPT ![g] = EngineIdle]
    /\ UNCHANGED <<alive, actionKind, attempts, applied>>

\* Mutant: an action that failed for good is reported as done.
MarkSucceededAnyway(g) == engine[g].pc \in {"executed", "threw"} /\ Settle(g, "succeeded")

MarkSucceeded(g) == engine[g].pc = "executed" /\ Settle(g, "succeeded")

RequeueWithError(g) ==
    engine[g].pc = "threw" /\ engine[g].attempt < MaxEngineAttempts /\ Settle(g, "queued")

MarkFailed(g) ==
    engine[g].pc = "threw" /\ engine[g].attempt >= MaxEngineAttempts /\ Settle(g, "failed")

\* The statement that settles the row fails: the tick ends with an error, the row stays
\* leased until its lease lapses.
EngineTickLost(g) ==
    /\ Faults
    /\ engine[g].pc = "threw"
    /\ engine' = [engine EXCEPT ![g] = EngineIdle]
    /\ UNCHANGED <<alive, queueVars, applied>>

\* 30 seconds after the claim; nothing renews the lease
ActionLeaseLapses ==
    /\ actionStatus = "processing"
    /\ ~actionLapsed
    /\ actionLapsed' = TRUE
    /\ UNCHANGED <<alive, actionStatus, actionKind, attempts, actionOwner, engineVars>>

\* One step of the processor of g
EngineStep(g) ==
    \/ ClaimAction(g)
    \/ ExecuteAction(g)
    \/ ExecuteThrows(g)
    \/ MarkSucceeded(g)
    \/ RequeueWithError(g)
    \/ MarkFailed(g)

-----------------------------------------------------------------------------
(* Properties.                                                             *)

\* A settled action stays settled: a processor that lost its lease to another one, and
\* comes back late, neither reopens the row nor overwrites its outcome.
SettledActionIsFinal ==
    [][(actionStatus \in Settled) => UNCHANGED <<actionStatus, attempts>>]_queueVars

\* An action is reported as succeeded only if executeAction ran through for it.
SucceededWasApplied == actionStatus = "succeeded" => applied > 0

\* Does not hold (README, section 4): every decision that calls for an action is applied or
\* given up on; the row does not stay queued or leased for ever.
ActionSettles == actionStatus \in {"queued", "processing"} ~> actionStatus \in Settled

\* While attempts are left, an action is not forgotten: a processor that dies or loses its
\* tick is followed by another attempt, until the action settles or the attempts are used up.
ActionIsRetried ==
    (actionStatus \in {"queued", "processing"} /\ attempts < MaxEngineAttempts)
        ~> (actionStatus \in Settled \/ attempts = MaxEngineAttempts)
=============================================================================
