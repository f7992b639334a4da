----------------------------- MODULE TurnRunner -----------------------------
(***************************************************************************)
(* The turns of one conversation: their rows in turns, the row of the      *)
(* conversation in conversation_leases, the approvals and resume tokens    *)
(* that pause and resume them, and those who execute them.  A turn is      *)
(* executed by the request that created it, under an owner name of its own *)
(* (the turn's number stands for it), or by the conversation turn loop of  *)
(* a gateway process.                                                      *)
(*                                                                         *)
(* Every action is one database transaction, or a step of the environment. *)
(* The execution of a turn is outside of any transaction, and nothing      *)
(* stops it when the turn or one of its leases is taken away.              *)
(***************************************************************************)
EXTENDS Naturals

CONSTANTS
    Loops,          \* conversation turn loops, one identity per gateway process
    FirstLoops,     \* the processes that run at the start; the others replace dead ones
    NoOwner,        \* lease_owner IS NULL, no row in conversation_leases
    MaxTurns,       \* BOUND: turns of the conversation
    MaxApprovals,   \* BOUND: approvals a turn asks for
    MaxFaults,      \* BOUND: executions that end without recording anything, and deaths
    LeaseMayLapse   \* heartbeats of a live executor may fail for 30 seconds

Turns == 1..MaxTurns
Owners == Loops \cup Turns

ASSUME TurnAssumption ==
    /\ MaxTurns \in Nat
    /\ MaxApprovals \in Nat
    /\ MaxFaults \in Nat
    /\ FirstLoops \subseteq Loops
    /\ Loops \cap Turns = {}
    /\ NoOwner \notin Owners
    /\ LeaseMayLapse \in BOOLEAN

VARIABLES
    status,       \* turns.status, "none" before the turn exists
    turnOwner,    \* turns.lease_owner
    turnLapsed,   \* turns.lease_expires_at_ms <= now
    checkpoint,   \* resume_approval_id of turns.checkpoint_json, 0 for none
    convOwner,    \* conversation_leases.lease_owner
    convLapsed,   \* conversation_leases.lease_expires_at_ms <= now
    convTurn,     \* history: the turn whose claim or heartbeat set the conversation lease
    asked,        \* how many approvals the turn has asked for
    approval,     \* status of each approval
    token,        \* approvals whose resume token is not revoked
    exec,         \* what each owner is executing
    candidates,   \* what each loop listed and has yet to try
    request,      \* the requests that created the turns
    loop,         \* whether a loop's process runs: "new", "live" or "dead"
    faults,       \* counts the faults, for their bound
    lastClaim,    \* history: who claimed the turn last
    disturbed     \* history: a cancellation or a lapse took the conversation lease from
                  \* an owner that was executing

turnVars == <<status, turnOwner, turnLapsed, checkpoint>>
convVars == <<convOwner, convLapsed, convTurn>>
approvalVars == <<asked, approval, token>>
actorVars == <<exec, candidates, request, loop, faults>>
vars == <<status, turnOwner, turnLapsed, checkpoint, convOwner, convLapsed, convTurn, asked,
          approval, token, exec, candidates, request, loop, faults, lastClaim,
          disturbed>>

Terminal == {"succeeded", "failed", "cancelled"}
Runnable == {"queued", "running"}
ApprovalIds == 1..MaxApprovals
ApprovalStatus == {"none", "pending", "decided", "expired"}
Exec == [turn : 0..MaxTurns, phase : {"idle", "executing", "approving"},
         approval : 0..MaxApprovals]
Idle == [turn |-> 0, phase |-> "idle", approval |-> 0]
Listing == [running : SUBSET Turns, queued : SUBSET Turns]
NothingListed == [running |-> {}, queued |-> {}]
Executing(t) == [turn |-> t, phase |-> "executing", approval |-> 0]

TypeOK ==
    /\ status \in [Turns -> {"none", "paused"} \cup Runnable \cup Terminal]
    /\ turnOwner \in [Turns -> Owners \cup {NoOwner}]
    /\ turnLapsed \in [Turns -> BOOLEAN]
    /\ checkpoint \in [Turns -> 0..MaxApprovals]
    /\ convOwner \in Owners \cup {NoOwner}
    /\ convLapsed \in BOOLEAN
    /\ convTurn \in 0..MaxTurns
    /\ asked \in [Turns -> 0..MaxApprovals]
    /\ approval \in [Turns -> [ApprovalIds -> ApprovalStatus]]
    /\ token \in [Turns -> SUBSET ApprovalIds]
    /\ exec \in [Owners -> Exec]
    /\ candidates \in [Loops -> Listing]
    /\ request \in [Turns -> {"none", "open", "gone"}]
    /\ loop \in [Loops -> {"new", "live", "dead"}]
    /\ faults \in 0..MaxFaults
    /\ lastClaim \in [Turns -> Owners \cup {NoOwner}]
    /\ disturbed \in BOOLEAN

Init ==
    /\ status = [t \in Turns |-> "none"]
    /\ turnOwner = [t \in Turns |-> NoOwner]
    /\ turnLapsed = [t \in Turns |-> FALSE]
    /\ checkpoint = [t \in Turns |-> 0]
    /\ convOwner = NoOwner
    /\ convLapsed = FALSE
    /\ convTurn = 0
    /\ asked = [t \in Turns |-> 0]
    /\ approval = [t \in Turns |-> [i \in ApprovalIds |-> "none"]]
    /\ token = [t \in Turns |-> {}]
    /\ exec = [o \in Owners |-> Idle]
    /\ candidates = [o \in Loops |-> NothingListed]
    /\ request = [t \in Turns |-> "none"]
    /\ loop = [o \in Loops |-> IF o \in FirstLoops THEN "live" ELSE "new"]
    /\ faults = 0
    /\ lastClaim = [t \in Turns |-> NoOwner]
    /\ disturbed = FALSE

-----------------------------------------------------------------------------
(* The two leases.                                                         *)

\* Mutant: a lease that ran out is never taken over.
CanTakeUnexpired(t, o) == turnOwner[t] \in {NoOwner, o}

\* canTakeLease
CanTakeLease(t, o) == turnOwner[t] \in {NoOwner, o} \/ turnLapsed[t]

\* Mutant: the conversation lease is overwritten.
ConversationAlwaysFree(o) == TRUE

\* tryAcquireConversationLeaseTx: an insert, or an update of a lease that ran out or is ours
ConversationFree(o) == convOwner \in {NoOwner, o} \/ convLapsed

\* claimLeaseTx
TakeLeases(t, o) ==
    /\ turnOwner' = [turnOwner EXCEPT ![t] = o]
    /\ turnLapsed' = [turnLapsed EXCEPT ![t] = FALSE]
    /\ convOwner' = o
    /\ convLapsed' = FALSE
    /\ convTurn' = t

\* clearTurnLeaseStateTx
ClearTurnLease(t) ==
    /\ turnOwner' = [turnOwner EXCEPT ![t] = NoOwner]
    /\ turnLapsed' = [turnLapsed EXCEPT ![t] = FALSE]

DeleteConversationLease == convOwner' = NoOwner /\ convLapsed' = FALSE /\ convTurn' = 0

\* releaseConversationLeaseTx
ReleaseConversation(o) ==
    IF convOwner = o THEN DeleteConversationLease ELSE UNCHANGED convVars

\* TurnRunner.claim, when it succeeds
Claim(o, t) ==
    /\ status[t] \in Runnable
    /\ CanTakeLease(t, o)
    /\ ConversationFree(o)
    /\ TakeLeases(t, o)
    /\ status' = [status EXCEPT ![t] = "running"]
    /\ exec' = [exec EXCEPT ![o] = Executing(t)]
    /\ lastClaim' = [lastClaim EXCEPT ![t] = o]
    /\ UNCHANGED <<checkpoint, approvalVars, request, loop, faults, disturbed>>

-----------------------------------------------------------------------------
(* NativeTurnController.                                                   *)

\* Mutants: a turn is put back to queued whatever its status; the lease of a turn that is
\* not paused is left alone.
RequeuesAnyway(t) == TRUE

LeaseAfterResumeKept(t) == IF status[t] = "paused" THEN NoOwner ELSE turnOwner[t]

\* What the return for a terminal turn and the WHERE clause of the update let through
Requeues(t) == status[t] = "paused"

LeaseAfterResume(t) == NoOwner

ResumedStatus == "queued"

\* resumeTurn: the token works once.  The turn lease is cleared whether or not the turn is
\* paused, unless it is over.
ResumeTurn(t, i) ==
    /\ token' = [token EXCEPT ![t] = @ \ {i}]
    /\ status' = [status EXCEPT ![t] =
           IF i \in token[t] /\ Requeues(t) THEN ResumedStatus ELSE @]
    /\ IF i \in token[t] /\ status[t] \notin Terminal
       THEN /\ turnOwner' = [turnOwner EXCEPT ![t] = LeaseAfterResume(t)]
            /\ turnLapsed' = [turnLapsed EXCEPT ![t] =
                   turnLapsed[t] /\ LeaseAfterResume(t) # NoOwner]
       ELSE UNCHANGED <<turnOwner, turnLapsed>>
    /\ UNCHANGED <<checkpoint, convVars, asked, approval, lastClaim, disturbed>>

SomebodyExecutes == \E o \in Owners : exec[o].phase # "idle"

\* cancelTurn: deletes the lease of the conversation, whoever holds it
CancelTurn(t) ==
    IF status[t] \in Terminal
    THEN UNCHANGED <<turnVars, convVars, approvalVars, lastClaim, disturbed>>
    ELSE /\ status' = [status EXCEPT ![t] = "cancelled"]
         /\ ClearTurnLease(t)
         /\ checkpoint' = [checkpoint EXCEPT ![t] = 0]
         /\ DeleteConversationLease
         /\ token' = [token EXCEPT ![t] = {}]
         /\ disturbed' = (disturbed \/ SomebodyExecutes)
         /\ UNCHANGED <<asked, approval, lastClaim>>

\* Mutant: an expired approval is not acted on.
ResolvedByDecision == {"decided"}

\* The outcomes after which maybeResolvePausedTurn resumes a turn.  Every approval of a turn
\* is about a tool call: a denial resumes it as an approval does, and so does an expiry.
ResolvedOutcomes == {"decided", "expired"}

\* maybeResolvePausedTurn
ResolvePaused(t) ==
    /\ status[t] = "paused"
    /\ checkpoint[t] \in ApprovalIds
    /\ approval[t][checkpoint[t]] \in ResolvedOutcomes
    /\ ResumeTurn(t, checkpoint[t])
    /\ UNCHANGED actorVars

-----------------------------------------------------------------------------
(* executeClaimedConversationTurn, by owner o.                             *)

Fault == faults < MaxFaults /\ faults' = faults + 1

\* The owner is done with its turn: a loop ticks on, a request returns or throws.
DoneExecuting(o) ==
    /\ exec' = [exec EXCEPT ![o] = Idle]
    /\ request' = [t \in Turns |-> IF t = o THEN "gone" ELSE request[t]]
    /\ UNCHANGED <<candidates, loop>>

\* Mutant: only the status is looked at.
MayRecordAnyway(o, t) == status[t] \notin Terminal

\* The guard of pause, complete and fail
MayRecord(o, t) == status[t] \notin Terminal /\ turnOwner[t] = o

\* complete and fail
Finish(o, outcome) ==
    LET t == exec[o].turn IN
    /\ exec[o].phase = "executing"
    /\ IF MayRecord(o, t)
       THEN /\ status' = [status EXCEPT ![t] = outcome]
            /\ ClearTurnLease(t)
            /\ checkpoint' = [checkpoint EXCEPT ![t] = 0]
            /\ ReleaseConversation(o)
       ELSE UNCHANGED <<turnVars, convVars>>
    /\ DoneExecuting(o)
    /\ UNCHANGED <<approvalVars, faults, lastClaim, disturbed>>

\* A tool call needs an approval: createTurnApproval, which looks at no status
AskApproval(o) ==
    LET t == exec[o].turn
        i == asked[t] + 1
    IN
    /\ exec[o].phase = "executing"
    /\ asked[t] < MaxApprovals
    /\ asked' = [asked EXCEPT ![t] = i]
    /\ approval' = [approval EXCEPT ![t] = [@ EXCEPT ![i] = "pending"]]
    /\ token' = [token EXCEPT ![t] = @ \cup {i}]
    /\ exec' = [exec EXCEPT ![o] = [turn |-> t, phase |-> "approving", approval |-> i]]
    /\ UNCHANGED <<turnVars, convVars, candidates, request, loop, faults, lastClaim,
                   disturbed>>

\* pause, in a transaction of its own; when it is refused the execution ends with an error
PauseTurn(o) ==
    LET t == exec[o].turn IN
    /\ exec[o].phase = "approving"
    /\ IF MayRecord(o, t) /\ status[t] \in Runnable
       THEN /\ status' = [status EXCEPT ![t] = "paused"]
            /\ ClearTurnLease(t)
            /\ checkpoint' = [checkpoint EXCEPT ![t] = exec[o].approval]
            /\ ReleaseConversation(o)
            /\ exec' = [exec EXCEPT ![o] = Idle]
            /\ UNCHANGED <<candidates, request, loop>>
       ELSE UNCHANGED <<turnVars, convVars>> /\ DoneExecuting(o)
    /\ UNCHANGED <<approvalVars, faults, lastClaim, disturbed>>

\* The call that creates the approval or records the outcome throws: the execution is over,
\* the rows and leases stay as they are.
RecordingFails(o) ==
    /\ exec[o].phase # "idle"
    /\ Fault
    /\ DoneExecuting(o)
    /\ UNCHANGED <<turnVars, convVars, approvalVars, lastClaim, disturbed>>

\* heartbeat, every 5 seconds of an execution; its result is not looked at
Heartbeat(o) ==
    LET t == exec[o].turn IN
    /\ exec[o].phase = "executing"
    /\ status[t] = "running"
    /\ turnOwner[t] = o
    /\ ConversationFree(o)
    /\ TakeLeases(t, o)
    /\ UNCHANGED <<status, checkpoint, approvalVars, actorVars, lastClaim, disturbed>>

\* What the owner does next with the turn it executes
ExecutorStep(o) ==
    \/ \E outcome \in {"succeeded", "failed"} : Finish(o, outcome)
    \/ AskApproval(o)
    \/ PauseTurn(o)

-----------------------------------------------------------------------------
(* turnViaTurnRunner: the request that created turn t.                     *)

\* prepareConversationTurnRun; turns are numbered in the order of their creation
CreateTurn(t) ==
    /\ status[t] = "none"
    /\ \A u \in Turns : u < t => status[u] # "none"
    /\ status' = [status EXCEPT ![t] = "queued"]
    /\ request' = [request EXCEPT ![t] = "open"]
    /\ UNCHANGED <<turnOwner, turnLapsed, checkpoint, convVars, approvalVars, exec, candidates,
                   loop, faults, lastClaim, disturbed>>

Waiting(t) == request[t] = "open" /\ exec[t].phase = "idle"

RequestClaims(t) == Waiting(t) /\ Claim(t, t) /\ UNCHANGED candidates

RequestResolves(t) == Waiting(t) /\ ResolvePaused(t)

\* The request finds its turn terminal, or gives up at its deadline and cancels it.
RequestEnds(t) ==
    /\ Waiting(t)
    /\ CancelTurn(t)
    /\ request' = [request EXCEPT ![t] = "gone"]
    /\ UNCHANGED <<exec, candidates, loop, faults>>

\* The process that serves the request dies.
RequestLost(t) ==
    /\ request[t] = "open"
    /\ Fault
    /\ request' = [request EXCEPT ![t] = "gone"]
    /\ exec' = [exec EXCEPT ![t] = Idle]
    /\ UNCHANGED <<turnVars, convVars, approvalVars, candidates, loop, lastClaim, disturbed>>

-----------------------------------------------------------------------------
(* startConversationTurnLoop.                                              *)

LoopIdle(o) == loop[o] = "live" /\ exec[o].phase = "idle" /\ candidates[o] = NothingListed

LoopResolves(o) == LoopIdle(o) /\ \E t \in Turns : ResolvePaused(t)

\* listRunnableConversationTurns: nothing while a turn of the conversation is paused
LoopScans(o) ==
    /\ LoopIdle(o)
    /\ \A t \in Turns : status[t] # "paused"
    /\ candidates' = [candidates EXCEPT ![o] =
           [running |-> {t \in Turns : status[t] = "running"},
            queued |-> {t \in Turns : status[t] = "queued"}]]
    /\ UNCHANGED <<turnVars, convVars, approvalVars, exec, request, loop, faults, lastClaim,
                   disturbed>>

\* What runs comes before what is queued, then the order of creation.
FirstOf(turns, t) == t \in turns /\ \A u \in turns : t <= u

NextCandidate(o, t) ==
    \/ FirstOf(candidates[o].running, t)
    \/ candidates[o].running = {} /\ FirstOf(candidates[o].queued, t)

\* claimNextConversationTurn tries one listed turn after the other.
LoopClaims(o, t) ==
    /\ NextCandidate(o, t)
    /\ Claim(o, t)
    /\ candidates' = [candidates EXCEPT ![o] = NothingListed]

LoopSkips(o, t) ==
    /\ NextCandidate(o, t)
    /\ ~(status[t] \in Runnable /\ CanTakeLease(t, o) /\ ConversationFree(o))
    /\ candidates' = [candidates EXCEPT ![o] =
           [running |-> candidates[o].running \ {t}, queued |-> candidates[o].queued \ {t}]]
    /\ UNCHANGED <<turnVars, convVars, approvalVars, exec, request, loop, faults, lastClaim,
                   disturbed>>

\* Its process dies and is restarted, under a new instance id.
LoopRestarts(o, p) ==
    /\ loop[o] = "live"
    /\ loop[p] = "new"
    /\ Fault
    /\ loop' = [loop EXCEPT ![o] = "dead", ![p] = "live"]
    /\ exec' = [exec EXCEPT ![o] = Idle]
    /\ candidates' = [candidates EXCEPT ![o] = NothingListed]
    /\ UNCHANGED <<turnVars, convVars, approvalVars, request, lastClaim, disturbed>>

-----------------------------------------------------------------------------
(* Everybody else.                                                         *)

\* /stop and conversation.delete
ClientCancels(t) ==
    /\ status[t] \in {"paused"} \cup Runnable
    /\ CancelTurn(t)
    /\ UNCHANGED actorVars

\* A person or the guardian approves or denies, or the approval expires.
Decide(t, i, outcome) ==
    /\ approval[t][i] = "pending"
    /\ approval' = [approval EXCEPT ![t] = [@ EXCEPT ![i] = outcome]]
    /\ UNCHANGED <<turnVars, convVars, asked, token, actorVars, lastClaim, disturbed>>

\* ApprovalEngineActionProcessor presents the token of a decided approval.
EngineResumes(t, i) ==
    /\ approval[t][i] = "decided"
    /\ i \in token[t]
    /\ ResumeTurn(t, i)
    /\ UNCHANGED actorVars

\* Thirty seconds without a claim or heartbeat.  The leases that were taken together run
\* out together.
LapsesWithTurn(t) == convTurn = t /\ convOwner = turnOwner[t]

TurnLeaseLapses(t) ==
    /\ turnOwner[t] # NoOwner
    /\ ~turnLapsed[t]
    /\ LeaseMayLapse \/ exec[turnOwner[t]].turn # t
    /\ turnLapsed' = [turnLapsed EXCEPT ![t] = TRUE]
    /\ convLapsed' = (convLapsed \/ LapsesWithTurn(t))
    /\ disturbed' = (disturbed \/ (LapsesWithTurn(t) /\ exec[convOwner].phase # "idle"))
    /\ UNCHANGED <<status, turnOwner, checkpoint, convOwner, convTurn, approvalVars, actorVars,
                   lastClaim>>

\* The conversation lease alone, where the turn lease was cleared by a resume
ConversationLeaseLapses ==
    /\ convOwner # NoOwner
    /\ ~convLapsed
    /\ \A t \in Turns : ~LapsesWithTurn(t)
    /\ LeaseMayLapse \/ exec[convOwner].phase = "idle"
    /\ convLapsed' = TRUE
    /\ disturbed' = (disturbed \/ exec[convOwner].phase # "idle")
    /\ UNCHANGED <<turnVars, convOwner, convTurn, approvalVars, actorVars, lastClaim>>

-----------------------------------------------------------------------------

RequestStep(t) ==
    RequestClaims(t) \/ RequestResolves(t) \/ RequestEnds(t) \/ ExecutorStep(t)

LoopStep(o) ==
    \/ LoopResolves(o)
    \/ LoopScans(o)
    \/ \E t \in Turns : LoopClaims(o, t) \/ LoopSkips(o, t)
    \/ ExecutorStep(o)

\* A lease nobody stands behind runs out.
AbandonedLeaseLapses ==
    \/ \E t \in Turns : TurnLeaseLapses(t) /\ exec[turnOwner[t]].turn # t
    \/ ConversationLeaseLapses /\ exec[convOwner].phase = "idle"

Environment ==
    \/ \E t \in Turns :
          \/ CreateTurn(t)
          \/ RequestLost(t)
          \/ ClientCancels(t)
          \/ TurnLeaseLapses(t)
          \/ \E i \in ApprovalIds :
                \/ EngineResumes(t, i)
                \/ \E outcome \in {"decided", "expired"} : Decide(t, i, outcome)
    \/ \E o, p \in Loops : LoopRestarts(o, p)
    \/ \E o \in Owners : Heartbeat(o) \/ RecordingFails(o)
    \/ ConversationLeaseLapses

Next ==
    \/ \E t \in Turns : RequestStep(t)
    \/ \E o \in Loops : LoopStep(o)
    \/ Environment

Spec == Init /\ [][Next]_vars

\* Requests and loops keep going, executions end (each has a deadline), time passes.
Fairness ==
    /\ \A t \in Turns : WF_vars(RequestStep(t))
    /\ \A o \in Loops : WF_vars(LoopStep(o))
    /\ WF_vars(AbandonedLeaseLapses)

FairSpec == Spec /\ Fairness

-----------------------------------------------------------------------------
(* Properties.                                                             *)

\* A paused turn can be resumed: the approval it waits for has a token that still works.
\* Should a decision arrive between the creation of the approval and the pause, the pause
\* must fail; a paused turn whose token is used up would keep the loops busy for ever.
PausedTurnCanResume ==
    \A t \in Turns : status[t] = "paused" => checkpoint[t] \in token[t]

\* An executor from which the turn was taken over, resumed or cancelled does not change it
\* when it comes to its end.
LateOutcomeIgnored ==
    [][\A o \in Owners, t \in Turns :
          exec[o].turn = t /\ exec'[o] # exec[o] /\ status'[t] # status[t]
              => lastClaim[t] = o]_vars

\* A turn that is over stays as it ended, whatever executors, tokens and cancellations
\* still arrive.
TerminalTurnIsFinal ==
    [][\A t \in Turns : status[t] \in Terminal => status'[t] = status[t]]_vars

\* Turns of a conversation are executed one at a time, as long as no turn of it is cancelled
\* while one is executed and no executor misses its heartbeats for the length of a lease.
SerializedUndisturbed ==
    ~disturbed => \A o, p \in Owners :
        exec[o].phase # "idle" /\ exec[p].phase # "idle" => o = p

\* Every turn ends or pauses, or waits for a paused turn of its conversation, although
\* requests are lost and loops die.
TurnSettles ==
    \A t \in Turns :
        status[t] \in Runnable
            ~> (status[t] \in Terminal \/ \E u \in Turns : status[u] = "paused")

\* A turn whose approval is decided or expired does not stay paused.
DecidedTurnMovesOn ==
    \A t \in Turns :
        (status[t] = "paused" /\ \A i \in 1..asked[t] : approval[t][i] # "pending")
            ~> status[t] # "paused"

-----------------------------------------------------------------------------
(* A claim of the documentation.                                           *)

\* Turn execution is serialized per conversation.
SerializedPerConversation ==
    \A o, p \in Owners :
        exec[o].phase = "executing" /\ exec[p].phase = "executing" => o = p
=============================================================================
