--------------------------- MODULE ApprovalReview ---------------------------
(***************************************************************************)
(* The life of one approval, from its creation to the resumption of the    *)
(* work it blocks: the callers that create it, the guardian loops of the   *)
(* gateway processes that review it, the people that decide it, its        *)
(* expiry, the agent that waits for it, and (from EngineActionQueue) the   *)
(* processors that apply the decision.                                     *)
(*                                                                         *)
(* transitionWithReviewTx reads the status, checks it against the allowed  *)
(* ones and updates the row WHERE status is still what was read.  Where    *)
(* several statuses are allowed the read and the update are two actions,   *)
(* as the READ COMMITTED transactions of Postgres let others in between;   *)
(* with a single allowed status the two together are one test.             *)
(***************************************************************************)
EXTENDS EngineActionQueue

CONSTANTS
    Creators,   \* calls of createReviewedApproval with this approval's key
    Humans,     \* calls of resolveApproval
    Origins     \* what kinds of work the approval may block

ASSUME ReviewAssumption == Origins \subseteq {"paused", "tool", "awaited"}

VARIABLES
    origin,      \* "paused": a run paused by policy, budget, retry or takeover
                 \* "tool": a paused tool call, which is resumed when denied, too
                 \* "awaited": a tool call whose agent polls for the decision
    status,      \* approvals.status, "none" before the row exists
    lastReview,  \* state of the review latest_review_id points to
    decisions,   \* history: committed reviews with a terminal state
    creator,     \* progress of each creating call, and the review mode it saw
    guardian,    \* progress of each guardian loop
    reviewer,    \* the reviewer subagent each loop created last; "orphaned" is a history
                 \* value: still running, its loop's tick was lost
    stale,       \* the running review started more than staleReviewMs ago
    due,         \* expires_at <= now
    human,       \* progress of each resolving call
    overrides,   \* calls that created policy overrides
    waiter       \* the agent that awaits the approval

reviewVars == <<origin, status, lastReview, decisions, creator, guardian, reviewer, stale,
                due, human, overrides, waiter>>
vars == <<alive, actionStatus, actionKind, attempts, actionOwner, actionLapsed, engine,
          applied, origin, status, lastReview, decisions, creator, guardian, reviewer, stale,
          due, human, overrides, waiter>>

Modes == {"queued", "awaiting_human"}
Blocked == {"queued", "reviewing", "awaiting_human"}
Decided == {"approved", "denied"}
TerminalStatus == {"approved", "denied", "expired"}
ReviewState == {"none", "queued", "running", "requested_human", "failed"} \cup TerminalStatus
HumanResolvable == {"queued", "awaiting_human"}
CreatorState == [pc : {"idle", "created", "done"}, mode : {"none"} \cup Modes]
CreatorDone == [pc |-> "done", mode |-> "none"]
HumanState == [pc : {"idle", "checked", "writing", "overriding", "done"},
               decision : {"none"} \cup Decided, always : BOOLEAN,
               seen : {"none"} \cup Blocked]
WaiterState == [pc : {"off", "polling", "expiring", "approved", "denied", "expired"},
                seen : {"none"} \cup Blocked]
HumanAt(pc) == [pc |-> pc, decision |-> "none", always |-> FALSE, seen |-> "none"]
HumanDone == HumanAt("done")

TypeOK ==
    /\ QueueTypeOK
    /\ origin \in {"none"} \cup Origins
    /\ status \in {"none"} \cup Blocked \cup TerminalStatus
    /\ lastReview \in ReviewState
    /\ decisions \in Nat
    /\ creator \in [Creators -> CreatorState]
    /\ guardian \in [Gateways -> {"idle", "picked", "reviewing"}]
    /\ reviewer \in [Gateways -> {"none", "running", "orphaned"}]
    /\ stale \in BOOLEAN
    /\ due \in BOOLEAN
    /\ human \in [Humans -> HumanState]
    /\ overrides \subseteq Humans
    /\ waiter \in WaiterState

Init ==
    /\ QueueInit
    /\ origin = "none"
    /\ status = "none"
    /\ lastReview = "none"
    /\ decisions = 0
    /\ creator = [c \in Creators |-> [pc |-> "idle", mode |-> "none"]]
    /\ guardian = [g \in Gateways |-> "idle"]
    /\ reviewer = [g \in Gateways |-> "none"]
    /\ stale = FALSE
    /\ due = FALSE
    /\ human = [h \in Humans |-> HumanAt("idle")]
    /\ overrides = {}
    /\ waiter = [pc |-> "off", seen |-> "none"]

-----------------------------------------------------------------------------
(* transitionWithReviewTx and resolveWithEngineActionTx.                   *)

\* Mutant: the update does not compare the status with the one that was read.
TransitionsBlindly(seen, allowed) == seen \in allowed

\* The transition happens: the status read is allowed and still the row's status.
Transitions(seen, allowed) == seen \in allowed /\ status = seen

\* A transition to a status that is not terminal, with its review
Move(to, review) ==
    /\ status' = to
    /\ lastReview' = review
    /\ UNCHANGED <<decisions, queueVars>>

\* resolveActionFromResolvedApproval.  Work that an approval blocks has a resume token, and
\* an approval that blocks none has neither a token nor a turn or step to cancel.
ActionFor(d) ==
    IF origin = "awaited" THEN "none"
    ELSE IF d = "approved" \/ origin = "tool" THEN "resume" ELSE "cancel"

\* A decision, its review and the engine action it calls for, in one transaction
Resolve(d) ==
    /\ status' = d
    /\ lastReview' = d
    /\ decisions' = decisions + 1
    /\ Enqueue(ActionFor(d))

\* The review of an expiry; no engine action
ExpireNow ==
    /\ status' = "expired"
    /\ lastReview' = "expired"
    /\ decisions' = decisions + 1
    /\ UNCHANGED queueVars

NoTransition == UNCHANGED <<status, lastReview, decisions, queueVars>>

-----------------------------------------------------------------------------
(* createReviewedApproval.                                                 *)

\* INSERT ... ON CONFLICT DO NOTHING; a caller that meets a row that was reviewed already
\* returns it as it is.
Create(c, mode) ==
    /\ creator[c].pc = "idle"
    /\ IF status = "none"
       THEN /\ status' = mode
            /\ origin' \in Origins
            /\ waiter' = [waiter EXCEPT !.pc = IF origin' = "awaited" THEN "polling" ELSE "off"]
       ELSE UNCHANGED <<status, origin, waiter>>
    /\ creator' = [creator EXCEPT ![c] =
           IF lastReview = "none" /\ status \in {"none"} \cup Modes
           THEN [pc |-> "created", mode |-> mode] ELSE CreatorDone]
    /\ UNCHANGED <<alive, queueVars, engineVars, lastReview, decisions, guardian, reviewer,
                   stale, due, human, overrides>>

\* The first review of the approval, which leaves its status as it is
InitReview(c) ==
    LET mode == creator[c].mode IN
    /\ creator[c].pc = "created"
    /\ IF Transitions(mode, {mode})
       THEN Move(mode, IF mode = "queued" THEN "queued" ELSE "requested_human")
       ELSE NoTransition
    /\ creator' = [creator EXCEPT ![c] = CreatorDone]
    /\ UNCHANGED <<alive, engineVars, origin, guardian, reviewer, stale, due, human, overrides,
                   waiter>>

-----------------------------------------------------------------------------
(* GuardianReviewProcessor.                                                *)

\* claimNextApproval up to the transition: a queued approval is picked and a reviewer
\* subagent is created for it
GuardianPick(g) ==
    /\ g \in alive
    /\ guardian[g] = "idle"
    /\ status = "queued"
    /\ guardian' = [guardian EXCEPT ![g] = "picked"]
    /\ reviewer' = [reviewer EXCEPT ![g] = "running"]
    /\ UNCHANGED <<alive, queueVars, engineVars, origin, status, lastReview, decisions, creator,
                   stale, due, human, overrides, waiter>>

\* claimNextApproval, the transition; the loser of a race closes its reviewer
GuardianClaim(g) ==
    /\ guardian[g] = "picked"
    /\ IF Transitions("queued", {"queued"})
       THEN /\ Move("reviewing", "running")
            /\ guardian' = [guardian EXCEPT ![g] = "reviewing"]
            /\ stale' = FALSE
            /\ UNCHANGED reviewer
       ELSE /\ NoTransition
            /\ guardian' = [guardian EXCEPT ![g] = "idle"]
            /\ reviewer' = [reviewer EXCEPT ![g] = "none"]
            /\ UNCHANGED stale
    /\ UNCHANGED <<alive, engineVars, origin, creator, due, human, overrides, waiter>>

\* What the guardian loop does once its reviewer answered: it records the outcome if the
\* approval is still under review, and ends the subagent.
GuardianRecords(g, effect) ==
    /\ guardian[g] = "reviewing"
    /\ IF Transitions("reviewing", {"reviewing"}) THEN effect ELSE NoTransition
    /\ guardian' = [guardian EXCEPT ![g] = "idle"]
    /\ reviewer' = [reviewer EXCEPT ![g] = "none"]
    /\ UNCHANGED <<alive, engineVars, origin, creator, stale, due, human, overrides, waiter>>

\* processApproval: approve, requested_human, or an error on the way
GuardianApproves(g) == GuardianRecords(g, Resolve("approved"))
GuardianEscalates(g) == GuardianRecords(g, Move("awaiting_human", "requested_human"))
GuardianFails(g) == GuardianRecords(g, Move("awaiting_human", "failed"))

\* Mutant: the recovery allows the wrong status.
RecoverStaleQueued(g) ==
    /\ g \in alive
    /\ guardian[g] = "idle"
    /\ stale
    /\ Transitions("reviewing", {"queued"})
    /\ Move("awaiting_human", "failed")
    /\ UNCHANGED <<alive, engineVars, origin, creator, guardian, reviewer, stale, due, human,
                   overrides, waiter>>

\* recoverStaleReviews, at the start of a tick
RecoverStale(g) ==
    /\ g \in alive
    /\ guardian[g] = "idle"
    /\ stale
    /\ Transitions("reviewing", {"reviewing"})
    /\ Move("awaiting_human", "failed")
    /\ UNCHANGED <<alive, engineVars, origin, creator, guardian, reviewer, stale, due, human,
                   overrides, waiter>>

\* The loop forgets what it was doing
LoseGuardian(g) ==
    /\ guardian' = [guardian EXCEPT ![g] = "idle"]
    /\ reviewer' = [reviewer EXCEPT ![g] = IF @ = "running" THEN "orphaned" ELSE @]

\* The tick ends with an error outside of processApproval (the claim's transaction or
\* its broadcast): nothing is rolled back, nobody works on the review any more.
GuardianTickLost(g) ==
    /\ Faults
    /\ guardian[g] # "idle"
    /\ LoseGuardian(g)
    /\ UNCHANGED <<alive, queueVars, engineVars, origin, status, lastReview, decisions, creator,
                   stale, due, human, overrides, waiter>>

\* Five minutes after the review started
ReviewGetsStale ==
    /\ status = "reviewing"
    /\ ~stale
    /\ stale' = TRUE
    /\ UNCHANGED <<alive, queueVars, engineVars, origin, status, lastReview, decisions, creator,
                   guardian, reviewer, due, human, overrides, waiter>>

-----------------------------------------------------------------------------
(* resolveApproval: a person decides.                                      *)

\* The checks before the transaction: "approve always" is refused unless the approval can
\* be decided now.
HumanAlways(h) ==
    /\ human[h].pc = "idle"
    /\ status # "none"
    /\ human' = [human EXCEPT ![h] =
           IF status \in HumanResolvable THEN HumanAt("checked") ELSE HumanDone]
    /\ UNCHANGED <<alive, queueVars, engineVars, origin, status, lastReview, decisions, creator,
                   guardian, reviewer, stale, due, overrides, waiter>>

\* The transaction reads the status; the guardian's reviews and terminal statuses end it.
\* A call that was checked decides "approve always", any other one either way, once.
HumanReads(h, d) ==
    /\ \/ human[h].pc = "checked" /\ d = "approved"
       \/ human[h].pc = "idle" /\ status # "none"
    /\ human' = [human EXCEPT ![h] =
           IF status \in HumanResolvable
           THEN [pc |-> "writing", decision |-> d, always |-> (@.pc = "checked"), seen |-> status]
           ELSE HumanDone]
    /\ UNCHANGED <<alive, queueVars, engineVars, origin, status, lastReview, decisions, creator,
                   guardian, reviewer, stale, due, overrides, waiter>>

HumanWrites(h) ==
    LET won == Transitions(human[h].seen, HumanResolvable) IN
    /\ human[h].pc = "writing"
    /\ IF won THEN Resolve(human[h].decision) ELSE NoTransition
    /\ human' = [human EXCEPT ![h] =
           IF won /\ @.always THEN HumanAt("overriding") ELSE HumanDone]
    /\ UNCHANGED <<alive, engineVars, origin, creator, guardian, reviewer, stale, due, overrides,
                   waiter>>

\* The policy overrides of "approve always", after the commit
HumanOverrides(h) ==
    /\ human[h].pc = "overriding"
    /\ overrides' = overrides \cup {h}
    /\ human' = [human EXCEPT ![h] = HumanDone]
    /\ UNCHANGED <<alive, queueVars, engineVars, origin, status, lastReview, decisions, creator,
                   guardian, reviewer, stale, due, waiter>>

\* The process that serves the call dies between the commit and the overrides.
HumanCallLost(h) ==
    /\ Faults
    /\ human[h].pc = "overriding"
    /\ human' = [human EXCEPT ![h] = HumanDone]
    /\ UNCHANGED <<alive, queueVars, engineVars, origin, status, lastReview, decisions, creator,
                   guardian, reviewer, stale, due, overrides, waiter>>

-----------------------------------------------------------------------------
(* Expiry, and the agent that waits.                                       *)

\* Tool approvals carry expires_at
BecomesDue ==
    /\ origin \in {"tool", "awaited"}
    /\ ~due
    /\ due' = TRUE
    /\ UNCHANGED <<alive, queueVars, engineVars, origin, status, lastReview, decisions, creator,
                   guardian, reviewer, stale, human, overrides, waiter>>

\* expireStaleApprovals: one UPDATE for every status that is not terminal
ExpireStale ==
    /\ due
    /\ status \in Blocked
    /\ ExpireNow
    /\ UNCHANGED <<alive, engineVars, origin, creator, guardian, reviewer, stale, due, human,
                   overrides, waiter>>

\* awaitApprovalForToolExecution: the loop polls until its deadline, which is expires_at.
\* An iteration that began before the deadline may read the row after it.
WaiterPolls ==
    /\ waiter.pc = "polling"
    /\ status \in TerminalStatus
    /\ waiter' = [waiter EXCEPT !.pc = status]
    /\ UNCHANGED <<alive, queueVars, engineVars, origin, status, lastReview, decisions, creator,
                   guardian, reviewer, stale, due, human, overrides>>

\* After the deadline it expires the approval itself (expireById).  Whatever the outcome
\* of that, it reports the approval as expired.
WaiterTimesOut ==
    /\ waiter.pc = "polling"
    /\ due
    /\ waiter' = IF status \in Blocked THEN [pc |-> "expiring", seen |-> status]
                                       ELSE [pc |-> "expired", seen |-> "none"]
    /\ UNCHANGED <<alive, queueVars, engineVars, origin, status, lastReview, decisions, creator,
                   guardian, reviewer, stale, due, human, overrides>>

WaiterExpires ==
    /\ waiter.pc = "expiring"
    /\ IF Transitions(waiter.seen, Blocked) THEN ExpireNow ELSE NoTransition
    /\ waiter' = [pc |-> "expired", seen |-> "none"]
    /\ UNCHANGED <<alive, engineVars, origin, creator, guardian, reviewer, stale, due, human,
                   overrides>>

-----------------------------------------------------------------------------

\* A gateway process dies with its loops; one always remains.
Crash(g) ==
    /\ Faults
    /\ g \in alive
    /\ alive # {g}
    /\ alive' = alive \ {g}
    /\ LoseGuardian(g)
    /\ engine' = [engine EXCEPT ![g] = EngineIdle]
    /\ UNCHANGED <<queueVars, applied, origin, status, lastReview, decisions, creator, stale, due,
                   human, overrides, waiter>>

GuardianStep(g) ==
    \/ GuardianPick(g)
    \/ GuardianClaim(g)
    \/ GuardianApproves(g)
    \/ GuardianEscalates(g)
    \/ GuardianFails(g)
    \/ RecoverStale(g)

QueueStep(g) == EngineStep(g) /\ UNCHANGED reviewVars

Environment ==
    \/ \E c \in Creators : InitReview(c) \/ \E mode \in Modes : Create(c, mode)
    \/ \E g \in Gateways : GuardianTickLost(g) \/ Crash(g)
    \/ \E g \in Gateways : EngineTickLost(g) /\ UNCHANGED reviewVars
    \/ \E h \in Humans :
          \/ HumanAlways(h)
          \/ \E d \in Decided : HumanReads(h, d)
          \/ HumanWrites(h) \/ HumanOverrides(h) \/ HumanCallLost(h)
    \/ BecomesDue
    \/ ExpireStale
    \/ WaiterPolls \/ WaiterTimesOut \/ WaiterExpires

Next ==
    \/ \E g \in Gateways : GuardianStep(g) \/ QueueStep(g)
    \/ ReviewGetsStale
    \/ ActionLeaseLapses /\ UNCHANGED reviewVars
    \/ Environment

Spec == Init /\ [][Next]_vars

\* The loops of a live process keep ticking, executions and reviews end, time passes.
Fairness ==
    /\ \A g \in Gateways : WF_vars(GuardianStep(g)) /\ WF_vars(QueueStep(g))
    /\ WF_vars(ReviewGetsStale)
    /\ WF_vars(ActionLeaseLapses /\ UNCHANGED reviewVars)

FairSpec == Spec /\ Fairness

-----------------------------------------------------------------------------
(* Properties.                                                             *)

\* The approval implements what it promises to the blocked work: one decision that stands,
\* and only then, in the way it calls for, a resumption or a cancellation.
Promise == INSTANCE ApprovalPromise WITH
    outcome <- IF status \in Blocked THEN "pending" ELSE status,
    effect <- IF applied > 0 THEN actionKind ELSE "none"

KeepsPromise == Promise!Spec

\* The audit trail agrees with the row: the latest review explains the status, and exactly
\* one terminal review is recorded however many deciders raced.
ReviewMatchesStatus ==
    /\ lastReview = "queued" => status = "queued"
    /\ lastReview = "running" <=> status = "reviewing"
    /\ lastReview \in {"requested_human", "failed"} => status = "awaiting_human"
    /\ lastReview \in TerminalStatus \/ status \in TerminalStatus => lastReview = status
    /\ decisions = IF status \in TerminalStatus THEN 1 ELSE 0

\* The engine action of a decided approval exists, and is the one its decision calls for: a
\* denied tool call is resumed to be told, other denied work is cancelled.  No action exists
\* before the decision or after an expiry.
ActionIffDecided ==
    /\ actionStatus # "none" <=> (status \in Decided /\ origin # "awaited")
    /\ actionKind = "resume" => status = "approved" \/ origin = "tool"
    /\ actionKind = "cancel" => status = "denied" /\ origin = "paused"

\* "Approve always" leaves its policy overrides behind only if the approval is, and stays,
\* approved: a call that lost the race for the decision creates none.
OverrideIsApproved == overrides # {} => status = "approved"

\* Only one guardian loop at a time reviews the approval.
OneReviewer ==
    status = "reviewing" => \A g, k \in Gateways :
        guardian[g] = "reviewing" /\ guardian[k] = "reviewing" => g = k

\* A claimed review ends in a decision or with a person, also when its process dies.
ReviewEnds == status = "reviewing" ~> status # "reviewing"

\* Does not hold (README, section 4): the agent that waits for an approval reports the outcome the approval has.
WaiterReportsOutcome ==
    waiter.pc \in TerminalStatus => waiter.pc = status
=============================================================================
