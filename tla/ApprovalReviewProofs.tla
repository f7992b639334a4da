------------------------ MODULE ApprovalReviewProofs ------------------------
(***************************************************************************)
(* Proofs about ApprovalReview, for every number of gateway processes,     *)
(* people and creating calls and every attempt limit: the review trail and *)
(* the engine action agree with the approval, the approval keeps its       *)
(* promise to the work it blocks, and of those who race for it one loop    *)
(* reviews and only an approval leaves overrides behind.                   *)
(***************************************************************************)
EXTENDS ApprovalReview, TLAPS

\* What links the parts: an action row exists before a processor holds or executes it, a
\* row without a kind is no row, and calls in flight carry what they will write.
LinkInv ==
    /\ \A g \in Gateways : engine[g].pc # "idle" => actionStatus # "none"
    /\ applied > 0 => actionStatus # "none"
    /\ actionStatus = "none" <=> actionKind = "none"
    /\ origin = "none" <=> status = "none"
    /\ \A c \in Creators : creator[c].pc = "created" => creator[c].mode \in Modes /\ status # "none"
    /\ \A h \in Humans : human[h].pc = "writing" => human[h].decision \in Decided

ReviewInv == TypeOK /\ ReviewMatchesStatus /\ ActionIffDecided /\ LinkInv

-----------------------------------------------------------------------------
(* What the transitions do to the approval, its review trail and its       *)
(* engine action, whoever makes them.                                      *)

CoreTypeOK ==
    /\ actionStatus \in ActionStatus
    /\ actionKind \in ActionKind
    /\ attempts \in 0..MaxEngineAttempts
    /\ actionOwner \in Gateways \cup {NoGateway}
    /\ actionLapsed \in BOOLEAN
    /\ origin \in {"none"} \cup Origins
    /\ status \in {"none"} \cup Blocked \cup TerminalStatus
    /\ lastReview \in ReviewState
    /\ decisions \in Nat

CoreLinks ==
    /\ actionStatus = "none" <=> actionKind = "none"
    /\ origin = "none" <=> status = "none"

Core == CoreTypeOK /\ ReviewMatchesStatus /\ ActionIffDecided /\ CoreLinks

\* A decision of an open approval keeps the core consistent.
LEMMA ResolveCore ==
    ASSUME NEW d \in Decided, Core, status \in Blocked, Resolve(d), UNCHANGED origin
    PROVE  Core' /\ status' = d
<1>1. CoreTypeOK'
  BY DEF Core, CoreTypeOK, Resolve, Enqueue, ActionFor, ActionStatus, ActionKind, queueVars,
         Decided, Blocked, TerminalStatus, ReviewState
<1>2. ReviewMatchesStatus'
  BY DEF Core, CoreTypeOK, Resolve, ReviewMatchesStatus, Decided, Blocked, TerminalStatus
<1>3. ActionIffDecided' /\ CoreLinks'
  BY ReviewAssumption
     DEF Core, CoreTypeOK, ActionIffDecided, CoreLinks, Resolve, Enqueue, ActionFor,
         ActionStatus, ActionKind, queueVars, Decided, Blocked, TerminalStatus
<1>4. QED BY <1>1, <1>2, <1>3 DEF Core, Resolve

\* An expiry of an open approval keeps the core consistent.
LEMMA ExpireCore ==
    ASSUME Core, status \in Blocked, ExpireNow, UNCHANGED origin
    PROVE  Core' /\ status' = "expired"
BY DEF Core, CoreTypeOK, ReviewMatchesStatus, ActionIffDecided, CoreLinks, ExpireNow, queueVars,
       Decided, Blocked, TerminalStatus, ReviewState

\* The moves between open statuses that the code makes, each with its review.
OpenMove ==
    \/ Move("queued", "queued")
    \/ Move("awaiting_human", "requested_human")
    \/ Move("awaiting_human", "failed")
    \/ Move("reviewing", "running")

\* The moves between open statuses keep the core consistent.
LEMMA MoveCore ==
    ASSUME Core, status \in Blocked, UNCHANGED origin, OpenMove
    PROVE  Core' /\ status' \in Blocked
BY DEF OpenMove, Core, CoreTypeOK, ReviewMatchesStatus, ActionIffDecided, CoreLinks, Move, queueVars,
       Decided, Blocked, TerminalStatus, ReviewState

\* A step that leaves all of it alone keeps the core consistent.
LEMMA SameCore ==
    ASSUME Core, UNCHANGED <<status, lastReview, decisions, queueVars, origin>>
    PROVE  Core'
BY DEF Core, CoreTypeOK, ReviewMatchesStatus, ActionIffDecided, CoreLinks, queueVars

\* A transition of the approval from one of its allowed, open statuses, or none.
LEMMA TransitionFromOpen ==
    ASSUME NEW seen, NEW allowed \in SUBSET Blocked, Transitions(seen, allowed)
    PROVE  status \in Blocked
BY DEF Transitions

-----------------------------------------------------------------------------
(* The rest of the state, which the core does not constrain.               *)

SideTypeOK ==
    /\ alive \subseteq Gateways
    /\ engine \in [Gateways -> EngineState]
    /\ applied \in Nat
    /\ creator \in [Creators -> CreatorState]
    /\ guardian \in [Gateways -> {"idle", "picked", "reviewing"}]
    /\ reviewer \in [Gateways -> {"none", "running", "orphaned"}]
    /\ stale \in BOOLEAN
    /\ due \in BOOLEAN
    /\ human \in [Humans -> HumanState]
    /\ overrides \subseteq Humans
    /\ waiter \in WaiterState

EngineLinks ==
    /\ \A g \in Gateways : engine[g].pc # "idle" => actionStatus # "none"
    /\ applied > 0 => actionStatus # "none"

CallLinks ==
    /\ \A c \in Creators : creator[c].pc = "created" => creator[c].mode \in Modes /\ status # "none"
    /\ \A h \in Humans : human[h].pc = "writing" => human[h].decision \in Decided

LEMMA ReviewInvParts == ReviewInv <=> Core /\ SideTypeOK /\ EngineLinks /\ CallLinks
BY DEF ReviewInv, TypeOK, QueueTypeOK, LinkInv, Core, CoreTypeOK, CoreLinks, SideTypeOK,
       EngineLinks, CallLinks

-----------------------------------------------------------------------------
(* Steps as the blocked work sees them.                                    *)

outcomeBar == IF status \in Blocked THEN "pending" ELSE status
effectBar == IF applied > 0 THEN actionKind ELSE "none"

PromiseStep == Promise!Next \/ UNCHANGED <<outcomeBar, effectBar>>

\* What a step of the review may do to the core: nothing, or one transition of an open
\* approval.
CoreStep ==
    /\ UNCHANGED <<origin, engine, applied>>
    /\ \/ NoTransition
       \/ /\ status \in Blocked
          /\ \/ \E d \in Decided : Resolve(d)
             \/ ExpireNow
             \/ OpenMove

\* Every such step keeps the approval, its review trail and its action consistent, and is
\* a decision or nothing to the blocked work.
LEMMA CoreStepKeeps ==
    ASSUME ReviewInv, CoreStep
    PROVE  Core' /\ EngineLinks' /\ (status # "none" => status' # "none") /\ PromiseStep
<1>0. Core /\ SideTypeOK /\ EngineLinks BY ReviewInvParts
<1>1. CASE NoTransition
  <2>1. Core' BY <1>0, <1>1, SameCore DEF CoreStep, NoTransition
  <2>2. QED BY <1>0, <1>1, <2>1
               DEF CoreStep, NoTransition, EngineLinks, PromiseStep, outcomeBar, effectBar, queueVars
<1>2. ASSUME status \in Blocked PROVE actionStatus = "none" /\ actionKind = "none" /\ applied = 0
  BY <1>0, <1>2 DEF Core, CoreLinks, ActionIffDecided, EngineLinks, SideTypeOK, Blocked, Decided
<1>3. ASSUME status \in Blocked, Core', status' \in TerminalStatus PROVE Promise!Resolve
  BY <1>2, <1>3 DEF CoreStep, Promise!Resolve, Promise!Outcomes, Blocked, TerminalStatus
<1>4. ASSUME status \in Blocked PROVE EngineLinks'
  BY <1>0, <1>2, <1>4 DEF CoreStep, EngineLinks
<1>5. ASSUME status \in Blocked, NEW d \in Decided, Resolve(d) PROVE Core' /\ status' \in TerminalStatus
  BY <1>0, <1>5, ResolveCore DEF CoreStep, Decided, TerminalStatus
<1>6. ASSUME status \in Blocked, ExpireNow PROVE Core' /\ status' \in TerminalStatus
  BY <1>0, <1>6, ExpireCore DEF CoreStep, TerminalStatus
<1>7. ASSUME status \in Blocked, OpenMove
      PROVE  Core' /\ status' \in Blocked /\ UNCHANGED <<outcomeBar, effectBar>>
  <2>1. Core' /\ status' \in Blocked BY <1>0, <1>7, MoveCore DEF CoreStep
  <2>2. QED BY <1>2, <1>7, <2>1 DEF CoreStep, OpenMove, Move, queueVars, outcomeBar, effectBar
<1>8. QED BY <1>1, <1>3, <1>4, <1>5, <1>6, <1>7
             DEF CoreStep, PromiseStep, Promise!Next, Blocked, TerminalStatus

-----------------------------------------------------------------------------
(* The actions of the review: each is a step of the core, and the calls    *)
(* in flight stay well formed.                                             *)

ReviewStep == CoreStep /\ SideTypeOK' /\ CallLinks'

LEMMA CreatorSteps ==
    ASSUME ReviewInv, NEW c \in Creators, InitReview(c)
    PROVE  ReviewStep
<1>0. Core /\ SideTypeOK /\ CallLinks BY ReviewInvParts
<1> DEFINE mode == creator[c].mode
<1>1. mode \in Modes BY <1>0 DEF InitReview, CallLinks
<1>2. CoreStep
  <2>1. CASE Transitions(mode, {mode})
    <3>1. status = mode /\ status \in Blocked BY <1>1, <2>1 DEF Transitions, Modes, Blocked
    <3>2. CASE mode = "queued"
      <4>1. Move("queued", "queued") BY <2>1, <3>2 DEF InitReview
      <4>2. QED BY <3>1, <4>1 DEF CoreStep, OpenMove, InitReview, engineVars
    <3>3. CASE mode = "awaiting_human"
      <4>1. Move("awaiting_human", "requested_human") BY <2>1, <3>3 DEF InitReview
      <4>2. QED BY <3>1, <4>1 DEF CoreStep, OpenMove, InitReview, engineVars
    <3>4. QED BY <1>1, <3>2, <3>3 DEF Modes
  <2>2. CASE ~Transitions(mode, {mode})
    BY <2>2 DEF CoreStep, InitReview, engineVars
  <2>3. QED BY <2>1, <2>2
<1>3. SideTypeOK'
  BY <1>0 DEF SideTypeOK, InitReview, engineVars, CreatorState, CreatorDone
<1>4. status # "none" => status' # "none" BY <1>2, CoreStepKeeps
<1>5. CallLinks'
  BY <1>0, <1>4 DEF CallLinks, SideTypeOK, InitReview, CreatorDone, CreatorState
<1>6. QED BY <1>2, <1>3, <1>5 DEF ReviewStep

\* The guardian loop records an outcome only for an approval that is under review.
LEMMA GuardianRecordsStep ==
    ASSUME ReviewInv, NEW g \in Gateways, guardian[g] = "reviewing",
           \/ GuardianApproves(g) \/ GuardianEscalates(g) \/ GuardianFails(g)
    PROVE  ReviewStep
<1>0. Core /\ SideTypeOK /\ CallLinks BY ReviewInvParts
<1>1. Transitions("reviewing", {"reviewing"}) => status \in Blocked BY DEF Transitions, Blocked
<1>2. "approved" \in Decided BY DEF Decided
<1>3. UNCHANGED <<origin, engine, applied>>
  BY DEF GuardianApproves, GuardianEscalates, GuardianFails, GuardianRecords, engineVars
<1>4. CoreStep
  <2>1. CASE ~Transitions("reviewing", {"reviewing"})
    BY <1>3, <2>1 DEF CoreStep, GuardianApproves, GuardianEscalates, GuardianFails, GuardianRecords
  <2>2. CASE Transitions("reviewing", {"reviewing"})
    <3>1. \/ Resolve("approved")
          \/ Move("awaiting_human", "requested_human")
          \/ Move("awaiting_human", "failed")
      BY <2>2 DEF GuardianApproves, GuardianEscalates, GuardianFails, GuardianRecords
    <3>2. QED BY <1>1, <1>2, <1>3, <2>2, <3>1 DEF CoreStep, OpenMove
  <2>3. QED BY <2>1, <2>2
<1>5. SideTypeOK'
  BY <1>0 DEF SideTypeOK, GuardianApproves, GuardianEscalates, GuardianFails, GuardianRecords,
              engineVars
<1>6. status # "none" => status' # "none" BY <1>4, CoreStepKeeps
<1>7. CallLinks'
  BY <1>0, <1>6 DEF CallLinks, GuardianApproves, GuardianEscalates, GuardianFails, GuardianRecords
<1>8. QED BY <1>4, <1>5, <1>7 DEF ReviewStep

LEMMA GuardianSteps ==
    ASSUME ReviewInv, NEW g \in Gateways, GuardianStep(g)
    PROVE  ReviewStep
<1>0. Core /\ SideTypeOK /\ CallLinks BY ReviewInvParts
<1>1. CASE GuardianPick(g)
  <2>1. CoreStep BY <1>1 DEF GuardianPick, CoreStep, NoTransition, engineVars
  <2>2. SideTypeOK' BY <1>0, <1>1 DEF GuardianPick, SideTypeOK, engineVars
  <2>3. CallLinks' BY <1>0, <1>1 DEF GuardianPick, CallLinks
  <2>4. QED BY <2>1, <2>2, <2>3 DEF ReviewStep
<1>2. CASE GuardianClaim(g)
  <2>1. CoreStep
    <3>1. CASE Transitions("queued", {"queued"})
      <4>1. status \in Blocked BY <3>1 DEF Transitions, Blocked
      <4>2. Move("reviewing", "running") BY <1>2, <3>1 DEF GuardianClaim
      <4>3. QED BY <1>2, <4>1, <4>2 DEF CoreStep, OpenMove, GuardianClaim, engineVars
    <3>2. CASE ~Transitions("queued", {"queued"})
      BY <1>2, <3>2 DEF CoreStep, GuardianClaim, engineVars
    <3>3. QED BY <3>1, <3>2
  <2>2. SideTypeOK' BY <1>0, <1>2 DEF GuardianClaim, SideTypeOK, engineVars
  <2>3. status # "none" => status' # "none" BY <2>1, CoreStepKeeps
  <2>4. CallLinks' BY <1>0, <1>2, <2>3 DEF GuardianClaim, CallLinks
  <2>5. QED BY <2>1, <2>2, <2>4 DEF ReviewStep
<1>3. CASE RecoverStale(g)
  <2>1. CoreStep
    <3>1. status \in Blocked /\ Move("awaiting_human", "failed")
      BY <1>3 DEF RecoverStale, Transitions, Blocked
    <3>2. QED BY <1>3, <3>1 DEF CoreStep, OpenMove, RecoverStale, engineVars
  <2>2. SideTypeOK' BY <1>0, <1>3 DEF RecoverStale, SideTypeOK, engineVars
  <2>3. status # "none" => status' # "none" BY <2>1, CoreStepKeeps
  <2>4. CallLinks' BY <1>0, <1>3, <2>3 DEF RecoverStale, CallLinks
  <2>5. QED BY <2>1, <2>2, <2>4 DEF ReviewStep
<1>4. CASE GuardianApproves(g) \/ GuardianEscalates(g) \/ GuardianFails(g)
  <2>1. guardian[g] = "reviewing"
    BY <1>4 DEF GuardianApproves, GuardianEscalates, GuardianFails, GuardianRecords
  <2>2. QED BY <1>4, <2>1, GuardianRecordsStep
<1>5. QED BY <1>1, <1>2, <1>3, <1>4 DEF GuardianStep

LEMMA HumanSteps ==
    ASSUME ReviewInv, NEW h \in Humans,
           \/ HumanAlways(h)
           \/ \E d \in Decided : HumanReads(h, d)
           \/ HumanWrites(h) \/ HumanOverrides(h) \/ HumanCallLost(h)
    PROVE  ReviewStep
<1>0. Core /\ SideTypeOK /\ CallLinks BY ReviewInvParts
<1>1. HumanDone \in HumanState /\ HumanDone.pc # "writing"
  BY DEF HumanDone, HumanAt, HumanState
<1>2. \A pc \in {"checked", "overriding"} :
         HumanAt(pc) \in HumanState /\ HumanAt(pc).pc # "writing"
  BY DEF HumanAt, HumanState
<1>3. CASE HumanAlways(h)
  <2>1. CoreStep BY <1>3 DEF HumanAlways, CoreStep, NoTransition, engineVars
  <2>2. PICK r \in HumanState : r.pc # "writing" /\ human' = [human EXCEPT ![h] = r]
    BY <1>1, <1>2, <1>3 DEF HumanAlways
  <2>3. SideTypeOK' BY <1>0, <1>3, <2>2 DEF HumanAlways, SideTypeOK, engineVars
  <2>4. CallLinks' BY <1>0, <1>3, <2>2 DEF HumanAlways, CallLinks, SideTypeOK
  <2>5. QED BY <2>1, <2>3, <2>4 DEF ReviewStep
<1>4. ASSUME NEW d \in Decided, HumanReads(h, d) PROVE ReviewStep
  <2>1. CoreStep BY <1>4 DEF HumanReads, CoreStep, NoTransition, engineVars
  <2>2. PICK r \in HumanState : /\ r.pc = "writing" => r.decision \in Decided
                                /\ human' = [human EXCEPT ![h] = r]
    <3>1. CASE status \in HumanResolvable
      <4> DEFINE w == [pc |-> "writing", decision |-> d, always |-> (human[h].pc = "checked"),
                       seen |-> status]
      <4>1. w \in HumanState BY <3>1 DEF HumanState, HumanResolvable, Blocked, Decided
      <4>2. human' = [human EXCEPT ![h] = w] BY <1>0, <1>4, <3>1 DEF HumanReads, SideTypeOK
      <4>3. QED BY <4>1, <4>2
    <3>2. CASE status \notin HumanResolvable
      BY <1>1, <1>4, <3>2 DEF HumanReads
    <3>3. QED BY <3>1, <3>2
  <2>3. SideTypeOK' BY <1>0, <1>4, <2>2 DEF HumanReads, SideTypeOK, engineVars
  <2>4. CallLinks' BY <1>0, <1>4, <2>2 DEF HumanReads, CallLinks, SideTypeOK
  <2>5. QED BY <2>1, <2>3, <2>4 DEF ReviewStep
<1>5. CASE HumanWrites(h)
  <2>1. CoreStep
    <3>1. human[h].decision \in Decided BY <1>0, <1>5 DEF HumanWrites, CallLinks
    <3>2. CASE Transitions(human[h].seen, HumanResolvable)
      <4>1. status \in Blocked BY <3>2 DEF Transitions, HumanResolvable, Blocked
      <4>2. Resolve(human[h].decision) BY <1>5, <3>2 DEF HumanWrites
      <4>3. QED BY <1>5, <3>1, <4>1, <4>2 DEF CoreStep, HumanWrites, engineVars
    <3>3. CASE ~Transitions(human[h].seen, HumanResolvable)
      BY <1>5, <3>3 DEF CoreStep, HumanWrites, engineVars
    <3>4. QED BY <3>2, <3>3
  <2>2. PICK r \in HumanState : r.pc # "writing" /\ human' = [human EXCEPT ![h] = r]
    BY <1>1, <1>2, <1>5 DEF HumanWrites
  <2>3. SideTypeOK' BY <1>0, <1>5, <2>2 DEF HumanWrites, SideTypeOK, engineVars
  <2>4. status # "none" => status' # "none" BY <2>1, CoreStepKeeps
  <2>5. CallLinks' BY <1>0, <1>5, <2>2, <2>4 DEF HumanWrites, CallLinks, SideTypeOK
  <2>6. QED BY <2>1, <2>3, <2>5 DEF ReviewStep
<1>6. CASE HumanOverrides(h) \/ HumanCallLost(h)
  <2>1. CoreStep BY <1>6 DEF HumanOverrides, HumanCallLost, CoreStep, NoTransition, engineVars
  <2>2. SideTypeOK' BY <1>0, <1>1, <1>6 DEF HumanOverrides, HumanCallLost, SideTypeOK, engineVars
  <2>3. CallLinks' BY <1>0, <1>1, <1>6 DEF HumanOverrides, HumanCallLost, CallLinks, SideTypeOK
  <2>4. QED BY <2>1, <2>2, <2>3 DEF ReviewStep
<1>7. QED BY <1>3, <1>4, <1>5, <1>6

LEMMA TimeAndWaiterSteps ==
    ASSUME ReviewInv,
           \/ ReviewGetsStale \/ BecomesDue \/ ExpireStale
           \/ WaiterPolls \/ WaiterTimesOut \/ WaiterExpires
           \/ \E g \in Gateways : GuardianTickLost(g)
    PROVE  ReviewStep
<1>0. Core /\ SideTypeOK /\ CallLinks BY ReviewInvParts
<1>1. CASE ReviewGetsStale \/ BecomesDue
  <2>1. CoreStep BY <1>1 DEF ReviewGetsStale, BecomesDue, CoreStep, NoTransition, engineVars
  <2>2. SideTypeOK' BY <1>0, <1>1 DEF ReviewGetsStale, BecomesDue, SideTypeOK, engineVars
  <2>3. CallLinks' BY <1>0, <1>1 DEF ReviewGetsStale, BecomesDue, CallLinks
  <2>4. QED BY <2>1, <2>2, <2>3 DEF ReviewStep
<1>2. CASE ExpireStale
  <2>1. CoreStep BY <1>2 DEF ExpireStale, CoreStep, engineVars
  <2>2. SideTypeOK' BY <1>0, <1>2 DEF ExpireStale, SideTypeOK, engineVars
  <2>3. status # "none" => status' # "none" BY <2>1, CoreStepKeeps
  <2>4. CallLinks' BY <1>0, <1>2, <2>3 DEF ExpireStale, CallLinks
  <2>5. QED BY <2>1, <2>2, <2>4 DEF ReviewStep
<1>3. CASE WaiterPolls \/ WaiterTimesOut
  <2>1. CoreStep BY <1>3 DEF WaiterPolls, WaiterTimesOut, CoreStep, NoTransition, engineVars
  <2>2. waiter' \in WaiterState
    BY <1>0, <1>3 DEF WaiterPolls, WaiterTimesOut, SideTypeOK, WaiterState, TerminalStatus, Blocked
  <2>3. SideTypeOK' BY <1>0, <1>3, <2>2 DEF WaiterPolls, WaiterTimesOut, SideTypeOK, engineVars
  <2>4. CallLinks' BY <1>0, <1>3 DEF WaiterPolls, WaiterTimesOut, CallLinks
  <2>5. QED BY <2>1, <2>3, <2>4 DEF ReviewStep
<1>4. CASE WaiterExpires
  <2>1. CoreStep
    <3>1. CASE Transitions(waiter.seen, Blocked)
      <4>1. status \in Blocked /\ ExpireNow BY <1>4, <3>1 DEF WaiterExpires, Transitions
      <4>2. QED BY <1>4, <4>1 DEF CoreStep, WaiterExpires, engineVars
    <3>2. CASE ~Transitions(waiter.seen, Blocked)
      BY <1>4, <3>2 DEF CoreStep, WaiterExpires, engineVars
    <3>3. QED BY <3>1, <3>2
  <2>2. SideTypeOK' BY <1>0, <1>4 DEF WaiterExpires, SideTypeOK, engineVars, WaiterState
  <2>3. status # "none" => status' # "none" BY <2>1, CoreStepKeeps
  <2>4. CallLinks' BY <1>0, <1>4, <2>3 DEF WaiterExpires, CallLinks
  <2>5. QED BY <2>1, <2>2, <2>4 DEF ReviewStep
<1>5. ASSUME NEW g \in Gateways, GuardianTickLost(g) PROVE ReviewStep
  <2>1. CoreStep BY <1>5 DEF GuardianTickLost, CoreStep, NoTransition, engineVars
  <2>2. SideTypeOK' BY <1>0, <1>5 DEF GuardianTickLost, LoseGuardian, SideTypeOK, engineVars
  <2>3. CallLinks' BY <1>0, <1>5 DEF GuardianTickLost, CallLinks
  <2>4. QED BY <2>1, <2>2, <2>3 DEF ReviewStep
<1>6. QED BY <1>1, <1>2, <1>3, <1>4, <1>5

\* A step of the review keeps the invariant and the promise.
LEMMA ReviewStepKeeps ==
    ASSUME ReviewInv, ReviewStep
    PROVE  ReviewInv' /\ PromiseStep
<1>1. Core' /\ EngineLinks' /\ PromiseStep BY CoreStepKeeps DEF ReviewStep
<1>2. QED BY <1>1, ReviewInvParts DEF ReviewStep, ReviewInv, TypeOK, QueueTypeOK, LinkInv, Core,
             CoreTypeOK, CoreLinks, SideTypeOK, EngineLinks, CallLinks

-----------------------------------------------------------------------------
(* The other actions: creation, the processors of the action, and a crash. *)

LEMMA CreateKeeps ==
    ASSUME ReviewInv, NEW c \in Creators, NEW mode \in Modes, Create(c, mode)
    PROVE  ReviewInv' /\ PromiseStep
<1>0. Core /\ SideTypeOK /\ EngineLinks /\ CallLinks BY ReviewInvParts
<1>1. Core'
  <2>1. CASE status # "none" BY <1>0, <2>1, SameCore DEF Create
  <2>2. CASE status = "none"
    <3>1. lastReview = "none"
      BY <1>0, <2>2 DEF Core, CoreTypeOK, ReviewMatchesStatus, ReviewState, TerminalStatus
    <3>2. UNCHANGED <<lastReview, decisions, actionStatus, actionKind, attempts, actionOwner,
                      actionLapsed>> /\ status' = mode /\ origin' \in Origins
      BY <2>2 DEF Create, queueVars
    <3>3. QED BY <1>0, <2>2, <3>1, <3>2, ReviewAssumption
                 DEF Core, CoreTypeOK, ReviewMatchesStatus, ActionIffDecided, CoreLinks, Modes,
                     Blocked, Decided, TerminalStatus
  <2>3. QED BY <2>1, <2>2
<1>2. status' # "none" BY DEF Create, Modes
<1>3. SideTypeOK'
  <2>1. waiter' \in WaiterState BY <1>0 DEF Create, SideTypeOK, WaiterState
  <2>2. creator' \in [Creators -> CreatorState]
    BY <1>0 DEF Create, SideTypeOK, CreatorState, CreatorDone
  <2>3. QED BY <1>0, <2>1, <2>2 DEF Create, SideTypeOK, engineVars
<1>4. EngineLinks' BY <1>0 DEF Create, EngineLinks, engineVars, queueVars
<1>5. CallLinks' BY <1>0, <1>2 DEF Create, CallLinks, SideTypeOK, CreatorDone
<1>6. PromiseStep
  <2>1. CASE status = "none"
    BY <2>1 DEF Create, engineVars, queueVars, PromiseStep, Promise!Next, Promise!Request,
                outcomeBar, effectBar, Modes, Blocked
  <2>2. CASE status # "none"
    BY <2>2 DEF Create, engineVars, queueVars, PromiseStep, outcomeBar, effectBar
  <2>3. QED BY <2>1, <2>2
<1>7. QED BY <1>1, <1>3, <1>4, <1>5, <1>6
             DEF ReviewInv, TypeOK, QueueTypeOK, LinkInv, Core, CoreTypeOK, CoreLinks, SideTypeOK,
                 EngineLinks, CallLinks

LEMMA QueueKeeps ==
    ASSUME ReviewInv, UNCHANGED reviewVars, NEW g,
           (g \in Gateways /\ (EngineStep(g) \/ EngineTickLost(g))) \/ ActionLeaseLapses
    PROVE  ReviewInv' /\ PromiseStep
<1>0. Core /\ SideTypeOK /\ EngineLinks /\ CallLinks BY ReviewInvParts
<1> USE DEF EngineState, EngineIdle, ActionStatus, ActionKind
<1>1. /\ CallLinks'
      /\ UNCHANGED <<origin, status, lastReview, decisions>>
  BY <1>0 DEF CallLinks, reviewVars
\* What the step does to the row: it stays, and stays of its kind.
<1> DEFINE RowKept ==
        /\ actionStatus' = "none" <=> actionStatus = "none"
        /\ UNCHANGED actionKind
        /\ actionStatus' \in ActionStatus /\ attempts' \in 0..MaxEngineAttempts
        /\ actionOwner' \in Gateways \cup {NoGateway} /\ actionLapsed' \in BOOLEAN
<1>2. RowKept
  <2>0. CoreTypeOK BY <1>0 DEF Core
  <2>1. CASE g \in Gateways /\ ClaimAction(g)
    <3>1. attempts + 1 \in 0..MaxEngineAttempts
      BY <2>0, <2>1, QueueAssumption DEF ClaimAction, ActionClaimable, CoreTypeOK
    <3>2. QED BY <2>0, <2>1, <3>1 DEF ClaimAction, ActionClaimable, CoreTypeOK
  <2>2. ASSUME NEW st \in {"succeeded", "queued", "failed"}, Settle(g, st)
        PROVE  RowKept
    BY <2>0, <2>2 DEF Settle, MaySettle, CoreTypeOK
  <2>3. CASE MarkSucceeded(g) \/ RequeueWithError(g) \/ MarkFailed(g)
    BY <2>2, <2>3 DEF MarkSucceeded, RequeueWithError, MarkFailed
  <2>4. CASE ExecuteAction(g) \/ ExecuteThrows(g) \/ EngineTickLost(g)
    BY <2>0, <2>4 DEF ExecuteAction, ExecuteThrows, EngineTickLost, queueVars, CoreTypeOK
  <2>5. CASE ActionLeaseLapses
    BY <2>0, <2>5 DEF ActionLeaseLapses, CoreTypeOK
  <2>6. QED BY <2>1, <2>3, <2>4, <2>5 DEF EngineStep
<1>3. Core'
  BY <1>0, <1>1, <1>2
     DEF Core, CoreTypeOK, ReviewMatchesStatus, ActionIffDecided, CoreLinks
<1>4. engine' \in [Gateways -> EngineState] /\ alive' = alive
  BY <1>0
     DEF EngineStep, ClaimAction, ExecuteAction, ExecuteThrows, MarkSucceeded, RequeueWithError,
         MarkFailed, Settle, EngineTickLost, ActionLeaseLapses, engineVars, SideTypeOK, Core,
         CoreTypeOK
<1>5. applied' = applied \/ (applied' = applied + 1 /\ actionStatus # "none")
  BY <1>0
     DEF EngineStep, ClaimAction, ExecuteAction, ExecuteThrows, MarkSucceeded, RequeueWithError,
         MarkFailed, Settle, EngineTickLost, ActionLeaseLapses, engineVars, EngineLinks
<1>6. SideTypeOK' BY <1>0, <1>4, <1>5 DEF SideTypeOK, reviewVars
<1>7. EngineLinks'
  <2>1. \A k \in Gateways : engine'[k].pc # "idle" => engine[k].pc # "idle" \/ actionStatus # "none"
    BY <1>0
       DEF EngineStep, ClaimAction, ActionClaimable, ExecuteAction, ExecuteThrows, MarkSucceeded,
           RequeueWithError, MarkFailed, Settle, EngineTickLost, ActionLeaseLapses, engineVars,
           SideTypeOK
  <2>2. QED BY <1>0, <1>2, <1>5, <2>1 DEF EngineLinks
<1>8. PromiseStep
  <2>1. CASE applied' = applied
    BY <1>1, <1>2, <2>1 DEF PromiseStep, outcomeBar, effectBar
  <2>2. CASE applied' = applied + 1 /\ actionStatus # "none"
    <3>1. status \in Decided /\ actionKind \in {"resume", "cancel"}
      BY <1>0, <2>2 DEF Core, CoreTypeOK, CoreLinks, ActionIffDecided
    <3>2. actionKind = "cancel" => status = "denied" BY <1>0 DEF Core, ActionIffDecided
    <3>3. applied \in Nat BY <1>0 DEF SideTypeOK
    <3>4. CASE applied = 0
      BY <1>1, <1>2, <2>2, <3>1, <3>2, <3>3, <3>4
         DEF PromiseStep, Promise!Next, Promise!Apply, outcomeBar, effectBar, Decided, Blocked
    <3>5. CASE applied # 0
      BY <1>1, <1>2, <2>2, <3>3, <3>5 DEF PromiseStep, outcomeBar, effectBar
    <3>6. QED BY <3>4, <3>5
  <2>3. QED BY <1>5, <2>1, <2>2
<1>9. QED BY <1>1, <1>3, <1>6, <1>7, <1>8
             DEF ReviewInv, TypeOK, QueueTypeOK, LinkInv, Core, CoreTypeOK, CoreLinks, SideTypeOK,
                 EngineLinks, CallLinks

LEMMA CrashKeeps ==
    ASSUME ReviewInv, NEW g \in Gateways, Crash(g)
    PROVE  ReviewInv' /\ PromiseStep
<1>0. Core /\ SideTypeOK /\ EngineLinks /\ CallLinks BY ReviewInvParts
<1>1. Core' BY <1>0, SameCore DEF Crash
<1>2. SideTypeOK' BY <1>0 DEF Crash, LoseGuardian, SideTypeOK, EngineState, EngineIdle
<1>3. EngineLinks' BY <1>0 DEF Crash, EngineLinks, SideTypeOK, EngineIdle, queueVars
<1>4. CallLinks' BY <1>0 DEF Crash, CallLinks
<1>5. PromiseStep BY DEF Crash, PromiseStep, outcomeBar, effectBar, queueVars
<1>6. QED BY <1>1, <1>2, <1>3, <1>4, <1>5
             DEF ReviewInv, TypeOK, QueueTypeOK, LinkInv, Core, CoreTypeOK, CoreLinks, SideTypeOK,
                 EngineLinks, CallLinks

-----------------------------------------------------------------------------

LEMMA InitReviewInv == Init => ReviewInv /\ Promise!Init
<1> SUFFICES ASSUME Init PROVE ReviewInv /\ Promise!Init
  OBVIOUS
<1>1. Core
  <2>1. 0 \in 0..MaxEngineAttempts BY QueueAssumption
  <2>2. CoreTypeOK
    BY <2>1 DEF Init, QueueInit, CoreTypeOK, ActionStatus, ActionKind, ReviewState
  <2>3. ReviewMatchesStatus /\ ActionIffDecided /\ CoreLinks
    BY DEF Init, QueueInit, CoreLinks, ReviewMatchesStatus, ActionIffDecided, TerminalStatus,
           Decided
  <2>4. QED BY <2>2, <2>3 DEF Core
<1>2. SideTypeOK
  <2>1. engine \in [Gateways -> EngineState] BY DEF Init, QueueInit, EngineState, EngineIdle
  <2>2. creator \in [Creators -> CreatorState] BY DEF Init, CreatorState
  <2>3. human \in [Humans -> HumanState] BY DEF Init, HumanState, HumanAt
  <2>4. waiter \in WaiterState BY DEF Init, WaiterState
  <2>5. QED BY <2>1, <2>2, <2>3, <2>4 DEF Init, QueueInit, SideTypeOK
<1>3. EngineLinks BY DEF Init, QueueInit, EngineLinks, EngineIdle
<1>4. CallLinks BY DEF Init, CallLinks, HumanAt
<1>5. Promise!Init BY DEF Init, QueueInit, Promise!Init, Blocked
<1>6. QED BY <1>1, <1>2, <1>3, <1>4, <1>5, ReviewInvParts

LEMMA NextKeeps == ReviewInv /\ [Next]_vars => ReviewInv' /\ PromiseStep
<1> SUFFICES ASSUME ReviewInv, [Next]_vars PROVE ReviewInv' /\ PromiseStep
  OBVIOUS
<1>1. CASE UNCHANGED vars
  <2>1. Core /\ SideTypeOK /\ EngineLinks /\ CallLinks BY ReviewInvParts
  <2>2. CoreStep BY <1>1 DEF vars, CoreStep, NoTransition, queueVars
  <2>3. SideTypeOK' /\ CallLinks' BY <1>1, <2>1 DEF vars, SideTypeOK, CallLinks
  <2>4. QED BY <2>2, <2>3, ReviewStepKeeps DEF ReviewStep
<1>2. ASSUME NEW g \in Gateways, GuardianStep(g) \/ QueueStep(g) PROVE ReviewInv' /\ PromiseStep
  BY <1>2, GuardianSteps, ReviewStepKeeps, QueueKeeps DEF QueueStep
<1>3. CASE ReviewGetsStale BY <1>3, TimeAndWaiterSteps, ReviewStepKeeps
<1>4. CASE ActionLeaseLapses /\ UNCHANGED reviewVars
  BY <1>4, QueueKeeps
<1>5. CASE Environment
  <2>1. ASSUME NEW c \in Creators, InitReview(c) \/ \E mode \in Modes : Create(c, mode)
        PROVE  ReviewInv' /\ PromiseStep
    BY <2>1, CreatorSteps, ReviewStepKeeps, CreateKeeps
  <2>2. ASSUME NEW g \in Gateways, GuardianTickLost(g) \/ Crash(g) PROVE ReviewInv' /\ PromiseStep
    BY <2>2, TimeAndWaiterSteps, ReviewStepKeeps, CrashKeeps
  <2>3. ASSUME NEW g \in Gateways, EngineTickLost(g) /\ UNCHANGED reviewVars
        PROVE  ReviewInv' /\ PromiseStep
    BY <2>3, QueueKeeps
  <2>4. ASSUME NEW h \in Humans,
               \/ HumanAlways(h)
               \/ \E d \in Decided : HumanReads(h, d)
               \/ HumanWrites(h) \/ HumanOverrides(h) \/ HumanCallLost(h)
        PROVE  ReviewInv' /\ PromiseStep
    BY <2>4, HumanSteps, ReviewStepKeeps
  <2>5. CASE BecomesDue \/ ExpireStale \/ WaiterPolls \/ WaiterTimesOut \/ WaiterExpires
    BY <2>5, TimeAndWaiterSteps, ReviewStepKeeps
  <2>6. QED BY <1>5, <2>1, <2>2, <2>3, <2>4, <2>5 DEF Environment
<1>6. QED BY <1>1, <1>2, <1>3, <1>4, <1>5 DEF Next

\* However many people, guardian loops, expiries and waiting agents race for an approval,
\* its review trail explains its status with at most one terminal review, and its engine
\* action exists exactly when the decision calls for one (transitionWithReviewTx,
\* resolveWithEngineActionTx, expireStaleApprovals).
THEOREM ReviewSafety == Spec => [](TypeOK /\ ReviewMatchesStatus /\ ActionIffDecided)
<1>1. ReviewInv => TypeOK /\ ReviewMatchesStatus /\ ActionIffDecided BY DEF ReviewInv
<1>2. QED BY <1>1, InitReviewInv, NextKeeps, PTL DEF Spec

\* The approval implements ApprovalPromise: it is decided once, the decision stands, and the
\* blocked work is resumed or cancelled only after it and in the way it calls for.
THEOREM PromiseKept == Spec => KeepsPromise
<1>1. ReviewInv /\ [Next]_vars => [Promise!Next]_<<outcomeBar, effectBar>>
  BY NextKeeps DEF PromiseStep
<1>2. QED BY <1>1, InitReviewInv, NextKeeps, PTL
             DEF Spec, KeepsPromise, Promise!Spec, outcomeBar, effectBar

\* A settled engine action stays settled: a processor that comes back after its lease lapsed
\* changes nothing (the WHERE clauses of claimNext, markSucceeded, requeueWithError and
\* markFailed; ON CONFLICT DO NOTHING of enqueueForResolvedApproval).
THEOREM SettledIsFinal == Spec => SettledActionIsFinal
<1>1. Next /\ actionStatus \in Settled => UNCHANGED <<actionStatus, attempts>>
  <2> SUFFICES ASSUME Next, actionStatus \in Settled PROVE UNCHANGED <<actionStatus, attempts>>
    OBVIOUS
  <2>1. ASSUME NEW d, Enqueue(d) PROVE UNCHANGED <<actionStatus, attempts>>
    BY <2>1 DEF Enqueue, Settled, queueVars
  <2>2. ASSUME NEW g \in Gateways, GuardianStep(g) PROVE UNCHANGED <<actionStatus, attempts>>
    BY <2>1, <2>2
       DEF GuardianStep, GuardianPick, GuardianClaim, GuardianApproves, GuardianEscalates,
           GuardianFails, GuardianRecords, RecoverStale, Move, Resolve, NoTransition, queueVars
  <2>3. ASSUME NEW g \in Gateways, QueueStep(g) \/ EngineTickLost(g)
        PROVE  UNCHANGED <<actionStatus, attempts>>
    BY <2>3
       DEF QueueStep, EngineStep, ClaimAction, ActionClaimable, ExecuteAction, ExecuteThrows,
           MarkSucceeded, RequeueWithError, MarkFailed, Settle, MaySettle, EngineTickLost, Settled,
           queueVars
  <2>4. CASE ReviewGetsStale \/ ActionLeaseLapses
    BY <2>4 DEF ReviewGetsStale, ActionLeaseLapses, Settled, queueVars
  <2>5. CASE Environment
    <3>1. ASSUME NEW c \in Creators, InitReview(c) \/ \E mode \in Modes : Create(c, mode)
          PROVE  UNCHANGED <<actionStatus, attempts>>
      BY <3>1 DEF InitReview, Create, Move, NoTransition, queueVars
    <3>2. ASSUME NEW g \in Gateways, GuardianTickLost(g) \/ Crash(g)
          PROVE  UNCHANGED <<actionStatus, attempts>>
      BY <3>2 DEF GuardianTickLost, Crash, queueVars
    <3>3. ASSUME NEW h \in Humans,
                 \/ HumanAlways(h)
                 \/ \E d \in Decided : HumanReads(h, d)
                 \/ HumanWrites(h) \/ HumanOverrides(h) \/ HumanCallLost(h)
          PROVE  UNCHANGED <<actionStatus, attempts>>
      BY <2>1, <3>3
         DEF HumanAlways, HumanReads, HumanWrites, HumanOverrides, HumanCallLost, Resolve,
             NoTransition, queueVars
    <3>4. CASE BecomesDue \/ ExpireStale \/ WaiterPolls \/ WaiterTimesOut \/ WaiterExpires
      BY <3>4 DEF BecomesDue, ExpireStale, WaiterPolls, WaiterTimesOut, WaiterExpires, ExpireNow,
                  NoTransition, queueVars
    <3>5. QED BY <2>3, <2>5, <3>1, <3>2, <3>3, <3>4 DEF Environment
  <2>6. QED BY <2>2, <2>3, <2>4, <2>5 DEF Next
<1>2. [Next]_vars => [(actionStatus \in Settled) => UNCHANGED <<actionStatus, attempts>>]_queueVars
  BY <1>1 DEF vars, queueVars
<1>3. QED BY <1>2, PTL DEF Spec, SettledActionIsFinal

-----------------------------------------------------------------------------
(* Races between the deciders: the guardian loops, the people and the      *)
(* processors of the action.                                               *)

\* A loop reviews only what it moved out of the queue, where nothing returns, and no second
\* loop could move it out again.
OneLoop ==
    \A g \in Gateways : guardian[g] = "reviewing" =>
        /\ status \notin {"none", "queued"}
        /\ \A k \in Gateways : guardian[k] = "reviewing" => k = g

\* "Approve always" writes an approval, and reaches the overrides only if that write won.
AlwaysApproves ==
    /\ \A h \in Humans :
          /\ human[h].pc = "writing" /\ human[h].always => human[h].decision = "approved"
          /\ human[h].pc = "overriding" => status = "approved"
    /\ overrides # {} => status = "approved"

\* A processor that has executed the action has applied it.
AppliedFirst ==
    /\ actionStatus = "succeeded" => applied > 0
    /\ \A g \in Gateways : engine[g].pc = "executed" => applied > 0

RaceInv == OneLoop /\ AlwaysApproves /\ AppliedFirst

HumanStep(h) ==
    \/ HumanAlways(h)
    \/ \E d \in Decided : HumanReads(h, d)
    \/ HumanWrites(h) \/ HumanOverrides(h) \/ HumanCallLost(h)

WaiterOrTime == BecomesDue \/ ExpireStale \/ WaiterPolls \/ WaiterTimesOut \/ WaiterExpires

CreatorStep(c) == InitReview(c) \/ \E mode \in Modes : Create(c, mode)

EngineMoves ==
    /\ UNCHANGED reviewVars
    /\ \/ \E g \in Gateways : EngineStep(g) \/ EngineTickLost(g)
       \/ ActionLeaseLapses

\* The same steps as Next, by what they act on.
LEMMA NextCases ==
    ASSUME Next
    PROVE  \/ \E c \in Creators : CreatorStep(c)
           \/ \E g \in Gateways : GuardianStep(g) \/ GuardianTickLost(g)
           \/ \E g \in Gateways : Crash(g)
           \/ \E h \in Humans : HumanStep(h)
           \/ WaiterOrTime \/ ReviewGetsStale
           \/ EngineMoves
BY DEF Next, Environment, QueueStep, CreatorStep, HumanStep, WaiterOrTime, EngineMoves

\* The status never goes back: neither into the queue nor out of a decision.
StatusForward ==
    /\ status \in TerminalStatus => status' = status
    /\ status \notin {"none", "queued"} => status' \notin {"none", "queued"}

LEMMA Forward ==
    ASSUME ReviewInv, [Next]_vars
    PROVE  StatusForward
<1> USE DEF StatusForward, TerminalStatus, Blocked, Modes, HumanResolvable, Transitions, Move,
            NoTransition, ExpireNow, Resolve
<1>0. CallLinks BY ReviewInvParts
<1>1. ASSUME NEW c \in Creators, CreatorStep(c) PROVE StatusForward
  BY <1>0, <1>1 DEF CreatorStep, InitReview, Create, CallLinks
<1>2. ASSUME NEW g \in Gateways, GuardianStep(g) \/ GuardianTickLost(g) \/ Crash(g)
      PROVE  StatusForward
  BY <1>2 DEF GuardianStep, GuardianPick, GuardianClaim, GuardianApproves, GuardianEscalates,
              GuardianFails, GuardianRecords, RecoverStale, GuardianTickLost, Crash
<1>3. ASSUME NEW h \in Humans, HumanStep(h) PROVE StatusForward
  BY <1>0, <1>3 DEF HumanStep, HumanAlways, HumanReads, HumanWrites, HumanOverrides, HumanCallLost,
              CallLinks, Decided
<1>4. CASE WaiterOrTime \/ ReviewGetsStale
  BY <1>4 DEF WaiterOrTime, BecomesDue, ExpireStale, WaiterPolls, WaiterTimesOut, WaiterExpires,
              ReviewGetsStale
<1>5. CASE EngineMoves \/ UNCHANGED vars BY <1>5 DEF EngineMoves, reviewVars, vars
<1>6. QED BY <1>1, <1>2, <1>3, <1>4, <1>5, NextCases

LEMMA OneLoopKept ==
    ASSUME ReviewInv, OneLoop, [Next]_vars
    PROVE  OneLoop'
<1>0. SideTypeOK /\ StatusForward BY ReviewInvParts, Forward
<1>1. CASE \A g \in Gateways : guardian'[g] = "reviewing" => guardian[g] = "reviewing"
  BY <1>0, <1>1 DEF OneLoop, StatusForward
<1>2. ASSUME NEW g \in Gateways, GuardianClaim(g), Transitions("queued", {"queued"}) PROVE OneLoop'
  <2>1. \A k \in Gateways : guardian[k] # "reviewing" BY <1>2 DEF OneLoop, Transitions
  <2>2. status' = "reviewing" /\ guardian' = [guardian EXCEPT ![g] = "reviewing"]
    BY <1>2 DEF GuardianClaim, Move
  <2>3. QED BY <1>0, <2>1, <2>2 DEF OneLoop, SideTypeOK
<1>3. ASSUME NEW g \in Gateways, GuardianStep(g) \/ GuardianTickLost(g) \/ Crash(g) PROVE OneLoop'
  BY <1>0, <1>1, <1>2, <1>3
     DEF GuardianStep, GuardianPick, GuardianClaim, GuardianApproves, GuardianEscalates,
         GuardianFails, GuardianRecords, RecoverStale, GuardianTickLost, Crash, LoseGuardian,
         SideTypeOK
<1>4. ASSUME UNCHANGED guardian PROVE OneLoop' BY <1>1, <1>4
<1>5. ASSUME NEW c \in Creators, CreatorStep(c) PROVE UNCHANGED guardian
  BY <1>5 DEF CreatorStep, InitReview, Create
<1>6. ASSUME NEW h \in Humans, HumanStep(h) PROVE UNCHANGED guardian
  BY <1>6 DEF HumanStep, HumanAlways, HumanReads, HumanWrites, HumanOverrides, HumanCallLost
<1>7. ASSUME WaiterOrTime \/ ReviewGetsStale PROVE UNCHANGED guardian
  BY <1>7 DEF WaiterOrTime, BecomesDue, ExpireStale, WaiterPolls, WaiterTimesOut, WaiterExpires,
              ReviewGetsStale
<1>8. ASSUME EngineMoves \/ UNCHANGED vars PROVE UNCHANGED guardian
  BY <1>8 DEF EngineMoves, reviewVars, vars
<1>9. QED BY <1>3, <1>4, <1>5, <1>6, <1>7, <1>8, NextCases

LEMMA AlwaysApprovesKept ==
    ASSUME ReviewInv, AlwaysApproves, [Next]_vars
    PROVE  AlwaysApproves'
<1>0. SideTypeOK /\ StatusForward BY ReviewInvParts, Forward
<1>1. status = "approved" => status' = "approved" BY <1>0 DEF StatusForward, TerminalStatus
<1>2. ASSUME UNCHANGED <<human, overrides>> PROVE AlwaysApproves' BY <1>1, <1>2 DEF AlwaysApproves
<1>3. ASSUME NEW c \in Creators, CreatorStep(c) PROVE UNCHANGED <<human, overrides>>
  BY <1>3 DEF CreatorStep, InitReview, Create
<1>4. ASSUME NEW g \in Gateways, GuardianStep(g) \/ GuardianTickLost(g) \/ Crash(g)
      PROVE  UNCHANGED <<human, overrides>>
  BY <1>4 DEF GuardianStep, GuardianPick, GuardianClaim, GuardianApproves, GuardianEscalates,
              GuardianFails, GuardianRecords, RecoverStale, GuardianTickLost, Crash
<1>5. ASSUME WaiterOrTime \/ ReviewGetsStale PROVE UNCHANGED <<human, overrides>>
  BY <1>5 DEF WaiterOrTime, BecomesDue, ExpireStale, WaiterPolls, WaiterTimesOut, WaiterExpires,
              ReviewGetsStale
<1>6. ASSUME EngineMoves \/ UNCHANGED vars PROVE UNCHANGED <<human, overrides>>
  BY <1>6 DEF EngineMoves, reviewVars, vars
<1>7. ASSUME NEW h \in Humans, HumanStep(h) PROVE AlwaysApproves'
  <2>1. ASSUME NEW r, human' = [human EXCEPT ![h] = r], UNCHANGED overrides,
               r.pc = "writing" /\ r.always => r.decision = "approved",
               r.pc = "overriding" => status' = "approved"
        PROVE  AlwaysApproves'
    BY <1>0, <1>1, <2>1 DEF AlwaysApproves, SideTypeOK
  <2>2. ASSUME NEW pc \in {"checked", "done"}, human' = [human EXCEPT ![h] = HumanAt(pc)],
               UNCHANGED overrides
        PROVE  AlwaysApproves'
    BY <2>1, <2>2 DEF HumanAt
  <2>3. CASE HumanAlways(h) BY <2>2, <2>3 DEF HumanAlways, HumanDone
  <2>4. ASSUME NEW d \in Decided, HumanReads(h, d) PROVE AlwaysApproves'
    <3> DEFINE w == [pc |-> "writing", decision |-> d, always |-> (human[h].pc = "checked"),
                     seen |-> status]
    <3>1. CASE status \in HumanResolvable
      <4>1. human' = [human EXCEPT ![h] = w] BY <1>0, <2>4, <3>1 DEF HumanReads, SideTypeOK
      <4>2. w.pc # "overriding" /\ (w.always => w.decision = "approved") BY <2>4 DEF HumanReads
      <4>3. UNCHANGED overrides BY <2>4 DEF HumanReads
      <4> HIDE DEF w
      <4>4. QED BY <2>1, <4>1, <4>2, <4>3
    <3>2. CASE status \notin HumanResolvable
      BY <2>2, <2>4, <3>2 DEF HumanReads, HumanDone
    <3>3. QED BY <3>1, <3>2
  <2>5. CASE HumanWrites(h)
    <3> DEFINE won == Transitions(human[h].seen, HumanResolvable)
    <3>1. CASE won /\ human[h].always
      <4>1. human' = [human EXCEPT ![h] = HumanAt("overriding")] /\ UNCHANGED overrides
        BY <1>0, <2>5, <3>1 DEF HumanWrites, SideTypeOK
      <4>2. status' = "approved" BY <2>5, <3>1 DEF HumanWrites, Resolve, AlwaysApproves
      <4>3. QED BY <2>1, <4>1, <4>2 DEF HumanAt
    <3>2. CASE ~(won /\ human[h].always)
      <4>1. human' = [human EXCEPT ![h] = HumanDone] /\ UNCHANGED overrides
        BY <1>0, <2>5, <3>2 DEF HumanWrites, SideTypeOK
      <4>2. QED BY <2>2, <4>1 DEF HumanDone
    <3>3. QED BY <3>1, <3>2
  <2>6. CASE HumanOverrides(h)
    <3>1. status' = "approved" BY <1>1, <2>6 DEF HumanOverrides, AlwaysApproves
    <3>2. human' = [human EXCEPT ![h] = HumanDone] BY <2>6 DEF HumanOverrides
    <3>3. QED BY <1>0, <3>1, <3>2 DEF AlwaysApproves, SideTypeOK, HumanDone, HumanAt
  <2>7. CASE HumanCallLost(h) BY <2>2, <2>7 DEF HumanCallLost, HumanDone
  <2>8. QED BY <1>7, <2>3, <2>4, <2>5, <2>6, <2>7 DEF HumanStep
<1>8. QED BY <1>2, <1>3, <1>4, <1>5, <1>6, <1>7, NextCases

LEMMA AppliedFirstKept ==
    ASSUME ReviewInv, AppliedFirst, [Next]_vars
    PROVE  AppliedFirst'
<1>0. SideTypeOK BY ReviewInvParts
<1>1. ASSUME UNCHANGED engineVars, actionStatus' \in {actionStatus, "queued"} PROVE AppliedFirst'
  BY <1>1 DEF AppliedFirst, engineVars
<1>2. ASSUME NEW d, Enqueue(d) PROVE actionStatus' \in {actionStatus, "queued"}
  BY <1>2 DEF Enqueue, queueVars
<1>3. ASSUME NEW c \in Creators, CreatorStep(c) PROVE AppliedFirst'
  BY <1>1, <1>3 DEF CreatorStep, InitReview, Create, Move, NoTransition, queueVars
<1>4. ASSUME NEW g \in Gateways, GuardianStep(g) \/ GuardianTickLost(g) PROVE AppliedFirst'
  BY <1>1, <1>2, <1>4
     DEF GuardianStep, GuardianPick, GuardianClaim, GuardianApproves, GuardianEscalates,
         GuardianFails, GuardianRecords, RecoverStale, GuardianTickLost, Move, Resolve,
         NoTransition, queueVars
<1>5. ASSUME NEW h \in Humans, HumanStep(h) PROVE AppliedFirst'
  BY <1>1, <1>2, <1>5
     DEF HumanStep, HumanAlways, HumanReads, HumanWrites, HumanOverrides, HumanCallLost, Resolve,
         NoTransition, queueVars
<1>6. CASE WaiterOrTime \/ ReviewGetsStale \/ UNCHANGED vars
  BY <1>1, <1>6
     DEF WaiterOrTime, BecomesDue, ExpireStale, WaiterPolls, WaiterTimesOut, WaiterExpires,
         ExpireNow, NoTransition, ReviewGetsStale, queueVars, vars, engineVars
<1>7. ASSUME NEW g \in Gateways, Crash(g) PROVE AppliedFirst'
  BY <1>0, <1>7 DEF Crash, AppliedFirst, SideTypeOK, EngineIdle, queueVars
<1>8. CASE EngineMoves
  <2> USE <1>0 DEF AppliedFirst, SideTypeOK, EngineState, EngineIdle
  <2>1. ASSUME NEW g \in Gateways, ClaimAction(g) PROVE AppliedFirst'
    BY <2>1 DEF ClaimAction
  <2>2. ASSUME NEW g \in Gateways, ExecuteAction(g) PROVE AppliedFirst'
    BY <2>2 DEF ExecuteAction, queueVars
  <2>3. ASSUME NEW g \in Gateways, ExecuteThrows(g) \/ EngineTickLost(g) PROVE AppliedFirst'
    BY <2>3 DEF ExecuteThrows, EngineTickLost, queueVars
  <2>4. ASSUME NEW g \in Gateways, MarkSucceeded(g) \/ RequeueWithError(g) \/ MarkFailed(g)
        PROVE  AppliedFirst'
    BY <2>4 DEF MarkSucceeded, RequeueWithError, MarkFailed, Settle
  <2>5. CASE ActionLeaseLapses BY <2>5 DEF ActionLeaseLapses, engineVars
  <2>6. QED BY <1>8, <2>1, <2>2, <2>3, <2>4, <2>5 DEF EngineMoves, EngineStep
<1>9. QED BY <1>3, <1>4, <1>5, <1>6, <1>7, <1>8, NextCases

LEMMA RaceInvHolds == Spec => []RaceInv
<1>1. Init => RaceInv
  BY DEF Init, QueueInit, RaceInv, OneLoop, AlwaysApproves, AppliedFirst, HumanAt, EngineIdle
<1>2. ReviewInv /\ RaceInv /\ [Next]_vars => RaceInv'
  BY OneLoopKept, AlwaysApprovesKept, AppliedFirstKept DEF RaceInv
<1>3. QED BY <1>1, <1>2, InitReviewInv, NextKeeps, PTL DEF Spec

\* Of all the loops that race for an approval, at most one reviews it at a time
\* (GuardianReviewProcessor.claimNextApproval, recoverStaleReviews).
THEOREM OneReviewerAtATime == Spec => []OneReviewer
<1>1. RaceInv => OneReviewer BY DEF RaceInv, OneLoop, OneReviewer
<1>2. QED BY <1>1, RaceInvHolds, PTL

\* "Approve always" leaves overrides behind only for an approval that is, and stays,
\* approved, whoever else decides in between (resolveApproval).
THEOREM OverridesFollowApproval == Spec => []OverrideIsApproved
<1>1. RaceInv => OverrideIsApproved BY DEF RaceInv, AlwaysApproves, OverrideIsApproved
<1>2. QED BY <1>1, RaceInvHolds, PTL

\* An engine action that is reported as succeeded was executed, whichever processor held
\* its lease by then (ApprovalEngineActionProcessor).
THEOREM SuccessMeansApplied == Spec => []SucceededWasApplied
<1>1. RaceInv => SucceededWasApplied BY DEF RaceInv, AppliedFirst, SucceededWasApplied
<1>2. QED BY <1>1, RaceInvHolds, PTL
=============================================================================
