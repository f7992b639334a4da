-------------------------- MODULE TurnRunnerProofs --------------------------
(***************************************************************************)
(* Proofs about TurnRunner, for every number of turns, approvals, faults   *)
(* and loops, and whether or not heartbeats fail: a paused turn can be     *)
(* resumed, executions are serialized until a lease is taken from a live   *)
(* executor, and late outcomes change nothing.                             *)
(***************************************************************************)
EXTENDS TurnRunner, TLAPS

\* What an owner is doing names a turn, and an approval once it asked for one.
ExecWellFormed ==
    \A o \in Owners :
        /\ exec[o].phase = "idle" <=> exec[o].turn = 0
        /\ exec[o].phase = "approving" => exec[o].approval \in ApprovalIds

\* A loop that still has candidates to try executes nothing.
IdleWhileListing ==
    \A o \in Loops : candidates[o] # NothingListed => exec[o].phase = "idle"

\* An owner that is about to pause its turn still has the turn's lease only if the token of
\* the approval it asked for was not used.
AskedHasToken ==
    \A o \in Owners :
        exec[o].phase = "approving" /\ turnOwner[exec[o].turn] = o
            => exec[o].approval \in token[exec[o].turn]

\* The lease of a turn is with the owner that claimed it last, or with nobody; a turn that is
\* over has none.
LeaseOfLastClaim ==
    \A t \in Turns :
        /\ turnOwner[t] \in {NoOwner, lastClaim[t]}
        /\ status[t] \in Terminal => turnOwner[t] = NoOwner

\* Undisturbed executors hold the conversation lease.
HolderUndisturbed ==
    ~disturbed => \A o \in Owners :
        exec[o].phase # "idle" => convOwner = o /\ ~convLapsed

TurnInv ==
    /\ TypeOK
    /\ ExecWellFormed
    /\ IdleWhileListing
    /\ AskedHasToken
    /\ PausedTurnCanResume
    /\ LeaseOfLastClaim
    /\ HolderUndisturbed

-----------------------------------------------------------------------------

\* The values that the actions assign.
LEMMA Values ==
    /\ 0 \in 0..MaxTurns /\ 0 \in 0..MaxApprovals
    /\ Turns \subseteq 0..MaxTurns /\ ApprovalIds \subseteq 0..MaxApprovals
    /\ Idle \in Exec /\ NothingListed \in Listing
    /\ \A t \in Turns : Executing(t) \in Exec /\ t # 0
    /\ \A t \in Turns : t \in Owners
    /\ \A o \in Loops : o \in Owners
    /\ NoOwner \notin Owners
BY TurnAssumption DEF Turns, ApprovalIds, Idle, Exec, NothingListed, Listing, Executing, Owners

\* An owner that executes has a turn.
LEMMA ExecutingTurn ==
    ASSUME TurnInv, NEW o \in Owners, exec[o].phase # "idle"
    PROVE  exec[o].turn \in Turns
BY TurnAssumption DEF TurnInv, TypeOK, ExecWellFormed, Exec, Turns

\* A resume keeps the invariant, whatever the turn's status and whoever executes it.
LEMMA ResumeKeepsInv ==
    ASSUME TurnInv, NEW t \in Turns, NEW i \in ApprovalIds, ResumeTurn(t, i), UNCHANGED actorVars
    PROVE  TurnInv'
<1> USE DEF ResumeTurn, actorVars, convVars
<1>1. TypeOK'
  BY DEF TurnInv, TypeOK, ResumedStatus, LeaseAfterResume, Runnable, Terminal
<1>2. ExecWellFormed' /\ IdleWhileListing' /\ HolderUndisturbed'
  BY DEF TurnInv, ExecWellFormed, IdleWhileListing, HolderUndisturbed
<1>3. AskedHasToken'
  <2> SUFFICES ASSUME NEW o \in Owners, exec[o].phase = "approving", turnOwner'[exec[o].turn] = o
               PROVE  exec[o].approval \in token'[exec[o].turn]
    BY DEF AskedHasToken
  <2>1. exec[o].turn \in Turns
    BY ExecutingTurn
  <2>2. CASE exec[o].turn = t
    <3>1. turnOwner[t] = o /\ i \notin token[t]
      BY <2>2, TurnAssumption DEF TurnInv, TypeOK, LeaseAfterResume, LeaseOfLastClaim, Owners
    <3> QED BY <2>2, <3>1 DEF TurnInv, TypeOK, AskedHasToken
  <2>3. CASE exec[o].turn # t
    BY <2>1, <2>3 DEF TurnInv, TypeOK, AskedHasToken, LeaseAfterResume
  <2> QED BY <2>2, <2>3
<1>4. PausedTurnCanResume'
  BY DEF TurnInv, TypeOK, PausedTurnCanResume, Requeues, ResumedStatus
<1>5. LeaseOfLastClaim'
  BY DEF TurnInv, TypeOK, LeaseOfLastClaim, LeaseAfterResume, Requeues, ResumedStatus, Terminal
<1> QED BY <1>1, <1>2, <1>3, <1>4, <1>5 DEF TurnInv

\* A cancellation keeps the invariant.
LEMMA CancelKeepsInv ==
    ASSUME TurnInv, NEW t \in Turns, CancelTurn(t), UNCHANGED <<exec, candidates, loop, faults>>,
           request' \in [Turns -> {"none", "open", "gone"}]
    PROVE  TurnInv'
<1> USE DEF CancelTurn, ClearTurnLease, DeleteConversationLease, turnVars, convVars, approvalVars
<1>1. TypeOK'
  <2>1. disturbed' \in BOOLEAN
    BY DEF TurnInv, TypeOK, SomebodyExecutes
  <2>2. CASE status[t] \in Terminal
    BY <2>1, <2>2 DEF TurnInv, TypeOK
  <2>3. CASE status[t] \notin Terminal
    <3>1. /\ status' \in [Turns -> {"none", "paused"} \cup Runnable \cup Terminal]
          /\ turnOwner' \in [Turns -> Owners \cup {NoOwner}]
          /\ turnLapsed' \in [Turns -> BOOLEAN]
      BY <2>3 DEF TurnInv, TypeOK, Terminal
    <3>2. checkpoint' \in [Turns -> 0..MaxApprovals] /\ token' \in [Turns -> SUBSET ApprovalIds]
      BY <2>3, Values DEF TurnInv, TypeOK
    <3> QED BY <2>1, <2>3, <3>1, <3>2, Values DEF TurnInv, TypeOK
  <2> QED BY <2>2, <2>3
<1>2. ExecWellFormed' /\ IdleWhileListing'
  BY DEF TurnInv, ExecWellFormed, IdleWhileListing
<1>3. AskedHasToken'
  <2> SUFFICES ASSUME NEW o \in Owners, exec[o].phase = "approving", turnOwner'[exec[o].turn] = o
               PROVE  exec[o].approval \in token'[exec[o].turn]
    BY DEF AskedHasToken
  <2>1. exec[o].turn \in Turns
    BY ExecutingTurn
  <2> QED BY <2>1, TurnAssumption DEF TurnInv, TypeOK, AskedHasToken, Owners
<1>4. PausedTurnCanResume'
  BY DEF TurnInv, TypeOK, PausedTurnCanResume
<1>5. LeaseOfLastClaim'
  BY DEF TurnInv, TypeOK, LeaseOfLastClaim
<1>6. HolderUndisturbed'
  BY DEF TurnInv, HolderUndisturbed, SomebodyExecutes
<1> QED BY <1>1, <1>2, <1>3, <1>4, <1>5, <1>6 DEF TurnInv

\* A claim by an idle owner keeps the invariant.
LEMMA ClaimKeepsInv ==
    ASSUME TurnInv, NEW t \in Turns, NEW o \in Owners, exec[o].phase = "idle", Claim(o, t),
           candidates' \in [Loops -> Listing],
           \A p \in Loops : candidates'[p] = IF p = o THEN NothingListed ELSE candidates[p]
    PROVE  TurnInv'
<1> USE DEF Claim, TakeLeases
<1>1. TypeOK'
  BY Values DEF TurnInv, TypeOK, approvalVars, Runnable
<1> USE DEF Executing
<1>2. ExecWellFormed'
  BY Values DEF TurnInv, TypeOK, ExecWellFormed
<1>3. IdleWhileListing'
  BY DEF TurnInv, TypeOK, IdleWhileListing, Owners
<1>4. AskedHasToken'
  <2> SUFFICES ASSUME NEW p \in Owners, exec'[p].phase = "approving", turnOwner'[exec'[p].turn] = p
               PROVE  exec'[p].approval \in token'[exec'[p].turn]
    BY DEF AskedHasToken
  <2>1. p # o /\ exec'[p] = exec[p]
    BY DEF TurnInv, TypeOK
  <2>2. exec[p].turn \in Turns
    BY <2>1, ExecutingTurn
  <2> QED BY <2>1, <2>2 DEF TurnInv, TypeOK, AskedHasToken, approvalVars
<1>5. PausedTurnCanResume'
  BY DEF TurnInv, TypeOK, PausedTurnCanResume, approvalVars
<1>6. LeaseOfLastClaim'
  BY DEF TurnInv, TypeOK, LeaseOfLastClaim, Terminal
<1>7. HolderUndisturbed'
  BY TurnAssumption DEF TurnInv, TypeOK, HolderUndisturbed, ConversationFree
<1> QED BY <1>1, <1>2, <1>3, <1>4, <1>5, <1>6, <1>7 DEF TurnInv

\* The end of an execution keeps the invariant: its outcome is recorded or ignored.
LEMMA FinishKeepsInv ==
    ASSUME TurnInv, NEW o \in Owners, NEW outcome \in {"succeeded", "failed"}, Finish(o, outcome)
    PROVE  TurnInv'
<1> DEFINE t == exec[o].turn
<1>0. t \in Turns
  BY ExecutingTurn DEF Finish
<1> USE DEF Finish, DoneExecuting, ClearTurnLease, ReleaseConversation, DeleteConversationLease,
            turnVars, convVars, approvalVars
<1>1. TypeOK'
  <2>1. exec' \in [Owners -> Exec] /\ request' \in [Turns -> {"none", "open", "gone"}]
    BY Values DEF TurnInv, TypeOK
  <2>2. CASE MayRecord(o, t)
    <3>1. /\ status' \in [Turns -> {"none", "paused"} \cup Runnable \cup Terminal]
          /\ turnOwner' \in [Turns -> Owners \cup {NoOwner}]
          /\ turnLapsed' \in [Turns -> BOOLEAN]
      BY <1>0, <2>2 DEF TurnInv, TypeOK, Terminal
    <3>2. checkpoint' \in [Turns -> 0..MaxApprovals]
      BY <1>0, <2>2, Values DEF TurnInv, TypeOK
    <3> QED BY <2>1, <2>2, <3>1, <3>2, Values DEF TurnInv, TypeOK
  <2>3. CASE ~MayRecord(o, t)
    BY <2>1, <2>3 DEF TurnInv, TypeOK
  <2> QED BY <2>2, <2>3
<1>2. ExecWellFormed'
  BY DEF TurnInv, TypeOK, ExecWellFormed, Idle
<1>3. IdleWhileListing'
  BY DEF TurnInv, TypeOK, IdleWhileListing, Idle, Owners
<1>4. AskedHasToken'
  <2> SUFFICES ASSUME NEW p \in Owners, exec'[p].phase = "approving", turnOwner'[exec'[p].turn] = p
               PROVE  exec'[p].approval \in token'[exec'[p].turn]
    BY DEF AskedHasToken
  <2>1. p # o /\ exec'[p] = exec[p]
    BY DEF TurnInv, TypeOK, Idle
  <2>2. exec[p].turn \in Turns
    BY <2>1, ExecutingTurn
  <2>3. turnOwner[exec[p].turn] = p
    BY <1>0, <2>1, <2>2, TurnAssumption DEF TurnInv, TypeOK
  <2> QED BY <2>1, <2>2, <2>3 DEF TurnInv, TypeOK, AskedHasToken
<1>5. PausedTurnCanResume'
  BY <1>0 DEF TurnInv, TypeOK, PausedTurnCanResume
<1>6. LeaseOfLastClaim'
  BY <1>0 DEF TurnInv, TypeOK, LeaseOfLastClaim
<1>7. HolderUndisturbed'
  BY DEF TurnInv, TypeOK, HolderUndisturbed, Idle
<1> QED BY <1>1, <1>2, <1>3, <1>4, <1>5, <1>6, <1>7 DEF TurnInv

\* Creating an approval keeps the invariant: its token works until the turn is paused for it,
\* or else the turn's lease is cleared.
LEMMA AskKeepsInv ==
    ASSUME TurnInv, NEW o \in Owners, AskApproval(o)
    PROVE  TurnInv'
<1> DEFINE t == exec[o].turn
           i == asked[t] + 1
<1>0. t \in Turns
  BY ExecutingTurn DEF AskApproval
<1>1. i \in ApprovalIds
  BY <1>0, TurnAssumption DEF AskApproval, TurnInv, TypeOK, ApprovalIds
<1> DEFINE asking == [turn |-> t, phase |-> "approving", approval |-> i]
<1>2. asking \in Exec
  BY <1>0, <1>1, Values DEF Exec
<1> USE DEF AskApproval, turnVars, convVars
<1>3. TypeOK'
  <2>1. exec' \in [Owners -> Exec]
    BY <1>2 DEF TurnInv, TypeOK
  <2>2. approval' \in [Turns -> [ApprovalIds -> ApprovalStatus]]
    BY <1>0, <1>1 DEF TurnInv, TypeOK, ApprovalStatus
  <2>3. token' \in [Turns -> SUBSET ApprovalIds] /\ asked' \in [Turns -> 0..MaxApprovals]
    BY <1>0, <1>1, Values DEF TurnInv, TypeOK
  <2> QED BY <2>1, <2>2, <2>3 DEF TurnInv, TypeOK
<1>4. ExecWellFormed'
  BY <1>0, <1>1, Values DEF TurnInv, TypeOK, ExecWellFormed
<1>5. IdleWhileListing'
  BY DEF TurnInv, TypeOK, IdleWhileListing, Owners
<1>6. AskedHasToken'
  <2> SUFFICES ASSUME NEW p \in Owners, exec'[p].phase = "approving", turnOwner'[exec'[p].turn] = p
               PROVE  exec'[p].approval \in token'[exec'[p].turn]
    BY DEF AskedHasToken
  <2>1. CASE p = o
    BY <1>0, <1>1, <2>1 DEF TurnInv, TypeOK
  <2>2. CASE p # o
    <3>1. exec'[p] = exec[p] /\ exec[p].turn \in Turns
      BY <2>2, ExecutingTurn DEF TurnInv, TypeOK
    <3> QED BY <1>0, <1>1, <3>1 DEF TurnInv, TypeOK, AskedHasToken
  <2> QED BY <2>1, <2>2
<1>7. PausedTurnCanResume'
  BY <1>0, <1>1 DEF TurnInv, TypeOK, PausedTurnCanResume
<1>8. LeaseOfLastClaim' /\ HolderUndisturbed'
  BY DEF TurnInv, TypeOK, LeaseOfLastClaim, HolderUndisturbed
<1> QED BY <1>3, <1>4, <1>5, <1>6, <1>7, <1>8 DEF TurnInv

\* Owners that become idle keep the invariant, if they record nothing.
LEMMA EndKeepsInv ==
    ASSUME TurnInv, NEW o \in Owners, exec' = [exec EXCEPT ![o] = Idle],
           UNCHANGED <<turnVars, convVars, approvalVars, lastClaim, disturbed>>,
           candidates' = candidates \/ (candidates' \in [Loops -> Listing] /\
               \A p \in Loops : candidates'[p] \in {candidates[p], NothingListed}),
           request' \in [Turns -> {"none", "open", "gone"}],
           loop' \in [Loops -> {"new", "live", "dead"}],
           faults' \in 0..MaxFaults
    PROVE  TurnInv'
<1> USE DEF turnVars, convVars, approvalVars
<1>1. TypeOK'
  BY Values DEF TurnInv, TypeOK
<1>2. ExecWellFormed' /\ HolderUndisturbed'
  BY DEF TurnInv, TypeOK, ExecWellFormed, HolderUndisturbed, Idle
<1>3. IdleWhileListing'
  BY DEF TurnInv, TypeOK, IdleWhileListing, Idle, Owners
<1>4. AskedHasToken'
  <2> SUFFICES ASSUME NEW p \in Owners, exec'[p].phase = "approving", turnOwner'[exec'[p].turn] = p
               PROVE  exec'[p].approval \in token'[exec'[p].turn]
    BY DEF AskedHasToken
  <2>1. p # o /\ exec'[p] = exec[p]
    BY DEF TurnInv, TypeOK, Idle
  <2> QED BY <2>1 DEF TurnInv, AskedHasToken
<1>5. PausedTurnCanResume' /\ LeaseOfLastClaim'
  BY DEF TurnInv, PausedTurnCanResume, LeaseOfLastClaim
<1> QED BY <1>1, <1>2, <1>3, <1>4, <1>5 DEF TurnInv

\* A pause keeps the invariant: the token of the approval it waits for still works.
LEMMA PauseKeepsInv ==
    ASSUME TurnInv, NEW o \in Owners, PauseTurn(o)
    PROVE  TurnInv'
<1> DEFINE t == exec[o].turn
<1>0. t \in Turns /\ exec[o].approval \in ApprovalIds
  BY ExecutingTurn DEF PauseTurn, TurnInv, ExecWellFormed
<1>1. CASE ~(MayRecord(o, t) /\ status[t] \in Runnable)
  <2>1. request' \in [Turns -> {"none", "open", "gone"}]
    BY <1>1 DEF PauseTurn, DoneExecuting, TurnInv, TypeOK
  <2> QED BY <1>1, <2>1, EndKeepsInv DEF PauseTurn, DoneExecuting, approvalVars, TurnInv, TypeOK
<1>2. CASE MayRecord(o, t) /\ status[t] \in Runnable
  <2>0. /\ status' = [status EXCEPT ![t] = "paused"]
        /\ turnOwner' = [turnOwner EXCEPT ![t] = NoOwner]
        /\ turnLapsed' = [turnLapsed EXCEPT ![t] = FALSE]
        /\ checkpoint' = [checkpoint EXCEPT ![t] = exec[o].approval]
        /\ exec' = [exec EXCEPT ![o] = Idle]
        /\ ReleaseConversation(o)
        /\ UNCHANGED <<asked, approval, token, candidates, request, loop, faults, lastClaim,
                       disturbed>>
    BY <1>2 DEF PauseTurn, ClearTurnLease, approvalVars
  <2> USE <2>0 DEF ReleaseConversation, DeleteConversationLease, convVars
  <2>1. exec[o].approval \in token[t]
    BY <1>0, <1>2 DEF PauseTurn, MayRecord, TurnInv, AskedHasToken
  <2>2. TypeOK'
    <3>1. /\ status' \in [Turns -> {"none", "paused"} \cup Runnable \cup Terminal]
          /\ turnOwner' \in [Turns -> Owners \cup {NoOwner}]
          /\ turnLapsed' \in [Turns -> BOOLEAN]
      BY <1>0 DEF TurnInv, TypeOK
    <3>2. checkpoint' \in [Turns -> 0..MaxApprovals] /\ exec' \in [Owners -> Exec]
      BY <1>0, Values DEF TurnInv, TypeOK
    <3> QED BY <3>1, <3>2, Values DEF TurnInv, TypeOK
  <2>3. ExecWellFormed' /\ HolderUndisturbed'
    BY DEF TurnInv, TypeOK, ExecWellFormed, HolderUndisturbed, Idle
  <2>4. IdleWhileListing'
    BY DEF TurnInv, TypeOK, IdleWhileListing, Idle, Owners
  <2>5. AskedHasToken'
    <3> SUFFICES ASSUME NEW p \in Owners, exec'[p].phase = "approving",
                        turnOwner'[exec'[p].turn] = p
                 PROVE  exec'[p].approval \in token'[exec'[p].turn]
      BY DEF AskedHasToken
    <3>1. p # o /\ exec'[p] = exec[p]
      BY DEF TurnInv, TypeOK, Idle
    <3>2. exec[p].turn \in Turns
      BY <3>1, ExecutingTurn
    <3>3. turnOwner[exec[p].turn] = p
      BY <1>0, <3>1, <3>2, Values DEF TurnInv, TypeOK
    <3> QED BY <3>1, <3>2, <3>3 DEF TurnInv, TypeOK, AskedHasToken
  <2>6. PausedTurnCanResume'
    BY <1>0, <2>1 DEF TurnInv, TypeOK, PausedTurnCanResume
  <2>7. LeaseOfLastClaim'
    BY <1>0 DEF TurnInv, TypeOK, LeaseOfLastClaim, Terminal
  <2> QED BY <2>2, <2>3, <2>4, <2>5, <2>6, <2>7 DEF TurnInv
<1> QED BY <1>1, <1>2

\* A heartbeat keeps the invariant: it renews what the executor already has.
LEMMA HeartbeatKeepsInv ==
    ASSUME TurnInv, NEW o \in Owners, Heartbeat(o)
    PROVE  TurnInv'
<1> DEFINE t == exec[o].turn
<1>0. t \in Turns
  BY ExecutingTurn DEF Heartbeat
<1> USE DEF Heartbeat, TakeLeases, approvalVars, actorVars
<1>1. TypeOK'
  BY <1>0, Values DEF TurnInv, TypeOK
<1>2. ExecWellFormed' /\ IdleWhileListing' /\ PausedTurnCanResume'
  BY DEF TurnInv, ExecWellFormed, IdleWhileListing, PausedTurnCanResume
<1>3. turnOwner' = turnOwner
  BY <1>0 DEF TurnInv, TypeOK
<1>4. AskedHasToken' /\ LeaseOfLastClaim'
  BY <1>3 DEF TurnInv, AskedHasToken, LeaseOfLastClaim
<1>5. HolderUndisturbed'
  BY DEF TurnInv, HolderUndisturbed
<1> QED BY <1>1, <1>2, <1>4, <1>5 DEF TurnInv

\* Listing turns and passing over one keeps the invariant.
LEMMA ListingKeepsInv ==
    ASSUME TurnInv, NEW o \in Loops, exec[o].phase = "idle", NEW listing \in Listing,
           candidates' = [candidates EXCEPT ![o] = listing],
           UNCHANGED <<turnVars, convVars, approvalVars, exec, request, loop, faults, lastClaim,
                       disturbed>>
    PROVE  TurnInv'
<1> USE DEF turnVars, convVars, approvalVars
<1>1. TypeOK'
  BY DEF TurnInv, TypeOK
<1>2. IdleWhileListing'
  BY DEF TurnInv, TypeOK, IdleWhileListing
<1>3. ExecWellFormed' /\ AskedHasToken' /\ PausedTurnCanResume' /\ LeaseOfLastClaim'
      /\ HolderUndisturbed'
  BY DEF TurnInv, ExecWellFormed, AskedHasToken, PausedTurnCanResume, LeaseOfLastClaim,
         HolderUndisturbed
<1> QED BY <1>1, <1>2, <1>3 DEF TurnInv

\* A loop that tries a listed turn is idle.
LEMMA TryingLoopIsIdle ==
    ASSUME TurnInv, NEW o \in Loops, NEW t \in Turns, NextCandidate(o, t)
    PROVE  exec[o].phase = "idle"
BY DEF TurnInv, IdleWhileListing, NextCandidate, FirstOf, NothingListed

\* What the executor of a turn does next keeps the invariant.
LEMMA ExecutorKeepsInv ==
    ASSUME TurnInv, NEW o \in Owners, ExecutorStep(o)
    PROVE  TurnInv'
BY FinishKeepsInv, AskKeepsInv, PauseKeepsInv DEF ExecutorStep

\* The requests that created the turns keep the invariant.
LEMMA RequestKeepsInv ==
    ASSUME TurnInv, NEW t \in Turns, RequestStep(t)
    PROVE  TurnInv'
<1>1. CASE RequestClaims(t)
  <2>1. candidates' = candidates
    BY <1>1 DEF RequestClaims
  <2>2. \A p \in Loops : candidates'[p] = IF p = t THEN NothingListed ELSE candidates[p]
    BY <2>1, TurnAssumption
  <2> QED BY <1>1, <2>1, <2>2, Values, ClaimKeepsInv
          DEF RequestClaims, Waiting, TurnInv, TypeOK
<1>2. CASE RequestResolves(t)
  BY <1>2, ResumeKeepsInv DEF RequestResolves, ResolvePaused
<1>3. CASE RequestEnds(t)
  <2>1. request' \in [Turns -> {"none", "open", "gone"}]
    BY <1>3 DEF RequestEnds, TurnInv, TypeOK
  <2> QED BY <1>3, <2>1, CancelKeepsInv DEF RequestEnds
<1>4. CASE ExecutorStep(t)
  BY <1>4, Values, ExecutorKeepsInv
<1> QED BY <1>1, <1>2, <1>3, <1>4 DEF RequestStep

\* The conversation turn loops keep it.
LEMMA LoopKeepsInv ==
    ASSUME TurnInv, NEW o \in Loops, LoopStep(o)
    PROVE  TurnInv'
<1>1. CASE LoopResolves(o)
  BY <1>1, ResumeKeepsInv DEF LoopResolves, ResolvePaused
<1>2. CASE LoopScans(o)
  <2>1. [running |-> {t \in Turns : status[t] = "running"},
         queued |-> {t \in Turns : status[t] = "queued"}] \in Listing
    BY DEF Listing
  <2> QED BY <1>2, <2>1, ListingKeepsInv DEF LoopScans, LoopIdle
<1>3. ASSUME NEW t \in Turns, LoopClaims(o, t)
      PROVE  TurnInv'
  <2>1. exec[o].phase = "idle"
    BY <1>3, TryingLoopIsIdle DEF LoopClaims
  <2>2. /\ candidates' \in [Loops -> Listing]
        /\ \A p \in Loops : candidates'[p] = IF p = o THEN NothingListed ELSE candidates[p]
    BY <1>3, Values DEF LoopClaims, TurnInv, TypeOK
  <2> QED BY <1>3, <2>1, <2>2, Values, ClaimKeepsInv DEF LoopClaims
<1>4. ASSUME NEW t \in Turns, LoopSkips(o, t)
      PROVE  TurnInv'
  <2>1. exec[o].phase = "idle"
    BY <1>4, TryingLoopIsIdle DEF LoopSkips
  <2>2. [running |-> candidates[o].running \ {t}, queued |-> candidates[o].queued \ {t}]
            \in Listing
    BY DEF TurnInv, TypeOK, Listing
  <2> QED BY <1>4, <2>1, <2>2, ListingKeepsInv DEF LoopSkips
<1>5. CASE ExecutorStep(o)
  BY <1>5, Values, ExecutorKeepsInv
<1> QED BY <1>1, <1>2, <1>3, <1>4, <1>5 DEF LoopStep

\* Clients, approvers, time and faults keep it.
LEMMA EnvironmentKeepsInv ==
    ASSUME TurnInv, Environment
    PROVE  TurnInv'
<1>1. ASSUME NEW t \in Turns, CreateTurn(t)
      PROVE  TurnInv'
  <2> USE <1>1 DEF CreateTurn, convVars, approvalVars
  <2>1. TypeOK'
    BY DEF TurnInv, TypeOK, Runnable
  <2>2. ExecWellFormed' /\ IdleWhileListing' /\ AskedHasToken' /\ HolderUndisturbed'
    BY DEF TurnInv, ExecWellFormed, IdleWhileListing, AskedHasToken, HolderUndisturbed
  <2>3. PausedTurnCanResume' /\ LeaseOfLastClaim'
    BY DEF TurnInv, TypeOK, PausedTurnCanResume, LeaseOfLastClaim, Terminal
  <2> QED BY <2>1, <2>2, <2>3 DEF TurnInv
<1>2. ASSUME NEW t \in Turns, RequestLost(t)
      PROVE  TurnInv'
  <2>1. /\ request' \in [Turns -> {"none", "open", "gone"}]
        /\ faults' \in 0..MaxFaults
    BY <1>2, TurnAssumption DEF RequestLost, Fault, TurnInv, TypeOK
  <2> QED BY <1>2, <2>1, Values, EndKeepsInv DEF RequestLost, TurnInv, TypeOK
<1>3. ASSUME NEW t \in Turns, ClientCancels(t)
      PROVE  TurnInv'
  BY <1>3, CancelKeepsInv DEF ClientCancels, actorVars, TurnInv, TypeOK
<1>4. ASSUME NEW t \in Turns, TurnLeaseLapses(t)
      PROVE  TurnInv'
  <2> USE <1>4 DEF TurnLeaseLapses, approvalVars, actorVars
  <2>1. TypeOK'
    <3>1. convLapsed' \in BOOLEAN /\ disturbed' \in BOOLEAN
      BY DEF TurnInv, TypeOK, LapsesWithTurn
    <3>2. turnLapsed' \in [Turns -> BOOLEAN]
      BY DEF TurnInv, TypeOK
    <3> QED BY <3>1, <3>2 DEF TurnInv, TypeOK
  <2>2. HolderUndisturbed'
    BY DEF TurnInv, HolderUndisturbed
  <2>3. ExecWellFormed' /\ IdleWhileListing' /\ AskedHasToken' /\ PausedTurnCanResume'
        /\ LeaseOfLastClaim'
    BY DEF TurnInv, ExecWellFormed, IdleWhileListing, AskedHasToken, PausedTurnCanResume,
           LeaseOfLastClaim
  <2> QED BY <2>1, <2>2, <2>3 DEF TurnInv
<1>5. ASSUME NEW t \in Turns, NEW i \in ApprovalIds, EngineResumes(t, i)
      PROVE  TurnInv'
  BY <1>5, ResumeKeepsInv DEF EngineResumes
<1>6. ASSUME NEW t \in Turns, NEW i \in ApprovalIds, NEW outcome \in {"decided", "expired"},
             Decide(t, i, outcome)
      PROVE  TurnInv'
  <2> USE <1>6 DEF Decide, turnVars, convVars, actorVars
  <2>1. TypeOK'
    BY DEF TurnInv, TypeOK, ApprovalStatus
  <2>2. ExecWellFormed' /\ IdleWhileListing' /\ AskedHasToken' /\ PausedTurnCanResume'
        /\ LeaseOfLastClaim' /\ HolderUndisturbed'
    BY DEF TurnInv, ExecWellFormed, IdleWhileListing, AskedHasToken, PausedTurnCanResume,
           LeaseOfLastClaim, HolderUndisturbed
  <2> QED BY <2>1, <2>2 DEF TurnInv
<1>7. ASSUME NEW o \in Loops, NEW p \in Loops, LoopRestarts(o, p)
      PROVE  TurnInv'
  <2>1. loop' \in [Loops -> {"new", "live", "dead"}] /\ faults' \in 0..MaxFaults
    BY <1>7, TurnAssumption DEF LoopRestarts, Fault, TurnInv, TypeOK
  <2>2. /\ candidates' \in [Loops -> Listing]
        /\ \A q \in Loops : candidates'[q] \in {candidates[q], NothingListed}
    BY <1>7, Values DEF LoopRestarts, TurnInv, TypeOK
  <2> QED BY <1>7, <2>1, <2>2, Values, EndKeepsInv DEF LoopRestarts, TurnInv, TypeOK
<1>8. ASSUME NEW o \in Owners, Heartbeat(o)
      PROVE  TurnInv'
  BY <1>8, HeartbeatKeepsInv
<1>9. ASSUME NEW o \in Owners, RecordingFails(o)
      PROVE  TurnInv'
  <2>1. /\ request' \in [Turns -> {"none", "open", "gone"}]
        /\ faults' \in 0..MaxFaults
    BY <1>9, TurnAssumption DEF RecordingFails, DoneExecuting, Fault, TurnInv, TypeOK
  <2> QED BY <1>9, <2>1, EndKeepsInv DEF RecordingFails, DoneExecuting, TurnInv, TypeOK
<1>10. CASE ConversationLeaseLapses
  <2> USE <1>10 DEF ConversationLeaseLapses, turnVars, approvalVars, actorVars
  <2>1. TypeOK'
    <3>1. convLapsed' \in BOOLEAN /\ disturbed' \in BOOLEAN
      BY DEF TurnInv, TypeOK
    <3> QED BY <3>1 DEF TurnInv, TypeOK
  <2>2. HolderUndisturbed'
    BY DEF TurnInv, HolderUndisturbed
  <2>3. ExecWellFormed' /\ IdleWhileListing' /\ AskedHasToken' /\ PausedTurnCanResume'
        /\ LeaseOfLastClaim'
    BY DEF TurnInv, ExecWellFormed, IdleWhileListing, AskedHasToken, PausedTurnCanResume,
           LeaseOfLastClaim
  <2> QED BY <2>1, <2>2, <2>3 DEF TurnInv
<1> QED BY <1>1, <1>2, <1>3, <1>4, <1>5, <1>6, <1>7, <1>8, <1>9, <1>10 DEF Environment

-----------------------------------------------------------------------------

\* The invariant holds at first.
LEMMA InitTurnInv ==
    ASSUME Init
    PROVE  TurnInv
<1> USE DEF Init
<1>1. TypeOK
  <2>1. candidates \in [Loops -> Listing] /\ exec \in [Owners -> Exec]
    BY Values
  <2>2. faults \in 0..MaxFaults /\ convTurn \in 0..MaxTurns
    BY TurnAssumption
  <2>3. checkpoint \in [Turns -> 0..MaxApprovals] /\ asked \in [Turns -> 0..MaxApprovals]
    BY Values
  <2>4. approval \in [Turns -> [ApprovalIds -> ApprovalStatus]]
    BY DEF ApprovalStatus
  <2> QED BY <2>1, <2>2, <2>3, <2>4 DEF TypeOK
<1>2. ExecWellFormed /\ IdleWhileListing /\ AskedHasToken /\ PausedTurnCanResume
  BY Values DEF ExecWellFormed, IdleWhileListing, AskedHasToken, PausedTurnCanResume, Idle, Owners
<1>3. LeaseOfLastClaim /\ HolderUndisturbed
  BY DEF LeaseOfLastClaim, HolderUndisturbed, Idle
<1> QED BY <1>1, <1>2, <1>3 DEF TurnInv

\* Every step keeps it.
LEMMA StepKeepsInv ==
    ASSUME TurnInv, [Next]_vars
    PROVE  TurnInv'
<1>1. CASE Next
  BY <1>1, RequestKeepsInv, LoopKeepsInv, EnvironmentKeepsInv DEF Next
<1>2. CASE UNCHANGED vars
  BY <1>2 DEF vars, TurnInv, TypeOK, ExecWellFormed, IdleWhileListing, AskedHasToken,
              PausedTurnCanResume, LeaseOfLastClaim, HolderUndisturbed
<1> QED BY <1>1, <1>2

\* So it always holds.
LEMMA AlwaysTurnInv == Spec => []TurnInv
BY InitTurnInv, StepKeepsInv, PTL DEF Spec

\* However many processes and requests execute turns, cancel them and resume them, and
\* whenever leases run out: two owners execute at once only after the conversation lease was
\* taken from one of them.
THEOREM TurnSafety == Spec => [](TypeOK /\ SerializedUndisturbed)
<1>1. TurnInv => TypeOK /\ SerializedUndisturbed
  BY DEF TurnInv, HolderUndisturbed, SerializedUndisturbed
<1> QED BY <1>1, AlwaysTurnInv, PTL

\* Under the same conditions a paused turn waits for an approval whose resume token still
\* works, also when the decision came between the creation of the approval and the pause,
\* which are two transactions.
THEOREM PausedTurnsResume == Spec => []PausedTurnCanResume
<1>1. TurnInv => PausedTurnCanResume
  BY DEF TurnInv
<1> QED BY <1>1, AlwaysTurnInv, PTL

-----------------------------------------------------------------------------

\* The steps that change what an owner executes together with the status of a turn
StatusByExecutor(o, t) ==
    /\ turnOwner[t] = o
    /\ status[t] \notin Terminal
    /\ exec[o].turn = t

\* What an executor does to the status of a turn, it does to the one it executes and holds.
LEMMA ExecutorChanges ==
    ASSUME TurnInv, NEW p \in Owners, ExecutorStep(p), NEW t \in Turns, status'[t] # status[t]
    PROVE  StatusByExecutor(p, t) /\ \A o \in Owners : exec'[o] # exec[o] => o = p
<1>1. ASSUME NEW outcome \in {"succeeded", "failed"}, Finish(p, outcome)
      PROVE  StatusByExecutor(p, t) /\ \A o \in Owners : exec'[o] # exec[o] => o = p
  <2>1. MayRecord(p, exec[p].turn)
    BY <1>1 DEF Finish, turnVars
  <2>2. exec[p].turn = t
    BY <1>1, <2>1 DEF Finish, TurnInv, TypeOK
  <2> QED BY <1>1, <2>1, <2>2 DEF Finish, DoneExecuting, MayRecord, StatusByExecutor, TurnInv, TypeOK
<1>2. CASE PauseTurn(p)
  <2>1. MayRecord(p, exec[p].turn)
    BY <1>2 DEF PauseTurn, turnVars
  <2>2. exec[p].turn = t
    BY <1>2, <2>1 DEF PauseTurn, turnVars, TurnInv, TypeOK
  <2> QED BY <1>2, <2>1, <2>2
          DEF PauseTurn, DoneExecuting, MayRecord, StatusByExecutor, TurnInv, TypeOK
<1>3. CASE AskApproval(p)
  BY <1>3 DEF AskApproval, turnVars
<1> QED BY <1>1, <1>2, <1>3 DEF ExecutorStep

\* A claim changes the status of a turn that waits to run, and gives it to an idle owner.
LEMMA ClaimChanges ==
    ASSUME TurnInv, NEW p \in Owners, NEW u \in Turns, exec[p].phase = "idle", Claim(p, u),
           NEW t \in Turns, status'[t] # status[t]
    PROVE  /\ status[t] \notin Terminal
           /\ \A o \in Owners : exec'[o] # exec[o] => exec[o].turn # t
<1>1. t = u
  BY DEF Claim, TurnInv, TypeOK
<1>2. \A o \in Owners : exec'[o] # exec[o] => o = p
  BY DEF Claim, TurnInv, TypeOK
<1> QED BY <1>1, <1>2, Values DEF Claim, Runnable, Terminal, TurnInv, ExecWellFormed

\* Resumes and cancellations change the status of a turn that is not over.
LEMMA ControllerChanges ==
    ASSUME TurnInv, NEW u \in Turns,
           CancelTurn(u) \/ \E i \in 0..MaxApprovals : ResumeTurn(u, i),
           NEW t \in Turns, status'[t] # status[t]
    PROVE  status[t] \notin Terminal
<1>1. CASE CancelTurn(u)
  BY <1>1 DEF CancelTurn, turnVars, TurnInv, TypeOK
<1>2. CASE \E i \in 0..MaxApprovals : ResumeTurn(u, i)
  BY <1>2 DEF ResumeTurn, Requeues, Terminal, TurnInv, TypeOK
<1> QED BY <1>1, <1>2

\* A step that changes the status of a turn finds it not over; if it is also the end of an
\* execution of the turn, the executor is the one that claimed the turn last.
LEMMA StatusChanges ==
    ASSUME TurnInv, Next, NEW t \in Turns, status'[t] # status[t]
    PROVE  /\ status[t] \notin Terminal
           /\ \A o \in Owners : exec[o].turn = t /\ exec'[o] # exec[o] => lastClaim[t] = o
<1> DEFINE Goal == /\ status[t] \notin Terminal
                   /\ \A o \in Owners :
                         exec[o].turn = t /\ exec'[o] # exec[o] => lastClaim[t] = o
<1>1. ASSUME NEW p \in Owners, ExecutorStep(p)
      PROVE  Goal
  BY <1>1, ExecutorChanges, Values DEF StatusByExecutor, TurnInv, LeaseOfLastClaim
<1>2. ASSUME NEW p \in Owners, NEW u \in Turns, exec[p].phase = "idle", Claim(p, u)
      PROVE  Goal
  BY <1>2, ClaimChanges
<1>3. ASSUME NEW u \in Turns, exec' = exec,
             CancelTurn(u) \/ \E i \in 0..MaxApprovals : ResumeTurn(u, i)
      PROVE  Goal
  BY <1>3, ControllerChanges
<1>4. ASSUME NEW u \in Turns, RequestStep(u)
      PROVE  Goal
  <2>1. CASE RequestClaims(u)
    BY <1>2, <2>1, Values DEF RequestClaims, Waiting
  <2>2. CASE RequestResolves(u)
    BY <1>3, <2>2, Values DEF RequestResolves, ResolvePaused, actorVars
  <2>3. CASE RequestEnds(u)
    BY <1>3, <2>3 DEF RequestEnds
  <2>4. CASE ExecutorStep(u)
    BY <1>1, <2>4, Values
  <2> QED BY <1>4, <2>1, <2>2, <2>3, <2>4 DEF RequestStep
<1>5. ASSUME NEW l \in Loops, LoopStep(l)
      PROVE  Goal
  <2>1. CASE LoopResolves(l)
    BY <1>3, <2>1, Values DEF LoopResolves, ResolvePaused, actorVars
  <2>2. CASE LoopScans(l)
    BY <2>2 DEF LoopScans, turnVars
  <2>3. ASSUME NEW u \in Turns, LoopClaims(l, u) \/ LoopSkips(l, u)
        PROVE  Goal
    <3>1. CASE LoopClaims(l, u)
      BY <1>2, <3>1, TryingLoopIsIdle, Values DEF LoopClaims
    <3>2. CASE LoopSkips(l, u)
      BY <3>2 DEF LoopSkips, turnVars
    <3> QED BY <2>3, <3>1, <3>2
  <2>4. CASE ExecutorStep(l)
    BY <1>1, <2>4, Values
  <2> QED BY <1>5, <2>1, <2>2, <2>3, <2>4 DEF LoopStep
<1>6. CASE Environment
  <2>1. ASSUME NEW u \in Turns, CreateTurn(u)
        PROVE  Goal
    BY <2>1 DEF CreateTurn, Terminal, TurnInv, TypeOK
  <2>2. ASSUME NEW u \in Turns, ClientCancels(u)
        PROVE  Goal
    BY <1>3, <2>2 DEF ClientCancels, actorVars
  <2>3. ASSUME NEW u \in Turns, NEW i \in ApprovalIds, EngineResumes(u, i)
        PROVE  Goal
    BY <1>3, <2>3, Values DEF EngineResumes, actorVars
  <2> QED BY <1>6, <2>1, <2>2, <2>3
          DEF Environment, RequestLost, TurnLeaseLapses, Decide, LoopRestarts, Heartbeat,
              RecordingFails, ConversationLeaseLapses, turnVars
<1> QED BY <1>4, <1>5, <1>6 DEF Next

\* An executor from which the turn was taken over, resumed or cancelled cannot change it with
\* the outcome it reports at its end.
THEOREM LateIgnored == Spec => LateOutcomeIgnored
<1>1. TurnInv /\ [Next]_vars =>
        [\A o \in Owners, t \in Turns :
            exec[o].turn = t /\ exec'[o] # exec[o] /\ status'[t] # status[t]
                => lastClaim[t] = o]_vars
  BY StatusChanges DEF vars
<1> QED BY <1>1, AlwaysTurnInv, PTL DEF Spec, LateOutcomeIgnored

\* No late outcome, token or cancellation changes a turn that succeeded, failed or was
\* cancelled.
THEOREM TerminalIsFinal == Spec => TerminalTurnIsFinal
<1>1. TurnInv /\ [Next]_vars =>
        [\A t \in Turns : status[t] \in Terminal => status'[t] = status[t]]_vars
  BY StatusChanges DEF vars
<1> QED BY <1>1, AlwaysTurnInv, PTL DEF Spec, TerminalTurnIsFinal
=============================================================================
