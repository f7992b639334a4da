---------------------------- MODULE ChannelInbox ----------------------------
(***************************************************************************)
(* The inbound queue of one conversation of a chat channel: webhooks and   *)
(* pollers store messages (telegram-queue.ts, inbox-dal*.ts), the channel  *)
(* processors of the gateway processes claim them, collect bursts, run a   *)
(* turn under the conversation lease and record the outcome                *)
(* (telegram-processor.ts, telegram-batch-processor.ts).  While a turn is  *)
(* active a message may steer or interrupt it through a signal row         *)
(* (queue-signal-dal.ts) that the turn reads at its tool boundaries.       *)
(*                                                                         *)
(* Each action is one transaction or statement.  The live rows are a set;  *)
(* the field `at` of a row is its place in the order (received_at_ms,      *)
(* inbox_id).                                                              *)
(***************************************************************************)
EXTENDS Naturals, FiniteSets

CONSTANTS Messages,        \* the provider messages, numbered
          Modes,           \* queue modes a message may arrive with
          Workers,         \* channel processors, one per gateway process
          NoOwner,         \* lease_owner IS NULL
          NoSignal,        \* no row in conversation_queue_signals
          Cap,             \* inboundQueueCap
          Policies,        \* values inboundQueueOverflowPolicy may have
          MaxBatch,        \* maxBatch
          MaxFaults,       \* bound: crashes and ticks that throw
          LeaseMayLapse    \* may a lease run out under a live holder?

ASSUME ChannelInboxAssumption ==
    /\ Messages \subseteq Nat
    /\ Cap \in Nat \ {0} /\ MaxBatch \in Nat \ {0}
    /\ MaxFaults \in Nat
    /\ LeaseMayLapse \in BOOLEAN
    /\ Policies \subseteq {"drop_oldest", "drop_newest", "summarize_dropped"}
    /\ NoOwner \notin Workers

VARIABLES
    policy,     \* the configured inboundQueueOverflowPolicy
    queue,      \* live rows of channel_inbox
    nextId,     \* the next inbox_id
    seen,       \* messages with a row in channel_inbound_dedupe
    arrival,    \* what the request that delivered a message still has to do
    convOwner,  \* conversation_leases.lease_owner
    convLapsed, \* lease_expires_at_ms <= now
    signal,     \* the conversation's row of conversation_queue_signals
    pc,         \* where each processor's tick is
    batch,      \* rows a processor works on
    listed,     \* inbox_ids listed for the batch and not claimed yet
    outcome,    \* how the processor's turn ended
    fate,       \* history: what became of a message
    faults      \* history: faults so far

rowVars == <<queue, nextId, seen>>
leaseVars == <<convOwner, convLapsed>>
workVars == <<pc, batch, listed, outcome>>
vars == <<policy, rowVars, arrival, leaseVars, signal, workVars, fate, faults>>

Working == {"leased", "listed", "running", "ending"}

Row(id, at, msgs, mode) ==
    [id |-> id, at |-> at, msgs |-> msgs, mode |-> mode,
     status |-> "queued", owner |-> NoOwner, lapsed |-> FALSE]

Queued(rows) == {r \in rows : r.status = "queued"}
Ids(rows) == {r.id : r \in rows}
Covered(rows) == UNION {r.msgs : r \in rows}
Owns(w, r) == r.owner = w /\ r.status = "processing"

(* The n oldest of some rows, and the newest. *)
Oldest(n, rows) == {r \in rows : Cardinality({x \in rows : x.at < r.at}) < n}
Newest(rows) == CHOOSE r \in rows : \A x \in rows : x.at <= r.at

Init ==
    /\ policy \in Policies
    /\ queue = {}
    /\ nextId = 1
    /\ seen = {}
    /\ arrival = [m \in Messages |-> [step |-> "idle", id |-> 0, mode |-> "collect"]]
    /\ convOwner = NoOwner
    /\ convLapsed = FALSE
    /\ signal = NoSignal
    /\ pc = [w \in Workers |-> "idle"]
    /\ batch = [w \in Workers |-> {}]
    /\ listed = [w \in Workers |-> {}]
    /\ outcome = [w \in Workers |-> "none"]
    /\ fate = [m \in Messages |-> "none"]
    /\ faults = 0

-----------------------------------------------------------------------------
(* Arrival of messages. *)

(* Mutant: the summary forgets all but the newest row. *)
SummaryCoversNewest(rows) == Newest(rows).msgs

(* What a summary row stands for: every message of the rows it replaces. *)
SummaryCovers(rows) == Covered(rows)

(* Which of the queued rows an overflow removes. *)
OverflowRows(q) ==
    LET rows == Queued(q)
        over == Cardinality(rows) - Cap
    IN IF Cardinality(rows) <= Cap THEN {}
       ELSE CASE policy = "drop_oldest" -> Oldest(over, rows)
              [] policy = "drop_newest" -> rows \ Oldest(Cap, rows)
              [] policy = "summarize_dropped" -> Oldest(over + 1, rows)

(* The queue after the overflow policy: the dropped rows are gone, and the *)
(* summary, which gets the time of the newest dropped row, takes its place. *)
AfterOverflow(q, dropped) ==
    (q \ dropped) \cup
       (IF dropped = {} \/ policy # "summarize_dropped" THEN {}
        ELSE {Row(nextId + 1, Newest(dropped).at, SummaryCovers(dropped), "followup")})

(* Mutant: a message is taken in again. *)
TakesDedupeAlways(m) == TRUE

(* Does the delivery take the dedupe row of its message? *)
TakesDedupe(m) == m \notin seen

(* The provider delivers a message, for the first time or again: one       *)
(* transaction takes the dedupe row, stores the message and applies the    *)
(* overflow policy.                                                        *)
Receive(m) ==
    /\ arrival[m].step = "idle"
    /\ IF TakesDedupe(m)
       THEN \E mode \in Modes :
            LET q == queue \cup {Row(nextId, nextId, {m}, mode)}
                dropped == OverflowRows(q)
                queueAfter == AfterOverflow(q, dropped)
            IN /\ queue' = queueAfter
               /\ nextId' = nextId + 2
               /\ seen' = seen \cup {m}
               /\ fate' = [x \in Messages |->
                             IF x \in Covered(dropped) \ Covered(queueAfter)
                             THEN "dropped" ELSE fate[x]]
               /\ arrival' = [arrival EXCEPT ![m] =
                     IF nextId \in Ids(queueAfter)
                     THEN [step |-> "stored", id |-> nextId, mode |-> mode] ELSE @]
       ELSE UNCHANGED <<rowVars, fate, arrival>>
    /\ UNCHANGED <<policy, leaseVars, signal, workVars, faults>>

(* The request reads the conversation lease: only a message that meets an  *)
(* active turn, in one of these modes, raises a signal.                    *)
Signals(mode) == mode \in {"steer", "steer_backlog", "interrupt"}
LooksForActiveTurn(m) ==
    /\ arrival[m].step = "stored"
    /\ arrival' = [arrival EXCEPT ![m].step =
          IF convOwner # NoOwner /\ ~convLapsed /\ Signals(arrival[m].mode)
          THEN "raise" ELSE "idle"]
    /\ UNCHANGED <<rowVars, leaseVars, signal, workVars, fate, policy, faults>>

(* The second transaction of the request: it raises the signal, and an     *)
(* interrupting message also deletes what else is queued.                  *)
RaiseSignal(m) ==
    /\ arrival[m].step = "raise"
    /\ signal' = [kind |-> IF arrival[m].mode = "interrupt" THEN "interrupt" ELSE "steer",
                  id |-> arrival[m].id, mode |-> arrival[m].mode]
    /\ LET purged == {r \in Queued(queue) :
                        arrival[m].mode = "interrupt" /\ r.id # arrival[m].id}
       IN /\ queue' = queue \ purged
          /\ fate' = [x \in Messages |-> IF x \in Covered(purged) THEN "superseded"
                                         ELSE fate[x]]
    /\ arrival' = [arrival EXCEPT ![m].step = "idle"]
    /\ UNCHANGED <<nextId, seen, leaseVars, workVars, policy, faults>>

-----------------------------------------------------------------------------
(* A tick of a processor. *)

(* Mutant: the work of a dead processor is never taken over. *)
ClaimableQueuedOnly(r) == r.status = "queued"

Claimable(r) == r.status = "queued" \/ (r.status = "processing" /\ r.lapsed)
ClaimedBy(w, r) == [r EXCEPT !.status = "processing", !.owner = w, !.lapsed = FALSE]

(* claimNext: the oldest row that is queued or whose lease ran out. *)
ClaimNext(w) ==
    /\ pc[w] = "idle"
    /\ \E r \in queue :
         /\ Claimable(r)
         /\ \A x \in queue : Claimable(x) => r.at <= x.at
         /\ queue' = (queue \ {r}) \cup {ClaimedBy(w, r)}
         /\ batch' = [batch EXCEPT ![w] = {ClaimedBy(w, r)}]
    /\ pc' = [pc EXCEPT ![w] = "claimed"]
    /\ UNCHANGED <<nextId, seen, arrival, leaseVars, signal, listed, outcome, fate, policy, faults>>

(* Mutant: the owner is not compared. *)
MayTakeConversationAlways(w) == TRUE

(* tryAcquireConversationLease: free, lapsed, or already this process's. *)
MayTakeConversation(w) == convOwner \in {NoOwner, w} \/ convLapsed

AcquireConversation(w) ==
    /\ pc[w] = "claimed"
    /\ MayTakeConversation(w)
    /\ convOwner' = w
    /\ convLapsed' = FALSE
    /\ pc' = [pc EXCEPT ![w] = "leased"]
    /\ UNCHANGED <<rowVars, arrival, signal, batch, listed, outcome, fate, policy, faults>>

(* Another processor has the conversation: the claimed row goes back. *)
Requeue(w) ==
    /\ pc[w] = "claimed"
    /\ ~MayTakeConversation(w)
    /\ queue' = {IF r.id \in Ids(batch[w]) /\ Owns(w, r)
                 THEN [r EXCEPT !.status = "queued", !.owner = NoOwner] ELSE r : r \in queue}
    /\ batch' = [batch EXCEPT ![w] = {}]
    /\ pc' = [pc EXCEPT ![w] = "idle"]
    /\ UNCHANGED <<nextId, seen, arrival, leaseVars, signal, listed, outcome, fate, policy, faults>>

(* claimDebouncedBatch lists the collected messages queued behind a        *)
(* collected leader (the batch so far), as far as the debounce window      *)
(* reaches.                                                                *)
ListBatch(w) ==
    /\ pc[w] = "leased"
    /\ \E leader \in batch[w], n \in 0..(MaxBatch - 1) :
         LET rest == {r \in Queued(queue) : r.mode = "collect" /\ r.id > leader.id}
         IN /\ n <= Cardinality(rest)
            /\ leader.mode # "collect" => n = 0
            /\ listed' = [listed EXCEPT ![w] = Ids(Oldest(n, rest))]
    /\ pc' = [pc EXCEPT ![w] = "listed"]
    /\ UNCHANGED <<rowVars, arrival, leaseVars, signal, batch, outcome, fate, policy, faults>>

(* claimBatchByIds: the listed rows that are still queued join the batch;  *)
(* the turn begins.                                                        *)
StillFree(r) == r.status = "queued"
ClaimBatch(w) ==
    /\ pc[w] = "listed"
    /\ LET joining == {r \in queue : r.id \in listed[w] /\ StillFree(r)}
           claimed == {ClaimedBy(w, r) : r \in joining}
       IN /\ queue' = (queue \ joining) \cup claimed
          /\ batch' = [batch EXCEPT ![w] = @ \cup claimed]
    /\ listed' = [listed EXCEPT ![w] = {}]
    /\ pc' = [pc EXCEPT ![w] = "running"]
    /\ UNCHANGED <<nextId, seen, arrival, leaseVars, signal, outcome, fate, policy, faults>>

(* The turn claims the signal at a tool boundary.  An interruption ends    *)
(* the turn; a steering text joins it, and the row of a message that only  *)
(* steers is deleted.                                                      *)
ClaimSignal(w) ==
    /\ pc[w] = "running"
    /\ signal # NoSignal
    /\ signal' = NoSignal
    /\ IF signal.kind = "interrupt"
       THEN /\ pc' = [pc EXCEPT ![w] = "ending"]
            /\ outcome' = [outcome EXCEPT ![w] = "interrupted"]
            /\ UNCHANGED <<queue, fate>>
       ELSE LET steered == {r \in queue : r.id = signal.id /\ signal.mode = "steer"}
            IN /\ queue' = queue \ steered
               /\ fate' = [x \in Messages |-> IF x \in Covered(steered) THEN "injected"
                                              ELSE fate[x]]
               /\ UNCHANGED <<pc, outcome>>
    /\ UNCHANGED <<nextId, seen, arrival, leaseVars, batch, listed, policy, faults>>

(* The turn ends with a reply, or fails (or its reply may not be sent). *)
EndTurn(w) ==
    /\ pc[w] = "running"
    /\ \E result \in {"answered", "failed"} : outcome' = [outcome EXCEPT ![w] = result]
    /\ pc' = [pc EXCEPT ![w] = "ending"]
    /\ UNCHANGED <<rowVars, arrival, leaseVars, signal, batch, listed, fate, policy, faults>>

(* markCompleted or markFailed, row by row from the first stored: only a   *)
(* row that is still this processor's leaves the queue.                    *)
MarkRow(w) ==
    /\ pc[w] = "ending"
    /\ \E r \in batch[w] :
         LET mine == {x \in queue : x.id = r.id /\ Owns(w, x)}
         IN /\ \A x \in batch[w] : r.id <= x.id
            /\ queue' = queue \ mine
            /\ fate' = [x \in Messages |-> IF x \in Covered(mine) THEN outcome[w] ELSE fate[x]]
            /\ batch' = [batch EXCEPT ![w] = @ \ {r}]
    /\ UNCHANGED <<nextId, seen, arrival, leaseVars, signal, pc, listed, outcome, policy, faults>>

(* releaseConversationLease: whoever deletes the lease clears the signal.  *)
ReleasedLease(w) ==
    IF convOwner = w
    THEN /\ convOwner' = NoOwner /\ convLapsed' = FALSE /\ signal' = NoSignal
    ELSE UNCHANGED <<leaseVars, signal>>

LeavesTick(w, to) ==
    /\ pc' = [pc EXCEPT ![w] = to]
    /\ batch' = [batch EXCEPT ![w] = {}]
    /\ listed' = [listed EXCEPT ![w] = {}]
    /\ outcome' = [outcome EXCEPT ![w] = "none"]

EndTick(w) ==
    /\ pc[w] = "ending" /\ batch[w] = {}
    /\ ReleasedLease(w)
    /\ LeavesTick(w, "idle")
    /\ UNCHANGED <<rowVars, arrival, fate, policy, faults>>

(* A statement throws: the tick gives the lease back, its rows stay        *)
(* `processing` until their leases run out.                                *)
TickThrows(w) ==
    /\ pc[w] \in Working
    /\ faults < MaxFaults
    /\ faults' = faults + 1
    /\ ReleasedLease(w)
    /\ LeavesTick(w, "idle")
    /\ UNCHANGED <<rowVars, arrival, policy, fate>>

(* The process dies within a tick.  A restarted one has a new instance id, *)
(* so this one never ticks again; some process always remains.             *)
Crash(w) ==
    /\ pc[w] \notin {"idle", "dead"}
    /\ \E v \in Workers \ {w} : pc[v] # "dead"
    /\ faults < MaxFaults
    /\ faults' = faults + 1
    /\ LeavesTick(w, "dead")
    /\ UNCHANGED <<rowVars, arrival, leaseVars, signal, policy, fate>>

-----------------------------------------------------------------------------
(* Time. *)

RowLapses ==
    /\ \E r \in queue :
         /\ r.status = "processing" /\ ~r.lapsed
         /\ LeaseMayLapse \/ r.id \notin Ids(batch[r.owner])
         /\ queue' = (queue \ {r}) \cup {[r EXCEPT !.lapsed = TRUE]}
    /\ UNCHANGED <<nextId, seen, arrival, leaseVars, signal, workVars, fate, policy, faults>>

ConversationLapses ==
    /\ convOwner # NoOwner /\ ~convLapsed
    /\ LeaseMayLapse \/ pc[convOwner] \notin Working
    /\ convLapsed' = TRUE
    /\ UNCHANGED <<rowVars, arrival, convOwner, signal, workVars, fate, policy, faults>>

Arrival(m) == Receive(m) \/ LooksForActiveTurn(m) \/ RaiseSignal(m)
Tick(w) == \/ ClaimNext(w) \/ AcquireConversation(w) \/ Requeue(w)
           \/ ListBatch(w) \/ ClaimBatch(w) \/ ClaimSignal(w) \/ EndTurn(w)
           \/ MarkRow(w) \/ EndTick(w)
Faulty(w) == TickThrows(w) \/ Crash(w)

Next == \/ \E m \in Messages : Arrival(m)
        \/ \E w \in Workers : Tick(w) \/ Faulty(w)
        \/ RowLapses
        \/ ConversationLapses

Spec == Init /\ [][Next]_vars

(* Ticks are driven by an interval timer, so every step that is possible   *)
(* for long is taken; requests run to their end; time passes.              *)
Fairness ==
    /\ \A w \in Workers :
         /\ WF_vars(ClaimNext(w)) /\ WF_vars(AcquireConversation(w)) /\ WF_vars(Requeue(w))
         /\ WF_vars(ListBatch(w)) /\ WF_vars(ClaimBatch(w)) /\ WF_vars(EndTurn(w))
         /\ WF_vars(MarkRow(w)) /\ WF_vars(EndTick(w))
    /\ WF_vars(RowLapses) /\ WF_vars(ConversationLapses)

FairSpec == Spec /\ Fairness

-----------------------------------------------------------------------------
(* Properties. *)

(* Types, and the shape of a processor's work in each of its states. *)
TypeOK ==
    /\ \A r \in queue :
         /\ r.id \in 1..nextId
         /\ r.msgs \in SUBSET seen
         /\ r.status \in {"queued", "processing"}
         /\ (r.status = "processing") = (r.owner # NoOwner)
    /\ \A r, x \in queue : r.id = x.id \/ r.at = x.at => r = x
    /\ convOwner \in Workers \cup {NoOwner} /\ convLapsed \in BOOLEAN
    /\ \A w \in Workers :
         /\ pc[w] \in {"idle", "claimed", "dead"} \cup Working
         /\ (pc[w] \in {"idle", "dead"}) => batch[w] = {}
         /\ (pc[w] \in {"claimed", "leased", "listed", "running"}) => batch[w] # {}
    /\ fate \in [Messages -> {"none", "answered", "failed", "injected", "interrupted",
                              "superseded", "dropped"}]

(* At most one processor runs a turn of the conversation, as long as       *)
(* leases outlive the work (telegram-processor.ts tick).                   *)
OneTurnAtATime ==
    \A v, w \in Workers : pc[v] \in Working /\ pc[w] \in Working => v = w

(* A message that was taken in (it has a dedupe row, so no redelivery will *)
(* bring it back) is in the queue, in itself or in a summary, or something *)
(* is known to have become of it; and only the policies that drop messages *)
(* let the overflow lose one (applyInboundQueueOverflowPolicy).            *)
Accounted ==
    \A m \in seen :
        /\ m \in Covered(queue) \/ fate[m] # "none"
        /\ fate[m] = "dropped" => policy # "summarize_dropped"

(* A message that was dealt with is not dealt with again: neither a second *)
(* delivery nor the takeover of a dead processor's rows brings it back.    *)
SettledOnce ==
    [][\A m \in Messages : fate[m] # "none" => fate'[m] = fate[m]]_vars

(* Every message that was taken in is settled, after crashes and ticks     *)
(* that throw too.                                                         *)
EveryMessageSettles == \A m \in Messages : (m \in seen) ~> (fate[m] # "none")

(* Does not hold (README, section 4): a turn is cut short or steered only  *)
(* by a message that is not its own.                                       *)
SignalsComeFromOthers ==
    [][\A w \in Workers :
         (pc[w] = "running" /\ outcome'[w] = "interrupted")
            => signal.id \notin Ids(batch[w])]_vars
=============================================================================
