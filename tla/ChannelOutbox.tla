---------------------------- MODULE ChannelOutbox ----------------------------
(***************************************************************************)
(* The reply to one channel message: the turn that answers the message     *)
(* stores the reply in chunks in channel_outbox (telegram-batch-           *)
(* processor.ts), any processor of the gateway sends them                  *)
(* (telegram-processor.ts, outbox-dal.ts), and the rows leave the database *)
(* when the reply is out, or by retention (statestore/lifecycle.ts).       *)
(*                                                                         *)
(* Each action is one statement or transaction, or the external send.  The *)
(* conversation lease is in ChannelInbox; here the inbox row's own lease   *)
(* decides who answers.                                                    *)
(***************************************************************************)
EXTENDS Naturals, FiniteSets

CONSTANTS Workers,   \* channel processors, one per gateway process
          NoOwner,   \* lease_owner IS NULL
          NChunks,   \* the most chunks a reply has
          MaxFaults  \* bound: crashes, and ticks that throw

ASSUME OutboxAssumption ==
    /\ NChunks \in Nat \ {0} /\ MaxFaults \in Nat
    /\ NoOwner \notin Workers

VARIABLES
    inbox,     \* the message's row of channel_inbox
    chunk,     \* the rows of channel_outbox, by chunk_index
    approval,  \* the approval of kind connector.send
    override,  \* the conversation's send_policy override
    pc,        \* where each processor is
    at,        \* the chunk a processor is at
    plan,      \* what a processor's turn decided: its chunks and their gate
    delivered, \* history: how often the channel got each chunk
    faults     \* history: faults so far

vars == <<inbox, chunk, approval, override, pc, at, plan, delivered, faults>>

Chunks == 1..NChunks

(* `gate` says what approval_id is and why: NULL because the policy allows *)
(* the send ("open"), NULL and yet to be set ("missing"), set ("closed"),  *)
(* or NULL again ("cleared").                                              *)
Gates == {"open", "missing", "closed", "cleared"}
NoRow == [status |-> "none", owner |-> NoOwner, lapsed |-> FALSE, gate |-> "open"]
Rows == [status : {"none", "queued", "sending", "failed"}, owner : Workers \cup {NoOwner},
         lapsed : BOOLEAN, gate : Gates]
SentBy(w, r) == [r EXCEPT !.status = "sending", !.owner = w, !.lapsed = FALSE]
FailedRow(r) == [r EXCEPT !.status = "failed", !.owner = NoOwner, !.lapsed = FALSE]
OutboxEmpty == \A c \in Chunks : chunk[c].status = "none"

Answering == {"turn", "enqueue", "gate", "complete"}
Sending == {"claimed", "delivered"}

Init ==
    /\ inbox = [status |-> "queued", owner |-> NoOwner, lapsed |-> FALSE]
    /\ chunk = [c \in Chunks |-> NoRow]
    /\ approval = "none"
    /\ override = "unset"
    /\ pc = [w \in Workers |-> "idle"]
    /\ at = [w \in Workers |-> 1]
    /\ plan = [w \in Workers |-> [last |-> 1, gate |-> "open"]]
    /\ delivered = [c \in Chunks |-> 0]
    /\ faults = 0

-----------------------------------------------------------------------------
(* Answering the message. *)

MayClaimMessage == inbox.status = "queued" \/ (inbox.status = "processing" /\ inbox.lapsed)
ClaimMessage(w) ==
    /\ pc[w] = "idle"
    /\ MayClaimMessage
    /\ inbox' = [status |-> "processing", owner |-> w, lapsed |-> FALSE]
    /\ pc' = [pc EXCEPT ![w] = "turn"]
    /\ UNCHANGED <<chunk, approval, override, at, plan, delivered, faults>>

(* markCompleted and markFailed of the inbox row: only its owner's. *)
Settled(w, status) ==
    inbox' = IF inbox.status = "processing" /\ inbox.owner = w
             THEN [status |-> status, owner |-> NoOwner, lapsed |-> FALSE] ELSE inbox

(* The turn failed, or policy denies the send. *)
TurnFails(w) ==
    /\ pc[w] = "turn"
    /\ Settled(w, "failed")
    /\ pc' = [pc EXCEPT ![w] = "idle"]
    /\ UNCHANGED <<chunk, approval, override, at, plan, delivered, faults>>

(* There is nothing to send, or the operator has sending turned off. *)
NoReply(w) ==
    /\ pc[w] = "turn"
    /\ Settled(w, "completed")
    /\ pc' = [pc EXCEPT ![w] = "cleanup"]
    /\ UNCHANGED <<chunk, approval, override, at, plan, delivered, faults>>

(* The turn's reply may go out, or needs an approval; the approval's key   *)
(* names the message, so a repeated turn meets the approval of the first.  *)
Reply(w) ==
    /\ pc[w] = "turn"
    /\ override # "off"
    /\ \E last \in Chunks, gate \in {"open", "missing"} :
         /\ override = "on" => gate = "open"
         /\ plan' = [plan EXCEPT ![w] = [last |-> last, gate |-> gate]]
         /\ approval' = IF gate = "missing" /\ approval = "none" THEN "pending" ELSE approval
    /\ at' = [at EXCEPT ![w] = 1]
    /\ pc' = [pc EXCEPT ![w] = "enqueue"]
    /\ UNCHANGED <<inbox, chunk, override, delivered, faults>>

(* ON CONFLICT (tenant_id, dedupe_key) DO NOTHING. *)
TakesRow(c) == chunk[c].status = "none"

AfterEnqueue(w) == IF at[w] < plan[w].last THEN "enqueue"
                   ELSE IF plan[w].gate = "missing" THEN "gate" ELSE "complete"
Enqueue(w) ==
    /\ pc[w] = "enqueue"
    /\ inbox.status # "gone"
    /\ chunk' = IF TakesRow(at[w])
                THEN [chunk EXCEPT ![at[w]] = [status |-> "queued", owner |-> NoOwner,
                                               lapsed |-> FALSE, gate |-> plan[w].gate]]
                ELSE chunk
    /\ at' = [at EXCEPT ![w] = IF @ < plan[w].last THEN @ + 1 ELSE @]
    /\ pc' = [pc EXCEPT ![w] = AfterEnqueue(w)]
    /\ UNCHANGED <<inbox, approval, override, plan, delivered, faults>>

(* Mutant: chunks that are being sent are gated too. *)
GatedWhateverStatus(r) == IF r.status \in {"queued", "sending"} /\ r.gate # "closed"
                          THEN [r EXCEPT !.gate = "closed"] ELSE r

(* setApprovalForInbox: every chunk that is queued without an approval. *)
Gated(r) == IF r.status = "queued" /\ r.gate # "closed" THEN [r EXCEPT !.gate = "closed"] ELSE r
Gate(w) ==
    /\ pc[w] = "gate"
    /\ chunk' = [c \in Chunks |-> Gated(chunk[c])]
    /\ pc' = [pc EXCEPT ![w] = "complete"]
    /\ UNCHANGED <<inbox, approval, override, at, plan, delivered, faults>>

Complete(w) ==
    /\ pc[w] = "complete"
    /\ Settled(w, "completed")
    /\ pc' = [pc EXCEPT ![w] = "cleanup"]
    /\ UNCHANGED <<chunk, approval, override, at, plan, delivered, faults>>

(* After markCompleted and after markSent, a statement of its own: the     *)
(* completed row goes when no chunk is left.                               *)
CleanUp(w) ==
    /\ pc[w] = "cleanup"
    /\ inbox' = IF inbox.status = "completed" /\ OutboxEmpty
                THEN [inbox EXCEPT !.status = "gone"] ELSE inbox
    /\ pc' = [pc EXCEPT ![w] = "idle"]
    /\ UNCHANGED <<chunk, approval, override, at, plan, delivered, faults>>

-----------------------------------------------------------------------------
(* Sending. *)

(* clearApprovalById: only queued rows. *)
Cleared(r) == IF r.status = "queued" /\ r.gate = "closed" THEN [r EXCEPT !.gate = "cleared"] ELSE r

(* markFailedByApproval. *)
Refused(r) == IF r.status # "none" /\ r.gate = "closed" THEN FailedRow(r) ELSE r

(* processOutboxOnce looks at a chunk that waits: the operator's override  *)
(* comes first, then the approval.                                         *)
Opens == override = "on" \/ (override = "unset" /\ approval = "approved")
Refuses == override = "off" \/ (override = "unset" /\ approval = "denied")
ResolveGate(w) ==
    /\ pc[w] = "idle"
    /\ \E c \in Chunks : chunk[c].status = "queued" /\ chunk[c].gate = "closed"
    /\ \/ Opens /\ chunk' = [c \in Chunks |-> Cleared(chunk[c])]
       \/ Refuses /\ chunk' = [c \in Chunks |-> Refused(chunk[c])]
    /\ UNCHANGED <<inbox, approval, override, pc, at, plan, delivered, faults>>

(* Mutants: a chunk that is being sent is sent again; one whose sender *)
(* died is not.                                                       *)
SendableWhileSending(c) == chunk[c].gate # "closed" /\ chunk[c].status \in {"queued", "sending"}
SendableQueued(c) == chunk[c].gate # "closed" /\ chunk[c].status = "queued"

Sendable(c) == /\ chunk[c].gate # "closed"
               /\ \/ chunk[c].status = "queued"
                  \/ chunk[c].status = "sending" /\ chunk[c].lapsed

(* claimNextGlobal: the first chunk among those that can be claimed. *)
ClaimChunk(w) ==
    /\ pc[w] = "idle"
    /\ \E c \in Chunks :
         /\ Sendable(c)
         /\ \A d \in Chunks : Sendable(d) => c <= d
         /\ chunk' = [chunk EXCEPT ![c] = SentBy(w, @)]
         /\ at' = [at EXCEPT ![w] = c]
    /\ pc' = [pc EXCEPT ![w] = "claimed"]
    /\ UNCHANGED <<inbox, approval, override, plan, delivered, faults>>

(* The connector hands the chunk to the channel.  It carries no key by     *)
(* which the channel could recognise it.                                   *)
Deliver(w) ==
    /\ pc[w] = "claimed"
    /\ override # "off"
    /\ delivered' = [delivered EXCEPT ![at[w]] = @ + 1]
    /\ pc' = [pc EXCEPT ![w] = "delivered"]
    /\ UNCHANGED <<inbox, chunk, approval, override, at, plan, faults>>

Mine(w) == chunk[at[w]].status = "sending" /\ chunk[at[w]].owner = w

MarkSent(w) ==
    /\ pc[w] = "delivered"
    /\ chunk' = IF Mine(w) THEN [chunk EXCEPT ![at[w]] = NoRow] ELSE chunk
    /\ pc' = [pc EXCEPT ![w] = IF Mine(w) THEN "cleanup" ELSE "idle"]
    /\ UNCHANGED <<inbox, approval, override, at, plan, delivered, faults>>

(* The send is refused or has no connector, or its answer was an error     *)
(* although the channel took the chunk.                                    *)
MarkFailed(w) ==
    /\ pc[w] \in Sending
    /\ chunk' = IF Mine(w) THEN [chunk EXCEPT ![at[w]] = FailedRow(@)] ELSE chunk
    /\ pc' = [pc EXCEPT ![w] = "idle"]
    /\ UNCHANGED <<inbox, approval, override, at, plan, delivered, faults>>

-----------------------------------------------------------------------------
(* Faults, time, people, retention. *)

(* The process dies and comes back, or a statement of the tick throws. *)
Fails(w) ==
    /\ pc[w] # "idle"
    /\ faults < MaxFaults
    /\ faults' = faults + 1
    /\ pc' = [pc EXCEPT ![w] = "idle"]
    /\ UNCHANGED <<inbox, chunk, approval, override, at, plan, delivered>>

(* A lease runs out when nobody works under it: the inbox row's for ten    *)
(* minutes, a chunk's for one (leases that outlive the work).              *)
MessageLapses ==
    /\ inbox.status = "processing" /\ ~inbox.lapsed
    /\ pc[inbox.owner] \notin Answering
    /\ inbox' = [inbox EXCEPT !.lapsed = TRUE]
    /\ UNCHANGED <<chunk, approval, override, pc, at, plan, delivered, faults>>

ChunkLapses(c) ==
    /\ chunk[c].status = "sending" /\ ~chunk[c].lapsed
    /\ ~ \E w \in Workers : chunk[c].owner = w /\ pc[w] \in Sending /\ at[w] = c
    /\ chunk' = [chunk EXCEPT ![c].lapsed = TRUE]
    /\ UNCHANGED <<inbox, approval, override, pc, at, plan, delivered, faults>>

(* A person or the reviewer decides, or the approval expires. *)
Decide ==
    /\ approval = "pending"
    /\ approval' \in {"approved", "denied"}
    /\ UNCHANGED <<inbox, chunk, override, pc, at, plan, delivered, faults>>

OperatorSets ==
    /\ override' \in {"unset", "on", "off"}
    /\ UNCHANGED <<inbox, chunk, approval, pc, at, plan, delivered, faults>>

(* Retention: failed chunks, completed messages without chunks, failed     *)
(* messages with whatever chunks are left (ON DELETE CASCADE).             *)
PruneChunk(c) ==
    /\ chunk[c].status = "failed"
    /\ chunk' = [chunk EXCEPT ![c] = NoRow]
    /\ UNCHANGED <<inbox, approval, override, pc, at, plan, delivered, faults>>

PrunesCompleted == inbox.status = "completed" /\ OutboxEmpty
PruneMessage ==
    /\ PrunesCompleted \/ inbox.status = "failed"
    /\ inbox' = [inbox EXCEPT !.status = "gone"]
    /\ chunk' = [c \in Chunks |-> NoRow]
    /\ UNCHANGED <<approval, override, pc, at, plan, delivered, faults>>

Answer(w) == \/ ClaimMessage(w) \/ TurnFails(w) \/ NoReply(w) \/ Reply(w)
             \/ Enqueue(w) \/ Gate(w) \/ Complete(w) \/ CleanUp(w)
Send(w) == ResolveGate(w) \/ ClaimChunk(w) \/ Deliver(w) \/ MarkSent(w) \/ MarkFailed(w)

Next == \/ \E w \in Workers : Answer(w) \/ Send(w) \/ Fails(w)
        \/ MessageLapses
        \/ \E c \in Chunks : ChunkLapses(c) \/ PruneChunk(c)
        \/ Decide \/ OperatorSets \/ PruneMessage

Spec == Init /\ [][Next]_vars

(* The interval timer runs the ticks; a tick runs to its end; time passes, *)
(* so approvals expire and retention runs.                                 *)
Fairness ==
    /\ \A w \in Workers :
         /\ WF_vars(ClaimMessage(w)) /\ WF_vars(TurnFails(w)) /\ WF_vars(Enqueue(w))
         /\ WF_vars(Gate(w)) /\ WF_vars(Complete(w)) /\ WF_vars(CleanUp(w))
         /\ WF_vars(ResolveGate(w)) /\ WF_vars(ClaimChunk(w))
         /\ WF_vars(MarkSent(w) \/ MarkFailed(w))
    /\ WF_vars(MessageLapses) /\ WF_vars(Decide) /\ WF_vars(PruneMessage)
    /\ \A c \in Chunks : WF_vars(ChunkLapses(c)) /\ WF_vars(PruneChunk(c))

FairSpec == Spec /\ Fairness

-----------------------------------------------------------------------------
(* Properties. *)

TypeOK ==
    /\ inbox \in [status : {"queued", "processing", "completed", "failed", "gone"},
                  owner : Workers \cup {NoOwner}, lapsed : BOOLEAN]
    /\ chunk \in [Chunks -> Rows]
    /\ approval \in {"none", "pending", "approved", "denied"}
    /\ override \in {"unset", "on", "off"}
    /\ pc \in [Workers -> {"idle", "cleanup"} \cup Answering \cup Sending]
    /\ at \in [Workers -> Chunks]
    /\ plan \in [Workers -> [last : Chunks, gate : {"open", "missing"}]]
    /\ delivered \in [Chunks -> Nat]
    /\ faults \in Nat

(* The channel gets a chunk twice only where a process died or a tick      *)
(* threw: processors, takeovers of messages and chunks, retention and      *)
(* repeated turns do not by themselves send a chunk again.                 *)
DuplicatesNeedFaults == \A c \in Chunks : delivered[c] <= 1 + faults

(* A chunk that waits for its approval is in nobody's hands, so that the   *)
(* refusal, which spares no row with its approval, cannot meet a chunk     *)
(* that is being sent (markFailedByApproval, claimNextGlobal).             *)
GatedIsNotSent == \A c \in Chunks : chunk[c].gate = "closed" => chunk[c].status # "sending"

(* The message and its chunks leave the database whatever fails: sent,     *)
(* failed or refused, then by the last processor or by retention.          *)
MessageLeaves == <>(inbox.status = "gone" /\ OutboxEmpty)

(* Does not hold (README, section 4).                                      *)
(* docs/architecture/agent/messages/flow-control-delivery.md:74, "risky    *)
(* sends remain approval-gated": a chunk whose send needs an approval does *)
(* not reach the channel before it has one and was released.               *)
RiskySendIsApproved ==
    [][\A c \in Chunks : delivered'[c] # delivered[c] => chunk[c].gate # "missing"]_vars
=============================================================================
