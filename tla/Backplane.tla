------------------------------ MODULE Backplane ------------------------------
(***************************************************************************)
(* The cluster's durable outbox (modules/backplane): every edge process    *)
(* inserts rows for another edge or for all of them, polls the rows above  *)
(* its own cursor, processes them in id order and acknowledges each        *)
(* (outbox-dal.ts, outbox-poller.ts).  A lifecycle tick deletes old rows   *)
(* and idle consumers (outbox-lifecycle.ts).                               *)
(*                                                                         *)
(* A composing module says what a row holds and what processing it does.   *)
(* Ids come from a Postgres sequence: an insert takes its id before it     *)
(* commits, so rows may become visible out of id order.  An edge's name is *)
(* drawn at start (gw-<uuid>), so a crashed edge never returns.            *)
(***************************************************************************)
EXTENDS Naturals

CONSTANTS Edges,     \* the gateway processes with role edge
          Everyone,  \* target_edge_id IS NULL
          MaxExtra   \* bound: faults, compactions, broadcasts, lost sockets

ASSUME BackplaneAssumption == Everyone \notin Edges /\ MaxExtra \in Nat

VARIABLES
    live,      \* the edges that run
    nextId,    \* outbox_id_seq
    writing,   \* rows with an id whose insert has not committed
    rows,      \* the outbox table
    cursor,    \* outbox_consumers.last_outbox_id, 0 without a row
    ackedAt,   \* outbox_consumers.updated_at, in ids given out by then
    batch,     \* the rows a poll returned and its tick has not acknowledged
    done,      \* the first of them is processed
    processed, \* history: ids each edge has processed
    overtaken, \* history: ids that committed after a higher one
    faults,    \* history: crashes, failed writes, rows pruned unread
    extra      \* how many of what MaxExtra bounds there were

outboxVars == <<live, nextId, writing, rows, cursor, ackedAt, batch, done,
                processed, overtaken, faults, extra>>
pollerVars == <<cursor, ackedAt, batch, done, processed>>

BackplaneInit ==
    /\ live = Edges
    /\ nextId = 1
    /\ writing = {} /\ rows = {}
    /\ cursor = [e \in Edges |-> 0] /\ ackedAt = [e \in Edges |-> 0]
    /\ batch = [e \in Edges |-> {}] /\ done = [e \in Edges |-> FALSE]
    /\ processed = [e \in Edges |-> {}]
    /\ overtaken = {}
    /\ faults = 0 /\ extra = 0

Spends == extra < MaxExtra /\ extra' = extra + 1
Fails == Spends /\ faults' = faults + 1

(* enqueue: the sequence gives the id, the commit comes later. *)
Put(from, to, body) ==
    /\ writing' = writing \cup {[id |-> nextId, from |-> from, to |-> to, body |-> body]}
    /\ nextId' = nextId + 1

Given == 1..(nextId - 1)
Commit(r) ==
    /\ r \in writing
    /\ rows' = rows \cup {r}
    /\ writing' = writing \ {r}
    /\ overtaken' = IF \E i \in Given : i > r.id /\ \A q \in writing : q.id # i
                    THEN overtaken \cup {r.id} ELSE overtaken
    /\ UNCHANGED <<live, nextId, pollerVars, faults, extra>>

(* The insert of a crashed edge may never commit. *)
Rollback(r) ==
    /\ r \in writing /\ r.from \notin live
    /\ writing' = writing \ {r}
    /\ UNCHANGED <<live, nextId, rows, pollerVars, overtaken, faults, extra>>

IsFor(r, e) == r.to \in {e, Everyone}
Unread(e) == {r \in rows : IsFor(r, e) /\ r.id > cursor[e]}

(* One tick polls once; the next starts when the batch is dealt with. *)
Poll(e) ==
    /\ e \in live /\ batch[e] = {}
    /\ Unread(e) # {}
    /\ batch' = [batch EXCEPT ![e] = Unread(e)]
    /\ UNCHANGED <<live, nextId, writing, rows, cursor, ackedAt, done, processed, overtaken,
                   faults, extra>>

(* The batch is in id order. *)
First(e, r) == r \in batch[e] /\ \A q \in batch[e] : r.id <= q.id
Processes(e, r) ==
    /\ e \in live /\ ~done[e]
    /\ First(e, r)
    /\ done' = [done EXCEPT ![e] = TRUE]
    /\ processed' = [processed EXCEPT ![e] = @ \cup {r.id}]
    /\ UNCHANGED <<live, nextId, writing, rows, cursor, ackedAt, batch, overtaken, faults, extra>>

(* Mutant: the first acknowledgement covers the whole batch. *)
AckedToEnd(e, r) == CHOOSE i \in Given : (\E q \in batch[e] : q.id = i) /\ \A q \in batch[e] : q.id <= i
AckedTo(e, r) == r.id
Ack(e, r) ==
    /\ e \in live /\ done[e]
    /\ First(e, r)
    /\ cursor' = [cursor EXCEPT ![e] = AckedTo(e, r)]
    /\ ackedAt' = [ackedAt EXCEPT ![e] = nextId]
    /\ batch' = [batch EXCEPT ![e] = @ \ {r}]
    /\ done' = [done EXCEPT ![e] = FALSE]
    /\ UNCHANGED <<live, nextId, writing, rows, processed, overtaken, faults, extra>>

(* A failed acknowledgement ends the tick, and the row is read again. *)
AckFails(e) ==
    /\ e \in live /\ done[e]
    /\ Fails
    /\ batch' = [batch EXCEPT ![e] = {}]
    /\ done' = [done EXCEPT ![e] = FALSE]
    /\ UNCHANGED <<live, nextId, writing, rows, cursor, ackedAt, processed, overtaken>>

(* runCompaction: consumers idle and rows older than one cutoff, which     *)
(* falls after the creation of row cutoff - 1; `late` says that it also    *)
(* falls after the acknowledgements made before row cutoff.                *)
(* Mutant: an active consumer is dropped as well. *)
EveryConsumer(cutoff, late) == {e \in Edges : cursor[e] > 0}
Idle(cutoff, late) ==
    {e \in Edges : cursor[e] > 0 /\ (ackedAt[e] < cutoff \/ (late /\ ackedAt[e] = cutoff))}
UnreadBy(r, e) == e \in live /\ IsFor(r, e) /\ r.id \notin processed[e]
Prune(cutoff, late) ==
    LET old == {r \in rows : r.id < cutoff}
        idle == Idle(cutoff, late)
    IN /\ cutoff \in 2..nextId
       /\ old # {} \/ idle # {}
       /\ rows' = rows \ old
       /\ cursor' = [e \in Edges |-> IF e \in idle THEN 0 ELSE cursor[e]]
       /\ ackedAt' = [e \in Edges |-> IF e \in idle THEN 0 ELSE ackedAt[e]]
       /\ Spends
       /\ faults' = IF \E r \in old, e \in Edges : UnreadBy(r, e) THEN faults + 1 ELSE faults
       /\ UNCHANGED <<live, nextId, writing, batch, done, processed, overtaken>>

Stops(e) ==
    /\ e \in live
    /\ Fails
    /\ live' = live \ {e}
    /\ batch' = [batch EXCEPT ![e] = {}]
    /\ done' = [done EXCEPT ![e] = FALSE]
    /\ UNCHANGED <<nextId, writing, rows, cursor, ackedAt, processed, overtaken>>

-----------------------------------------------------------------------------
Row(r) == /\ r.id \in Given
          /\ r.from \in Edges
          /\ r.to \in Edges \cup {Everyone}
BackplaneTypeOK ==
    /\ live \subseteq Edges
    /\ nextId \in Nat \ {0}
    /\ \A r \in rows \cup writing : Row(r)
    /\ cursor \in [Edges -> Nat] /\ ackedAt \in [Edges -> Nat]
    /\ done \in [Edges -> BOOLEAN]
    /\ \A e \in Edges : processed[e] \subseteq Given
    /\ overtaken \subseteq Given
    /\ faults \in Nat /\ extra \in Nat

Skipped(r, e) == /\ r \in rows /\ e \in live /\ IsFor(r, e)
                 /\ r.id <= cursor[e] /\ r.id \notin processed[e]

(* A cursor never passes a row its edge has not processed, unless the row  *)
(* became visible after a higher one (poll, ackConsumerCursor: acknowledge *)
(* after processing, row by row, also when the tick stops halfway).        *)
OnlyOvertakenSkipped ==
    \A r \in rows, e \in Edges : Skipped(r, e) => r.id \in overtaken

(* Does not hold (README, section 4).                                      *)
(* Every row a poller's cursor has passed was processed: delivery at least *)
(* once, for rows of concurrent inserts too (poll: id > last_outbox_id).   *)
NothingSkipped == \A r \in rows, e \in Edges : ~Skipped(r, e)

(* No row is processed twice by an edge unless an acknowledgement failed:  *)
(* a consumer that is pruned for being idle starts again at 0, and finds   *)
(* none of the rows it had acknowledged (outbox-lifecycle.ts prunes both   *)
(* by the same cutoff in one transaction).                                 *)
NoReplay ==
    [][\A e \in Edges : \A r \in batch[e] :
        faults = 0 /\ Processes(e, r) => r.id \notin processed[e]]_outboxVars
=============================================================================
