-------------------------- MODULE NodeDispatchProofs --------------------------
(***************************************************************************)
(* Proofs, for any number of edges, calls, connections and faults: the     *)
(* backplane under node dispatch skips a row only when its insert became   *)
(* visible after a higher id, and processes none twice without a fault;    *)
(* what a caller gets is what the node answered, and on record.            *)
(***************************************************************************)
EXTENDS NodeDispatch, TLAPS

OutboxTypes ==
    /\ nextId \in Nat \ {0}
    /\ cursor \in [Edges -> Nat]
    /\ batch = [e \in Edges |-> batch[e]]
    /\ done \in [Edges -> BOOLEAN]
    /\ processed = [e \in Edges |-> processed[e]]

(* An id belongs to one row, and to none that is still being written once  *)
(* a poll or a cursor has seen it.                                         *)
OneRowPerId ==
    /\ \A r \in rows \cup writing : r.id \in Given
    /\ \A q, r \in rows \cup writing : q.id = r.id => q = r
    /\ rows \cap writing = {}
BatchesAreCommitted ==
    \A e \in Edges : \A r \in batch[e] :
        /\ r.id \in Given /\ r \notin writing
        /\ \A q \in rows \cup writing \cup batch[e] : q.id = r.id => q = r
CursorsAreCommitted ==
    \A e \in Edges : cursor[e] = 0 \/ (cursor[e] \in Given /\ \A q \in writing : q.id # cursor[e])

(* The row an edge is about to acknowledge is processed. *)
DoneIsProcessed ==
    \A e \in Edges : done[e] => \E r \in batch[e] : First(e, r) /\ r.id \in processed[e]

(* A row an edge has not processed is above its cursor, and in its batch   *)
(* unless the whole batch is below the row.                                *)
IsAhead(r, e) ==
    /\ cursor[e] < r.id
    /\ r \in batch[e] \/ \A q \in batch[e] : q.id < r.id
UnprocessedIsAhead ==
    \A r \in rows, e \in Edges :
        UnreadBy(r, e) /\ r.id \notin overtaken => IsAhead(r, e)

OutboxInv == /\ OutboxTypes /\ OneRowPerId /\ BatchesAreCommitted /\ CursorsAreCommitted
             /\ DoneIsProcessed /\ UnprocessedIsAhead

USE DEF OutboxTypes, Given
-----------------------------------------------------------------------------

(* Steps that do not touch the outbox. *)
LEMMA QuietStep ==
    ASSUME OutboxInv, UNCHANGED <<live, nextId, writing, rows, pollerVars, overtaken>>
    PROVE  OutboxInv'
BY DEF OutboxInv, pollerVars, OneRowPerId, BatchesAreCommitted, CursorsAreCommitted,
       DoneIsProcessed, UnprocessedIsAhead, IsAhead, UnreadBy, IsFor, First

(* An insert takes a fresh id. *)
LEMMA PutStep ==
    ASSUME OutboxInv, NEW from, NEW to, NEW body, Put(from, to, body),
           UNCHANGED <<live, rows, pollerVars, overtaken>>
    PROVE  OutboxInv'
<1> DEFINE new == [id |-> nextId, from |-> from, to |-> to, body |-> body]
<1>1. /\ new.id = nextId
      /\ writing' = writing \cup {new}
      /\ nextId' = nextId + 1
      /\ UNCHANGED <<live, rows, cursor, ackedAt, batch, done, processed, overtaken>>
  BY DEF Put, pollerVars
<1> HIDE DEF new
<1>2. OutboxTypes' /\ DoneIsProcessed' /\ UnprocessedIsAhead'
  BY <1>1 DEF OutboxInv, DoneIsProcessed, UnprocessedIsAhead, IsAhead, UnreadBy, IsFor, First
<1>3. OneRowPerId'
  BY <1>1 DEF OutboxInv, OneRowPerId
<1>4. BatchesAreCommitted'
  BY <1>1 DEF OutboxInv, BatchesAreCommitted
<1>5. CursorsAreCommitted'
  BY <1>1 DEF OutboxInv, CursorsAreCommitted
<1>6. QED
  BY <1>2, <1>3, <1>4, <1>5 DEF OutboxInv

(* A commit that is not overtaken is above every cursor and every batch. *)
LEMMA CommitStep ==
    ASSUME OutboxInv, NEW r \in writing, Commit(r)
    PROVE  OutboxInv'
<1>1. /\ rows' = rows \cup {r} /\ writing' = writing \ {r}
      /\ UNCHANGED <<live, nextId, cursor, ackedAt, batch, done, processed>>
  BY DEF Commit, pollerVars
<1>2. OutboxTypes' /\ DoneIsProcessed'
  BY <1>1 DEF OutboxInv, DoneIsProcessed, First
<1>3. OneRowPerId'
  BY <1>1 DEF OutboxInv, OneRowPerId
<1>4. BatchesAreCommitted'
  BY <1>1 DEF OutboxInv, BatchesAreCommitted, OneRowPerId
<1>5. CursorsAreCommitted'
  BY <1>1 DEF OutboxInv, CursorsAreCommitted
<1>6. UnprocessedIsAhead'
  <2> SUFFICES ASSUME NEW q \in rows', NEW e \in Edges, UnreadBy(q, e)', q.id \notin overtaken'
               PROVE  IsAhead(q, e)'
    BY DEF UnprocessedIsAhead
  <2>1. CASE q \in rows
    <3>1. q.id \notin overtaken
      BY DEF Commit
    <3>2. UnreadBy(q, e)
      BY <1>1 DEF UnreadBy, IsFor
    <3>3. QED
      BY <1>1, <2>1, <3>1, <3>2 DEF OutboxInv, UnprocessedIsAhead, IsAhead
  <2>2. CASE q = r
    <3>1. \A i \in Given : i > r.id => \E p \in writing : p.id = i
      BY <2>2 DEF Commit
    <3>2. r.id \in Given
      BY DEF OutboxInv, OneRowPerId
    <3>3. cursor[e] < r.id
      BY <3>1, <3>2 DEF OutboxInv, CursorsAreCommitted
    <3>4. \A p \in batch[e] : p.id < r.id
      <4> SUFFICES ASSUME NEW p \in batch[e] PROVE p.id < r.id
        OBVIOUS
      <4>1. p.id \in Given /\ p \notin writing /\ \A s \in writing : s.id = p.id => s = p
        BY DEF OutboxInv, BatchesAreCommitted
      <4>2. QED
        BY <4>1, <3>1, <3>2
    <3>5. QED
      BY <1>1, <2>2, <3>3, <3>4 DEF IsAhead
  <2>3. QED
    BY <1>1, <2>1, <2>2
<1>7. QED
  BY <1>2, <1>3, <1>4, <1>5, <1>6 DEF OutboxInv

(* An insert that is rolled back. *)
LEMMA RollbackStep ==
    ASSUME OutboxInv, NEW r \in writing, Rollback(r)
    PROVE  OutboxInv'
<1>1. /\ writing' = writing \ {r}
      /\ UNCHANGED <<live, nextId, rows, cursor, ackedAt, batch, done, processed, overtaken>>
  BY DEF Rollback, pollerVars
<1>2. OutboxTypes' /\ DoneIsProcessed' /\ UnprocessedIsAhead'
  BY <1>1 DEF OutboxInv, DoneIsProcessed, UnprocessedIsAhead, IsAhead, UnreadBy, IsFor, First
<1>3. OneRowPerId' /\ BatchesAreCommitted' /\ CursorsAreCommitted'
  BY <1>1 DEF OutboxInv, OneRowPerId, BatchesAreCommitted, CursorsAreCommitted
<1>4. QED
  BY <1>2, <1>3 DEF OutboxInv

(* A poll takes every visible row above the cursor. *)
LEMMA PollStep ==
    ASSUME OutboxInv, NEW e \in Edges, Poll(e)
    PROVE  OutboxInv'
<1>1. /\ batch[e] = {} /\ batch' = [batch EXCEPT ![e] = Unread(e)]
      /\ UNCHANGED <<live, nextId, writing, rows, cursor, done, processed, overtaken>>
  BY DEF Poll
<1>2. \A f \in Edges : batch'[f] = IF f = e THEN Unread(e) ELSE batch[f]
  BY <1>1 DEF OutboxInv
<1>3. OutboxTypes' /\ OneRowPerId' /\ CursorsAreCommitted'
  BY <1>1 DEF OutboxInv, OneRowPerId, CursorsAreCommitted
<1>4. BatchesAreCommitted'
  BY <1>1, <1>2 DEF OutboxInv, BatchesAreCommitted, OneRowPerId, Unread
<1>5. DoneIsProcessed'
  BY <1>1, <1>2 DEF OutboxInv, DoneIsProcessed, First
<1>6. UnprocessedIsAhead'
  <2> SUFFICES ASSUME NEW q \in rows', NEW f \in Edges, UnreadBy(q, f)', q.id \notin overtaken'
               PROVE  IsAhead(q, f)'
    BY DEF UnprocessedIsAhead
  <2>1. q \in rows /\ UnreadBy(q, f) /\ IsAhead(q, f)
    BY <1>1 DEF UnreadBy, IsFor, OutboxInv, UnprocessedIsAhead
  <2>2. q.id \in Given
    BY <2>1 DEF OutboxInv, OneRowPerId
  <2>3. QED
    BY <1>1, <1>2, <2>1, <2>2 DEF IsAhead, Unread, UnreadBy, OutboxInv
<1>7. QED
  BY <1>3, <1>4, <1>5, <1>6 DEF OutboxInv

(* Processing the first row of the batch. *)
LEMMA ProcessStep ==
    ASSUME OutboxInv, NEW e \in Edges, NEW r \in batch[e], Processes(e, r)
    PROVE  OutboxInv'
<1>1. /\ First(e, r)
      /\ done' = [done EXCEPT ![e] = TRUE]
      /\ processed' = [processed EXCEPT ![e] = @ \cup {r.id}]
      /\ UNCHANGED <<live, nextId, writing, rows, cursor, batch, overtaken>>
  BY DEF Processes
<1>2. \A f \in Edges : /\ processed'[f] = IF f = e THEN processed[e] \cup {r.id} ELSE processed[f]
                       /\ done'[f] = IF f = e THEN TRUE ELSE done[f]
  BY <1>1 DEF OutboxInv
<1>3. OutboxTypes' /\ OneRowPerId' /\ CursorsAreCommitted' /\ BatchesAreCommitted'
  BY <1>1 DEF OutboxInv, OneRowPerId, CursorsAreCommitted, BatchesAreCommitted
<1>4. DoneIsProcessed'
  BY <1>1, <1>2 DEF OutboxInv, DoneIsProcessed, First
<1>5. UnprocessedIsAhead'
  BY <1>1, <1>2 DEF OutboxInv, UnprocessedIsAhead, IsAhead, UnreadBy, IsFor
<1>6. QED
  BY <1>3, <1>4, <1>5 DEF OutboxInv

(* Acknowledging it moves the cursor past processed rows only. *)
LEMMA AckStep ==
    ASSUME OutboxInv, NEW e \in Edges, NEW r \in batch[e], Ack(e, r)
    PROVE  OutboxInv'
<1>1. /\ done[e] /\ First(e, r)
      /\ cursor' = [cursor EXCEPT ![e] = r.id]
      /\ batch' = [batch EXCEPT ![e] = @ \ {r}]
      /\ done' = [done EXCEPT ![e] = FALSE]
      /\ UNCHANGED <<live, nextId, writing, rows, processed, overtaken>>
  BY DEF Ack, AckedTo
<1>2. \A f \in Edges : /\ batch'[f] = IF f = e THEN batch[e] \ {r} ELSE batch[f]
                       /\ done'[f] = IF f = e THEN FALSE ELSE done[f]
                       /\ cursor'[f] = IF f = e THEN r.id ELSE cursor[f]
  BY <1>1 DEF OutboxInv
<1>3. /\ r.id \in Given /\ \A q \in writing : q.id # r.id
      /\ \A q \in rows \cup batch[e] : q.id = r.id => q = r
  BY DEF OutboxInv, BatchesAreCommitted
<1>4. r.id \in processed[e]
  BY <1>1, <1>3 DEF OutboxInv, DoneIsProcessed, BatchesAreCommitted, First
<1>5. OutboxTypes' /\ OneRowPerId' /\ CursorsAreCommitted'
  <2>1. OutboxTypes'
    <3>1. r.id \in Nat
      BY <1>3 DEF OutboxInv
    <3>2. cursor' \in [Edges -> Nat]
      BY <1>1, <3>1 DEF OutboxInv
    <3>3. batch' = [f \in Edges |-> batch'[f]]
      BY <1>1 DEF OutboxInv
    <3>4. done' \in [Edges -> BOOLEAN]
      BY <1>1 DEF OutboxInv
    <3>5. nextId' \in Nat \ {0} /\ processed' = [f \in Edges |-> processed'[f]]
      BY <1>1 DEF OutboxInv
    <3>6. QED
      BY <3>2, <3>3, <3>4, <3>5
  <2>2. OneRowPerId'
    BY <1>1 DEF OutboxInv, OneRowPerId
  <2>3. CursorsAreCommitted'
    BY <1>1, <1>2, <1>3 DEF OutboxInv, CursorsAreCommitted
  <2>4. QED
    BY <2>1, <2>2, <2>3
<1>6. BatchesAreCommitted'
  BY <1>1, <1>2 DEF OutboxInv, BatchesAreCommitted
<1>7. DoneIsProcessed'
  BY <1>1, <1>2 DEF OutboxInv, DoneIsProcessed, First
<1>8. UnprocessedIsAhead'
  <2> SUFFICES ASSUME NEW q \in rows', NEW f \in Edges, UnreadBy(q, f)', q.id \notin overtaken'
               PROVE  IsAhead(q, f)'
    BY DEF UnprocessedIsAhead
  <2>1. q \in rows /\ UnreadBy(q, f) /\ IsAhead(q, f)
    BY <1>1 DEF UnreadBy, IsFor, OutboxInv, UnprocessedIsAhead
  <2>2. q.id \in Given
    BY <2>1 DEF OutboxInv, OneRowPerId
  <2>3. CASE f = e
    <3>1. q.id # r.id
      BY <1>4, <2>1, <2>3 DEF UnreadBy
    <3>2. r.id < q.id
      BY <1>1, <1>3, <2>1, <2>2, <2>3, <3>1 DEF IsAhead, First
    <3>3. QED
      BY <1>2, <2>1, <2>3, <3>1, <3>2 DEF IsAhead
  <2>4. CASE f # e
    BY <1>2, <2>1, <2>4 DEF IsAhead
  <2>5. QED
    BY <2>3, <2>4
<1>9. QED
  BY <1>5, <1>6, <1>7, <1>8 DEF OutboxInv

(* A tick that ends early forgets its batch; so does a crash. *)
LEMMA DropStep ==
    ASSUME OutboxInv, NEW e \in Edges,
           batch' = [batch EXCEPT ![e] = {}], done' = [done EXCEPT ![e] = FALSE],
           live' \subseteq live,
           UNCHANGED <<nextId, writing, rows, cursor, processed, overtaken>>
    PROVE  OutboxInv'
<1>1. \A f \in Edges : /\ batch'[f] = IF f = e THEN {} ELSE batch[f]
                       /\ done'[f] = IF f = e THEN FALSE ELSE done[f]
  BY DEF OutboxInv
<1>2. OutboxTypes' /\ OneRowPerId' /\ CursorsAreCommitted' /\ BatchesAreCommitted'
  BY <1>1 DEF OutboxInv, OneRowPerId, CursorsAreCommitted, BatchesAreCommitted
<1>3. DoneIsProcessed'
  BY <1>1 DEF OutboxInv, DoneIsProcessed, First
<1>4. UnprocessedIsAhead'
  BY <1>1 DEF OutboxInv, UnprocessedIsAhead, IsAhead, UnreadBy, IsFor
<1>5. QED
  BY <1>2, <1>3, <1>4 DEF OutboxInv

(* Compaction deletes rows, and sets idle cursors back. *)
LEMMA PruneStep ==
    ASSUME OutboxInv, NEW cutoff, NEW late, Prune(cutoff, late)
    PROVE  OutboxInv'
<1>1. /\ rows' \subseteq rows
      /\ cursor' \in [Edges -> Nat]
      /\ \A e \in Edges : cursor'[e] \in {0, cursor[e]}
      /\ UNCHANGED <<live, nextId, writing, batch, done, processed, overtaken>>
  BY DEF Prune, OutboxInv
<1>2. OutboxTypes' /\ OneRowPerId' /\ CursorsAreCommitted' /\ BatchesAreCommitted'
  BY <1>1 DEF OutboxInv, OneRowPerId, CursorsAreCommitted, BatchesAreCommitted
<1>3. DoneIsProcessed'
  BY <1>1 DEF OutboxInv, DoneIsProcessed, First
<1>4. UnprocessedIsAhead'
  BY <1>1 DEF OutboxInv, UnprocessedIsAhead, IsAhead, UnreadBy, IsFor, OneRowPerId
<1>5. QED
  BY <1>2, <1>3, <1>4 DEF OutboxInv
-----------------------------------------------------------------------------

(* Every step of node dispatch is one of these. *)
LEMMA OutboxStepKeeps ==
    ASSUME OutboxInv, [Next]_vars
    PROVE  OutboxInv'
<1> USE DEF outboxVars, pollerVars
<1>1. CASE UNCHANGED vars
  BY <1>1, QuietStep DEF vars
<1>2. ASSUME NEW c \in Conns, NEW e \in Edges, Connect(c, e) PROVE OutboxInv'
  BY <1>2, QuietStep DEF Connect
<1>3. CASE Break
  BY <1>3, QuietStep DEF Break
<1>4. ASSUME NEW c \in Conns, CloseSeen(c) PROVE OutboxInv'
  BY <1>4, QuietStep DEF CloseSeen
<1>5. ASSUME NEW e \in Edges, Crash(e) PROVE OutboxInv'
  BY <1>5, DropStep DEF Crash, Stops
<1>6. ASSUME NEW e \in Edges, Broadcast(e) PROVE OutboxInv'
  BY <1>6, PutStep DEF Broadcast
<1>7. ASSUME NEW t \in Tasks, NEW e \in Edges, NEW c \in Conns, Dispatch(t, e, c) PROVE OutboxInv'
  BY <1>7, QuietStep DEF Dispatch
<1>8. ASSUME NEW t \in Tasks, SendLocal(t) \/ StartWait(t) \/ Timeout(t) PROVE OutboxInv'
  BY <1>8, QuietStep DEF SendLocal, StartWait, Timeout
<1>9. ASSUME NEW t \in Tasks, SendRemote(t) PROVE OutboxInv'
  BY <1>9, PutStep DEF SendRemote
<1>10. ASSUME NEW t \in Tasks, NEW out \in Outcomes, Finish(t, out) PROVE OutboxInv'
  BY <1>10, QuietStep DEF Finish
<1>11. ASSUME NEW m \in sent, Receive(m) PROVE OutboxInv'
  BY <1>11, QuietStep DEF Receive
<1>12. ASSUME NEW e \in Edges, NEW m \in replies, Reply(e, m) \/ Refuse(e, m) PROVE OutboxInv'
  BY <1>12, QuietStep DEF Reply, Refuse
<1>13. ASSUME NEW h \in handling, Relay(h) PROVE OutboxInv'
  BY <1>13, PutStep DEF Relay
<1>14. ASSUME NEW h \in handling, RelayFails(h) \/ ResolveHere(h) PROVE OutboxInv'
  BY <1>14, QuietStep DEF RelayFails, ResolveHere
<1>15. ASSUME NEW e \in Edges, NEW r \in batch[e],
              ProcessExecute(e, r) \/ ProcessRelay(e, r) \/ ProcessEvent(e, r)
       PROVE  OutboxInv'
  BY <1>15, ProcessStep DEF ProcessExecute, ProcessRelay, ProcessEvent
<1>16. ASSUME NEW e \in Edges, OutboxStep(Poll(e)) PROVE OutboxInv'
  BY <1>16, PollStep DEF OutboxStep
<1>17. ASSUME NEW e \in Edges, OutboxStep(AckFails(e)) PROVE OutboxInv'
  BY <1>17, DropStep DEF OutboxStep, AckFails
<1>18. ASSUME NEW e \in Edges, NEW r \in batch[e], OutboxStep(Ack(e, r)) PROVE OutboxInv'
  BY <1>18, AckStep DEF OutboxStep
<1>19. ASSUME NEW r \in writing, OutboxStep(Commit(r)) \/ OutboxStep(Rollback(r)) PROVE OutboxInv'
  BY <1>19, CommitStep, RollbackStep DEF OutboxStep
<1>20. ASSUME NEW cutoff \in 2..nextId, NEW late \in BOOLEAN, OutboxStep(Prune(cutoff, late))
       PROVE  OutboxInv'
  BY <1>20, PruneStep DEF OutboxStep
<1>21. QED
  BY <1>1, <1>2, <1>3, <1>4, <1>5, <1>6, <1>7, <1>8, <1>9, <1>10, <1>11, <1>12, <1>13, <1>14,
     <1>15, <1>16, <1>17, <1>18, <1>19, <1>20 DEF Next

LEMMA OutboxInvHolds == Spec => []OutboxInv
<1>1. Init => OutboxInv
  BY DEF Init, BackplaneInit, OutboxInv, OneRowPerId, BatchesAreCommitted, CursorsAreCommitted,
         DoneIsProcessed, UnprocessedIsAhead
<1>2. QED BY <1>1, OutboxStepKeeps, PTL DEF Spec

(* An edge's cursor passes a row it has not processed only if the row's    *)
(* insert committed after that of a higher id (outbox-poller.ts tick,      *)
(* outbox-dal.ts poll).                                                    *)
THEOREM CursorSafety == Spec => []OnlyOvertakenSkipped
<1>1. OutboxInv => OnlyOvertakenSkipped
  <2> SUFFICES ASSUME OutboxInv, NEW r \in rows, NEW e \in Edges, Skipped(r, e),
                      r.id \notin overtaken
               PROVE  FALSE
    BY DEF OnlyOvertakenSkipped
  <2>1. UnreadBy(r, e) /\ r.id <= cursor[e]
    BY DEF Skipped, UnreadBy
  <2>2. cursor[e] < r.id
    BY <2>1 DEF OutboxInv, UnprocessedIsAhead, IsAhead
  <2>3. r.id \in Nat /\ cursor[e] \in Nat
    BY DEF OutboxInv, OneRowPerId
  <2>4. QED
    BY <2>1, <2>2, <2>3
<1>2. QED
  BY <1>1, OutboxInvHolds, PTL

-----------------------------------------------------------------------------
(* No replay.  What an edge has processed and is still in the table is     *)
(* behind its cursor, or is the row it is about to acknowledge; and a      *)
(* compaction that forgets a cursor deletes every row that was behind it.  *)

ReplayTypes ==
    /\ ackedAt \in [Edges -> Nat]
    /\ faults \in Nat
    /\ \A e \in Edges : processed[e] \subseteq Given

WritingIsUnprocessed == \A r \in writing, e \in Edges : r.id \notin processed[e]
BatchIsAhead == \A e \in Edges : \A r \in batch[e] : r.id > cursor[e]
CursorBeforeAck == \A e \in Edges : cursor[e] = 0 \/ cursor[e] < ackedAt[e]

DealtWith(r, e) == (r \notin batch[e] /\ r.id <= cursor[e]) \/ (done[e] /\ First(e, r))
ProcessedIsDealtWith ==
    \A e \in Edges : \A r \in rows \cup batch[e] : r.id \in processed[e] => DealtWith(r, e)

ReplayInv ==
    /\ ReplayTypes /\ WritingIsUnprocessed /\ BatchIsAhead /\ CursorBeforeAck
    /\ faults = 0 => ProcessedIsDealtWith

(* Faults are only counted up. *)
LEMMA FaultsGrow ==
    ASSUME faults \in Nat, [Next]_vars
    PROVE  faults' \in Nat /\ (faults' = 0 => faults = 0)
<1>1. SUFFICES faults' \in {faults, faults + 1}
  OBVIOUS
<1> USE DEF outboxVars, Fails
<1>2. ASSUME UNCHANGED vars \/ Break \/ \E e \in Edges : Crash(e) \/ Broadcast(e)
      PROVE  faults' \in {faults, faults + 1}
  BY <1>2 DEF vars, Break, Crash, Stops, Broadcast
<1>3. ASSUME NEW c \in Conns,
             CloseSeen(c) \/ \E e \in Edges : Connect(c, e) \/ \E t \in Tasks : Dispatch(t, e, c)
      PROVE  UNCHANGED faults
  BY <1>3 DEF Connect, CloseSeen, Dispatch
<1>4. ASSUME NEW t \in Tasks,
             \/ SendLocal(t) \/ SendRemote(t) \/ StartWait(t) \/ Timeout(t)
             \/ \E out \in Outcomes : Finish(t, out)
      PROVE  UNCHANGED faults
  BY <1>4 DEF SendLocal, SendRemote, StartWait, Timeout, Finish
<1>5. ASSUME NEW m,
             \/ Receive(m) \/ Relay(m) \/ RelayFails(m) \/ ResolveHere(m)
             \/ \E e \in Edges : Reply(e, m) \/ Refuse(e, m)
      PROVE  faults' \in {faults, faults + 1}
  BY <1>5 DEF Receive, Relay, RelayFails, ResolveHere, Reply, Refuse
<1>6. ASSUME NEW e, NEW r, ProcessExecute(e, r) \/ ProcessRelay(e, r) \/ ProcessEvent(e, r)
      PROVE  UNCHANGED faults
  BY <1>6 DEF ProcessExecute, ProcessRelay, ProcessEvent, Processes
<1>7. ASSUME NEW e, NEW r,
             \/ OutboxStep(Poll(e)) \/ OutboxStep(AckFails(e)) \/ OutboxStep(Ack(e, r))
             \/ OutboxStep(Commit(r)) \/ OutboxStep(Rollback(r))
             \/ OutboxStep(Prune(e, r))
      PROVE  faults' \in {faults, faults + 1}
  BY <1>7 DEF OutboxStep, Poll, AckFails, Ack, Commit, Rollback, Prune
<1>8. QED BY <1>2, <1>3, <1>4, <1>5, <1>6, <1>7 DEF Next

(* Steps that leave the rows and the pollers alone. *)
LEMMA ReplayQuiet ==
    ASSUME ReplayInv, faults' \in Nat, faults' = 0 => faults = 0,
           UNCHANGED <<nextId, writing, rows, pollerVars>>
    PROVE  ReplayInv'
BY DEF ReplayInv, ReplayTypes, WritingIsUnprocessed, BatchIsAhead, CursorBeforeAck,
       ProcessedIsDealtWith, DealtWith, First, pollerVars

(* A fresh id is processed nowhere. *)
LEMMA ReplayPut ==
    ASSUME OutboxInv, ReplayInv, faults' \in Nat, faults' = 0 => faults = 0,
           NEW from, NEW to, NEW body, Put(from, to, body), UNCHANGED <<rows, pollerVars>>
    PROVE  ReplayInv'
<1> DEFINE new == [id |-> nextId, from |-> from, to |-> to, body |-> body]
<1>1. /\ new.id = nextId
      /\ writing' = writing \cup {new}
      /\ nextId' = nextId + 1
      /\ UNCHANGED <<rows, cursor, ackedAt, batch, done, processed>>
  BY DEF Put, pollerVars
<1> HIDE DEF new
<1>2. nextId \in Nat \ {0} BY DEF OutboxInv
<1>3. ReplayTypes' /\ WritingIsUnprocessed'
  BY <1>1, <1>2 DEF ReplayInv, ReplayTypes, WritingIsUnprocessed
<1>4. BatchIsAhead' /\ CursorBeforeAck' BY <1>1 DEF ReplayInv, BatchIsAhead, CursorBeforeAck
<1>5. faults' = 0 => ProcessedIsDealtWith'
  BY <1>1 DEF ReplayInv, ProcessedIsDealtWith, DealtWith, First
<1>6. QED BY <1>3, <1>4, <1>5 DEF ReplayInv

(* A row becomes visible, or is given up; no edge has processed it. *)
LEMMA ReplayCommit ==
    ASSUME OutboxInv, ReplayInv, NEW r \in writing, Commit(r) \/ Rollback(r)
    PROVE  ReplayInv'
<1>1. /\ rows' \subseteq rows \cup {r} /\ writing' = writing \ {r}
      /\ UNCHANGED <<nextId, faults, cursor, ackedAt, batch, done, processed>>
  BY DEF Commit, Rollback, pollerVars
<1>2. \A e \in Edges : r.id \notin processed[e] BY DEF ReplayInv, WritingIsUnprocessed
<1>3. ReplayTypes' /\ WritingIsUnprocessed' /\ BatchIsAhead' /\ CursorBeforeAck'
  BY <1>1 DEF ReplayInv, ReplayTypes, WritingIsUnprocessed, BatchIsAhead, CursorBeforeAck
<1>4. faults' = 0 => ProcessedIsDealtWith'
  BY <1>1, <1>2 DEF ReplayInv, ProcessedIsDealtWith, DealtWith, First
<1>5. QED BY <1>3, <1>4 DEF ReplayInv

(* A poll reads only rows that its edge has not processed. *)
LEMMA ReplayPoll ==
    ASSUME OutboxInv, ReplayInv, NEW e \in Edges, Poll(e)
    PROVE  ReplayInv'
<1>1. /\ batch[e] = {} /\ batch' = [batch EXCEPT ![e] = Unread(e)]
      /\ UNCHANGED <<nextId, writing, rows, cursor, ackedAt, done, processed, faults>>
  BY DEF Poll
<1>2. \A f \in Edges : batch'[f] = IF f = e THEN Unread(e) ELSE batch[f]
  BY <1>1 DEF OutboxInv
<1>3. ReplayTypes' /\ WritingIsUnprocessed' /\ CursorBeforeAck'
  BY <1>1 DEF ReplayInv, ReplayTypes, WritingIsUnprocessed, CursorBeforeAck
<1>4. BatchIsAhead' BY <1>1, <1>2 DEF ReplayInv, BatchIsAhead, Unread
<1>5. ASSUME faults' = 0 PROVE ProcessedIsDealtWith'
  <2> SUFFICES ASSUME NEW f \in Edges, NEW q \in rows' \cup batch'[f], q.id \in processed'[f]
               PROVE  DealtWith(q, f)'
    BY DEF ProcessedIsDealtWith
  <2>1. q \in rows \cup batch[f] BY <1>1, <1>2 DEF Unread
  <2>2. DealtWith(q, f) BY <1>1, <1>5, <2>1 DEF ReplayInv, ProcessedIsDealtWith
  <2>3. CASE f = e
    <3>1. q.id <= cursor[f] /\ q \in rows BY <1>1, <2>1, <2>2, <2>3 DEF DealtWith, First
    <3>2. q.id \in Nat /\ cursor[f] \in Nat BY <3>1 DEF OutboxInv, OneRowPerId
    <3>3. QED BY <1>1, <1>2, <2>3, <3>1, <3>2 DEF DealtWith, Unread
  <2>4. CASE f # e BY <1>1, <1>2, <2>2, <2>4 DEF DealtWith, First
  <2>5. QED BY <2>3, <2>4
<1>6. QED BY <1>3, <1>4, <1>5 DEF ReplayInv

(* The row that is processed is the first of its batch, and done for now. *)
LEMMA ReplayProcess ==
    ASSUME OutboxInv, ReplayInv, NEW e \in Edges, NEW r \in batch[e], Processes(e, r)
    PROVE  ReplayInv'
<1>1. /\ ~done[e] /\ First(e, r)
      /\ done' = [done EXCEPT ![e] = TRUE]
      /\ processed' = [processed EXCEPT ![e] = @ \cup {r.id}]
      /\ UNCHANGED <<nextId, writing, rows, cursor, ackedAt, batch, faults>>
  BY DEF Processes
<1>2. \A f \in Edges : /\ processed'[f] = IF f = e THEN processed[e] \cup {r.id} ELSE processed[f]
                       /\ done'[f] = IF f = e THEN TRUE ELSE done[f]
  BY <1>1 DEF OutboxInv
<1>3. /\ r.id \in Given /\ \A q \in writing : q.id # r.id
      /\ \A q \in rows \cup batch[e] : q.id = r.id => q = r
  BY DEF OutboxInv, BatchesAreCommitted
<1>4. ReplayTypes' /\ WritingIsUnprocessed'
  BY <1>1, <1>2, <1>3 DEF ReplayInv, ReplayTypes, WritingIsUnprocessed
<1>5. BatchIsAhead' /\ CursorBeforeAck' BY <1>1 DEF ReplayInv, BatchIsAhead, CursorBeforeAck
<1>6. ASSUME faults' = 0 PROVE ProcessedIsDealtWith'
  <2> SUFFICES ASSUME NEW f \in Edges, NEW q \in rows' \cup batch'[f], q.id \in processed'[f]
               PROVE  DealtWith(q, f)'
    BY DEF ProcessedIsDealtWith
  <2>1. q \in rows \cup batch[f] BY <1>1
  <2>2. CASE f = e /\ q = r BY <1>1, <1>2, <2>2 DEF DealtWith, First
  <2>3. CASE ~(f = e /\ q = r)
    <3>1. q.id \in processed[f] BY <1>2, <1>3, <2>1, <2>3
    <3>2. DealtWith(q, f) BY <1>1, <1>6, <2>1, <3>1 DEF ReplayInv, ProcessedIsDealtWith
    <3>3. QED BY <1>1, <1>2, <3>2 DEF DealtWith, First
  <2>4. QED BY <2>2, <2>3
<1>7. QED BY <1>4, <1>5, <1>6 DEF ReplayInv

(* The cursor moves up to the row that leaves the batch. *)
LEMMA ReplayAck ==
    ASSUME OutboxInv, ReplayInv, NEW e \in Edges, NEW r \in batch[e], Ack(e, r)
    PROVE  ReplayInv'
<1>1. /\ done[e] /\ First(e, r)
      /\ cursor' = [cursor EXCEPT ![e] = r.id]
      /\ ackedAt' = [ackedAt EXCEPT ![e] = nextId]
      /\ batch' = [batch EXCEPT ![e] = @ \ {r}]
      /\ done' = [done EXCEPT ![e] = FALSE]
      /\ UNCHANGED <<nextId, writing, rows, processed, faults>>
  BY DEF Ack, AckedTo
<1>2. \A f \in Edges : /\ batch'[f] = IF f = e THEN batch[e] \ {r} ELSE batch[f]
                       /\ done'[f] = IF f = e THEN FALSE ELSE done[f]
                       /\ cursor'[f] = IF f = e THEN r.id ELSE cursor[f]
                       /\ ackedAt'[f] = IF f = e THEN nextId ELSE ackedAt[f]
  BY <1>1 DEF OutboxInv, ReplayInv, ReplayTypes
<1>3. /\ r.id \in Given
      /\ \A q \in rows \cup batch[e] : q.id = r.id => q = r
      /\ \A q \in batch[e] : q.id \in Given /\ \A s \in batch[e] : s.id = q.id => s = q
  BY DEF OutboxInv, BatchesAreCommitted
<1>4. r.id > cursor[e] /\ r.id < nextId /\ nextId \in Nat /\ cursor[e] \in Nat
  BY <1>3 DEF OutboxInv, ReplayInv, BatchIsAhead
<1>5. ReplayTypes' /\ WritingIsUnprocessed'
  <2>1. ackedAt' \in [Edges -> Nat] BY <1>1, <1>4 DEF ReplayInv, ReplayTypes
  <2>2. QED BY <1>1, <2>1 DEF ReplayInv, ReplayTypes, WritingIsUnprocessed
<1>6. CursorBeforeAck' BY <1>2, <1>4 DEF ReplayInv, CursorBeforeAck
<1>7. BatchIsAhead'
  <2> SUFFICES ASSUME NEW f \in Edges, NEW q \in batch'[f] PROVE q.id > cursor'[f]
    BY DEF BatchIsAhead
  <2>1. CASE f = e
    <3>1. q \in batch[e] /\ q # r /\ cursor'[f] = r.id BY <1>2, <2>1
    <3>2. r.id <= q.id /\ r.id # q.id /\ r.id \in Nat /\ q.id \in Nat
      BY <1>1, <1>3, <1>4, <3>1 DEF First
    <3>3. QED BY <3>1, <3>2
  <2>2. CASE f # e BY <1>2, <2>2 DEF ReplayInv, BatchIsAhead
  <2>3. QED BY <2>1, <2>2
<1>8. ASSUME faults' = 0 PROVE ProcessedIsDealtWith'
  <2> SUFFICES ASSUME NEW f \in Edges, NEW q \in rows' \cup batch'[f], q.id \in processed'[f]
               PROVE  DealtWith(q, f)'
    BY DEF ProcessedIsDealtWith
  <2>1. q \in rows \cup batch[f] /\ q.id \in processed[f] BY <1>1, <1>2
  <2>2. DealtWith(q, f) BY <1>1, <1>8, <2>1 DEF ReplayInv, ProcessedIsDealtWith
  <2>3. q.id \in Nat BY <2>1 DEF OutboxInv, OneRowPerId, BatchesAreCommitted
  <2>4. CASE f = e
    <3>0. batch'[f] = batch[f] \ {r} /\ cursor'[f] = r.id BY <1>2, <2>4
    <3>1. CASE q = r
      <4>1. q \notin batch'[f] /\ q.id <= cursor'[f] BY <2>3, <3>0, <3>1
      <4>2. QED BY <4>1 DEF DealtWith
    <3>2. CASE q # r
      <4>1. ~First(f, q)
        <5>1. SUFFICES ASSUME First(f, q) PROVE FALSE
          OBVIOUS
        <5>2. q \in batch[e] /\ q.id <= r.id /\ r.id <= q.id BY <1>1, <2>4, <5>1 DEF First
        <5>3. QED BY <1>3, <1>4, <2>3, <3>2, <5>2
      <4>2. q \notin batch[f] /\ q.id <= cursor[f] BY <2>2, <4>1 DEF DealtWith
      <4>3. q \notin batch'[f] /\ q.id <= cursor'[f] BY <1>3, <1>4, <2>3, <2>4, <3>0, <4>2
      <4>4. QED BY <4>3 DEF DealtWith
    <3>3. QED BY <3>1, <3>2
  <2>5. CASE f # e BY <1>2, <2>2, <2>5 DEF DealtWith, First
  <2>6. QED BY <2>4, <2>5
<1>9. QED BY <1>5, <1>6, <1>7, <1>8 DEF ReplayInv

(* A tick that ends early, by a fault. *)
LEMMA ReplayDrop ==
    ASSUME OutboxInv, ReplayInv, NEW e \in Edges, faults' = faults + 1,
           batch' = [batch EXCEPT ![e] = {}],
           UNCHANGED <<nextId, writing, cursor, ackedAt, processed>>
    PROVE  ReplayInv'
<1>1. \A f \in Edges : batch'[f] = IF f = e THEN {} ELSE batch[f] BY DEF OutboxInv
<1>2. faults' \in Nat /\ faults' # 0 BY DEF ReplayInv, ReplayTypes
<1>3. QED BY <1>1, <1>2
             DEF ReplayInv, ReplayTypes, WritingIsUnprocessed, BatchIsAhead, CursorBeforeAck

(* A consumer that is idle at the cutoff had acknowledged only rows below  *)
(* it, and those are deleted with it.                                      *)
LEMMA ReplayPrune ==
    ASSUME OutboxInv, ReplayInv, NEW cutoff, NEW late, Prune(cutoff, late)
    PROVE  ReplayInv'
<1> DEFINE idle == Idle(cutoff, late)
<1>1. /\ cutoff \in Nat
      /\ rows' = {r \in rows : r.id >= cutoff}
      /\ cursor' = [e \in Edges |-> IF e \in idle THEN 0 ELSE cursor[e]]
      /\ ackedAt' = [e \in Edges |-> IF e \in idle THEN 0 ELSE ackedAt[e]]
      /\ faults' \in {faults, faults + 1}
      /\ UNCHANGED <<nextId, writing, batch, done, processed>>
  <2>1. cutoff \in Nat BY DEF Prune, OutboxInv
  <2>2. rows' = {r \in rows : r.id >= cutoff} BY <2>1 DEF Prune, OutboxInv, OneRowPerId
  <2>3. QED BY <2>1, <2>2 DEF Prune
<1>2. \A e \in Edges : cursor[e] \in Nat /\ ackedAt[e] \in Nat
  BY DEF OutboxInv, ReplayInv, ReplayTypes
<1>3. \A e \in Edges : e \in idle => cursor[e] < cutoff
  <2> SUFFICES ASSUME NEW e \in Edges, e \in idle PROVE cursor[e] < cutoff
    OBVIOUS
  <2>1. ackedAt[e] <= cutoff /\ cursor[e] > 0 BY <1>1, <1>2 DEF Idle
  <2>2. cursor[e] < ackedAt[e] BY <1>2, <2>1 DEF ReplayInv, CursorBeforeAck
  <2>3. QED BY <1>1, <1>2, <2>1, <2>2
<1> HIDE DEF idle
<1>4. ReplayTypes' BY <1>1, <1>2 DEF ReplayInv, ReplayTypes
<1>5. WritingIsUnprocessed' BY <1>1 DEF ReplayInv, WritingIsUnprocessed
<1>6. CursorBeforeAck' BY <1>1, <1>2 DEF ReplayInv, CursorBeforeAck
<1>7. BatchIsAhead'
  <2> SUFFICES ASSUME NEW f \in Edges, NEW q \in batch'[f] PROVE q.id > cursor'[f]
    BY DEF BatchIsAhead
  <2>1. q \in batch[f] /\ q.id \in Given /\ q.id > cursor[f]
    BY <1>1 DEF OutboxInv, BatchesAreCommitted, ReplayInv, BatchIsAhead
  <2>2. QED BY <1>1, <1>2, <2>1
<1>8. ASSUME faults' = 0 PROVE ProcessedIsDealtWith'
  <2> SUFFICES ASSUME NEW f \in Edges, NEW q \in rows' \cup batch'[f], q.id \in processed'[f]
               PROVE  DealtWith(q, f)'
    BY DEF ProcessedIsDealtWith
  <2>1. q \in rows \cup batch[f] /\ q.id \in processed[f] BY <1>1
  <2>2. faults = 0 BY <1>1, <1>8 DEF ReplayInv, ReplayTypes
  <2>3. DealtWith(q, f) BY <2>1, <2>2 DEF ReplayInv, ProcessedIsDealtWith
  <2>4. q.id \in Nat BY <2>1 DEF OutboxInv, OneRowPerId, BatchesAreCommitted
  <2>5. CASE done[f] /\ First(f, q) BY <1>1, <2>5 DEF DealtWith, First
  <2>6. CASE q \notin batch[f] /\ q.id <= cursor[f]
    <3>1. q.id >= cutoff BY <1>1, <2>6
    <3>2. f \notin idle BY <1>1, <1>2, <1>3, <2>4, <2>6, <3>1
    <3>3. QED BY <1>1, <2>6, <3>2 DEF DealtWith
  <2>7. QED BY <2>3, <2>5, <2>6 DEF DealtWith
<1>9. QED BY <1>4, <1>5, <1>6, <1>7, <1>8 DEF ReplayInv

LEMMA ReplayStepKeeps ==
    ASSUME OutboxInv, ReplayInv, [Next]_vars
    PROVE  ReplayInv'
<1> USE DEF outboxVars, pollerVars
<1>0. faults' \in Nat /\ (faults' = 0 => faults = 0)
  BY FaultsGrow DEF ReplayInv, ReplayTypes
<1>1. CASE UNCHANGED vars
  BY <1>0, <1>1, ReplayQuiet DEF vars
<1>2. ASSUME NEW c \in Conns,
             CloseSeen(c) \/ \E e \in Edges : Connect(c, e) \/ \E t \in Tasks : Dispatch(t, e, c)
      PROVE  ReplayInv'
  BY <1>0, <1>2, ReplayQuiet DEF Connect, CloseSeen, Dispatch
<1>3. CASE Break
  BY <1>0, <1>3, ReplayQuiet DEF Break
<1>4. ASSUME NEW e \in Edges, Crash(e) PROVE ReplayInv'
  BY <1>4, ReplayDrop DEF Crash, Stops, Fails
<1>5. ASSUME NEW e \in Edges, Broadcast(e) PROVE ReplayInv'
  BY <1>0, <1>5, ReplayPut DEF Broadcast
<1>6. ASSUME NEW t \in Tasks,
             \/ SendLocal(t) \/ StartWait(t) \/ Timeout(t)
             \/ \E out \in Outcomes : Finish(t, out)
      PROVE  ReplayInv'
  BY <1>0, <1>6, ReplayQuiet DEF SendLocal, StartWait, Timeout, Finish
<1>7. ASSUME NEW t \in Tasks, SendRemote(t) PROVE ReplayInv'
  BY <1>0, <1>7, ReplayPut DEF SendRemote
<1>8. ASSUME NEW m \in sent, Receive(m) PROVE ReplayInv'
  BY <1>0, <1>8, ReplayQuiet DEF Receive
<1>9. ASSUME NEW e \in Edges, NEW m \in replies, Reply(e, m) \/ Refuse(e, m) PROVE ReplayInv'
  BY <1>0, <1>9, ReplayQuiet DEF Reply, Refuse
<1>10. ASSUME NEW h \in handling, Relay(h) PROVE ReplayInv'
  BY <1>0, <1>10, ReplayPut DEF Relay
<1>11. ASSUME NEW h \in handling, RelayFails(h) \/ ResolveHere(h) PROVE ReplayInv'
  BY <1>0, <1>11, ReplayQuiet DEF RelayFails, ResolveHere
<1>12. ASSUME NEW e \in Edges, NEW r \in batch[e],
              ProcessExecute(e, r) \/ ProcessRelay(e, r) \/ ProcessEvent(e, r)
       PROVE  ReplayInv'
  BY <1>12, ReplayProcess DEF ProcessExecute, ProcessRelay, ProcessEvent
<1>13. ASSUME NEW e \in Edges, OutboxStep(Poll(e)) PROVE ReplayInv'
  BY <1>13, ReplayPoll DEF OutboxStep
<1>14. ASSUME NEW e \in Edges, OutboxStep(AckFails(e)) PROVE ReplayInv'
  BY <1>14, ReplayDrop DEF OutboxStep, AckFails, Fails
<1>15. ASSUME NEW e \in Edges, NEW r \in batch[e], OutboxStep(Ack(e, r)) PROVE ReplayInv'
  BY <1>15, ReplayAck DEF OutboxStep
<1>16. ASSUME NEW r \in writing, OutboxStep(Commit(r)) \/ OutboxStep(Rollback(r)) PROVE ReplayInv'
  BY <1>16, ReplayCommit DEF OutboxStep
<1>17. ASSUME NEW cutoff \in 2..nextId, NEW late \in BOOLEAN, OutboxStep(Prune(cutoff, late))
       PROVE  ReplayInv'
  BY <1>17, ReplayPrune DEF OutboxStep
<1>18. QED
  BY <1>1, <1>2, <1>3, <1>4, <1>5, <1>6, <1>7, <1>8, <1>9, <1>10, <1>11, <1>12, <1>13, <1>14,
     <1>15, <1>16, <1>17 DEF Next

LEMMA ReplayInvHolds == Spec => []ReplayInv
<1>1. Init => ReplayInv
  BY DEF Init, BackplaneInit, ReplayInv, ReplayTypes, WritingIsUnprocessed, BatchIsAhead,
         CursorBeforeAck, ProcessedIsDealtWith
<1>2. QED BY <1>1, ReplayStepKeeps, OutboxInvHolds, PTL DEF Spec

(* Without a fault no edge processes a row twice, also when compaction     *)
(* forgets the cursor of an idle consumer (outbox-poller.ts tick,          *)
(* outbox-lifecycle.ts runCompaction).                                     *)
THEOREM ReplaySafety == Spec => NoReplay
<1>1. ReplayInv => \A e \in Edges : \A r \in batch[e] :
                      faults = 0 /\ Processes(e, r) => r.id \notin processed[e]
  BY DEF ReplayInv, ProcessedIsDealtWith, DealtWith, Processes
<1>2. QED BY <1>1, ReplayInvHolds, PTL DEF Spec, NoReplay

-----------------------------------------------------------------------------
(* Answers.  What the node answered goes to the record before anybody      *)
(* passes it on, so every copy of it, in a handler, in a row, in a         *)
(* registry or with the caller, is the node's and on record.               *)

CallerState == [st : Ended \cup {"idle", "chosen", "sending", "waiting"},
                edge : Edges \cup {NoEdge}, conn : Conns \cup {NoConn}]
EntryState == [st : Outcomes \cup {"none", "pending", "failed", "terminal"},
               conn : Conns \cup {NoConn}]

DispatchTypes ==
    /\ wired \in BOOLEAN
    /\ conn \in [Conns -> [st : {"new", "open", "closed"}, edge : Edges \cup {NoEdge}]]
    /\ socket \in Conns \cup {NoConn}
    /\ caller \in [Tasks -> CallerState]
    /\ record \in [Tasks -> Outcomes \cup {"none", "dispatched"}]
    /\ registry \in [Edges -> [Tasks -> EntryState]]
    /\ route \in [Edges -> SUBSET Tasks]
    /\ node \in [Tasks -> Outcomes \cup {"none", "busy"}]
    /\ live \subseteq Edges

IsAnswer(t, out) == t \in Tasks /\ out \in Outcomes /\ node[t] = out
IsRecorded(t, out) == IsAnswer(t, out) /\ (faults = 0 => record[t] = out)
Dispatched(t) == t \in Tasks /\ caller[t].st # "idle" /\ caller[t].edge \in Edges

GoodReply(m) == m.conn \in Conns /\ IsAnswer(m.task, m.out)
GoodHandling(h) == h.edge \in Edges /\ IsRecorded(h.task, h.out)
GoodRow(r) ==
    /\ r.body.kind = "relay" => IsRecorded(r.body.task, r.body.out)
    /\ r.body.kind = "execute" => Dispatched(r.body.task) /\ r.body.conn \in Conns
Good(t, x) == x.st \in Outcomes => IsRecorded(t, x.st)

RepliesGood == \A m \in replies : GoodReply(m)
HandlingGood == \A h \in handling : GoodHandling(h)
Rows == rows \cup writing \cup UNION {batch[e] : e \in Edges}
RowsGood == \A r \in Rows : GoodRow(r)
RegistryGood == \A e \in Edges, t \in Tasks : Good(t, registry[e][t])
CallersGood == \A t \in Tasks : Good(t, caller[t])
NothingUndispatched ==
    /\ \A t \in Tasks :
          /\ node[t] # "none" => Dispatched(t)
          /\ caller[t].st # "idle" => caller[t].edge \in Edges /\ caller[t].conn \in Conns
          /\ caller[t].st = "idle" => caller[t].edge = NoEdge
    /\ \A m \in sent : Dispatched(m.task)
    /\ \A e \in Edges : \A t \in route[e] : Dispatched(t)

AnswerInv ==
    /\ DispatchTypes /\ NothingUndispatched
    /\ RepliesGood /\ HandlingGood /\ RowsGood /\ RegistryGood /\ CallersGood

(* The steps of Next, by what they act on. *)
ConnStep == Break \/ \E c \in Conns : CloseSeen(c) \/ \E e \in Edges : Connect(c, e)
CrashStep == \E e \in Edges : Crash(e)
DispatchStep == \E t \in Tasks, e \in Edges, c \in Conns : Dispatch(t, e, c)
CallStep == \E t \in Tasks : SendLocal(t) \/ StartWait(t) \/ Timeout(t)
NodeStep ==
    \/ \E m \in sent : Receive(m)
    \/ \E t \in Tasks, out \in Outcomes : Finish(t, out)
ReplyStep == \E e \in Edges, m \in replies : Reply(e, m) \/ Refuse(e, m)
InsertStep ==
    \/ \E e \in Edges : Broadcast(e)
    \/ \E t \in Tasks : SendRemote(t)
    \/ \E h \in handling : Relay(h)
HandlingStep == \E h \in handling : RelayFails(h) \/ ResolveHere(h)
RowStep ==
    \E e \in Edges : \E r \in batch[e] :
        ProcessExecute(e, r) \/ ProcessRelay(e, r) \/ ProcessEvent(e, r)
TableStep ==
    /\ UNCHANGED dispatchVars
    /\ \/ \E e \in Edges : Poll(e) \/ AckFails(e) \/ \E r \in batch[e] : Ack(e, r)
       \/ \E r \in writing : Commit(r) \/ Rollback(r)
       \/ \E cutoff \in 2..nextId, late \in BOOLEAN : Prune(cutoff, late)
       \/ UNCHANGED outboxVars

LEMMA NextCases ==
    ASSUME [Next]_vars
    PROVE  \/ ConnStep \/ CrashStep \/ DispatchStep \/ CallStep \/ NodeStep
           \/ ReplyStep \/ InsertStep \/ HandlingStep \/ RowStep \/ TableStep
<1>1. CASE UNCHANGED vars BY <1>1 DEF vars, TableStep
<1>2. CASE Next
  BY <1>2 DEF Next, OutboxStep, ConnStep, CrashStep, DispatchStep, CallStep, NodeStep, ReplyStep,
              InsertStep, HandlingStep, RowStep, TableStep
<1>3. QED BY <1>1, <1>2

(* A caller's record, and an entry of a registry, stay what they are when  *)
(* a part of them is replaced.                                             *)
LEMMA CallerUpdate ==
    ASSUME NEW x \in CallerState, NEW s
    PROVE  /\ [x EXCEPT !.st = s] = [st |-> s, edge |-> x.edge, conn |-> x.conn]
           /\ s \in Ended \cup {"chosen", "sending", "waiting"} => [x EXCEPT !.st = s] \in CallerState
BY DEF CallerState
LEMMA EntryUpdate ==
    ASSUME NEW x \in EntryState, NEW c \in Conns \cup {NoConn}, NEW out \in Outcomes
    PROVE  /\ Associated(x, c) \in EntryState /\ Associated(x, c).st = x.st
           /\ Disconnected(x) \in EntryState /\ Disconnected(x).st \in {x.st, "terminal", "failed"}
           /\ Waited(x) \in EntryState /\ Waited(x).st \in {"pending", "terminal"}
           /\ Resolved(x, out) \in EntryState /\ Resolved(x, out).st \in {x.st, "terminal", out}
           /\ Over \in EntryState
<1>1. [x EXCEPT !.conn = c] = [st |-> x.st, conn |-> c] BY DEF EntryState
<1>2. [x EXCEPT !.conn = NoConn] = [st |-> x.st, conn |-> NoConn] BY DEF EntryState
<1>3. [x EXCEPT !.st = "pending"] = [st |-> "pending", conn |-> x.conn] BY DEF EntryState
<1>4. QED BY <1>1, <1>2, <1>3 DEF Associated, Disconnected, Waited, Resolved, Over, EntryState, Outcomes

(* What a resolution does to a registry and to the caller. *)
LEMMA ResolveKeeps ==
    ASSUME AnswerInv, NEW e \in Edges, NEW t, NEW out, IsRecorded(t, out), Resolve(e, t, out)
    PROVE  /\ \A s \in Tasks : caller'[s] = caller[s] \/ (s = t /\ caller'[s] = [caller[s] EXCEPT !.st = out])
           /\ \A f \in Edges, s \in Tasks :
                 \/ registry'[f][s].st \in {registry[f][s].st, "terminal"}
                 \/ s = t /\ registry'[f][s].st = out
           /\ caller' \in [Tasks -> CallerState]
           /\ registry' \in [Edges -> [Tasks -> EntryState]]
<1> DEFINE x == registry[e][t]
           y == [caller[t] EXCEPT !.st = out]
<1>1. t \in Tasks /\ out \in Outcomes /\ x \in EntryState /\ caller[t] \in CallerState
  BY DEF AnswerInv, DispatchTypes, IsRecorded, IsAnswer
<1>2. /\ Resolved(x, out) \in EntryState /\ Resolved(x, out).st \in {x.st, "terminal", out}
      /\ y \in CallerState
  BY <1>1, EntryUpdate, CallerUpdate DEF Ended
<1>3. registry' = [registry EXCEPT ![e][t] = Resolved(x, out)]
  BY DEF Resolve
<1>4. caller' = caller \/ caller' = [caller EXCEPT ![t] = y]
  BY DEF Resolve
<1> HIDE DEF y
<1>5. \A f \in Edges, s \in Tasks :
         registry'[f][s] = IF f = e /\ s = t THEN Resolved(x, out) ELSE registry[f][s]
  BY <1>1, <1>3 DEF AnswerInv, DispatchTypes
<1>6. \A s \in Tasks : caller'[s] = caller[s] \/ (s = t /\ caller'[s] = [caller[s] EXCEPT !.st = out])
  <2>1. \A s \in Tasks : caller'[s] = caller[s] \/ (s = t /\ caller'[s] = y)
    BY <1>1, <1>4 DEF AnswerInv, DispatchTypes
  <2>2. QED BY <2>1 DEF y
<1>7. caller' \in [Tasks -> CallerState]
  BY <1>1, <1>2, <1>4 DEF AnswerInv, DispatchTypes
<1> HIDE DEF x
<1>8. registry' \in [Edges -> [Tasks -> EntryState]]
  BY <1>1, <1>2, <1>3 DEF AnswerInv, DispatchTypes
<1>9. \A f \in Edges, s \in Tasks :
         \/ registry'[f][s].st \in {registry[f][s].st, "terminal"}
         \/ s = t /\ registry'[f][s].st = out
  BY <1>2, <1>5 DEF x
<1>10. QED BY <1>6, <1>7, <1>8, <1>9

LEMMA Resolutions ==
    ASSUME AnswerInv, HandlingStep \/ RowStep
    PROVE  \/ UNCHANGED caller /\ \A f \in Edges, s \in Tasks : registry'[f][s].st = registry[f][s].st
           \/ \E e \in Edges, t \in Tasks, out \in Outcomes : IsRecorded(t, out) /\ Resolve(e, t, out)
<1>1. ASSUME NEW h \in handling, RelayFails(h) PROVE UNCHANGED <<caller, registry>>
  BY <1>1 DEF RelayFails
<1>2. ASSUME NEW h \in handling, ResolveHere(h)
      PROVE  \E e \in Edges, t \in Tasks, out \in Outcomes : IsRecorded(t, out) /\ Resolve(e, t, out)
  BY <1>2 DEF ResolveHere, AnswerInv, HandlingGood, GoodHandling, IsRecorded, IsAnswer
<1>3. ASSUME NEW e \in Edges, NEW r \in batch[e], ProcessEvent(e, r) PROVE UNCHANGED <<caller, registry>>
  BY <1>3 DEF ProcessEvent, dispatchVars
<1>4. ASSUME NEW e \in Edges, NEW r \in batch[e], ProcessRelay(e, r)
      PROVE  \/ UNCHANGED <<caller, registry>>
             \/ \E f \in Edges, t \in Tasks, out \in Outcomes : IsRecorded(t, out) /\ Resolve(f, t, out)
  <2>1. IsRecorded(r.body.task, r.body.out)
    BY <1>4 DEF ProcessRelay, AnswerInv, RowsGood, Rows, GoodRow
  <2>2. QED BY <1>4, <2>1 DEF ProcessRelay, IsRecorded, IsAnswer
<1>5. ASSUME NEW e \in Edges, NEW r \in batch[e], ProcessExecute(e, r)
      PROVE  UNCHANGED caller /\ \A f \in Edges, s \in Tasks : registry'[f][s].st = registry[f][s].st
  <2> DEFINE x == Associated(registry[e][r.body.task], r.body.conn)
  <2>1. UNCHANGED caller BY <1>5 DEF ProcessExecute
  <2>2. registry' = registry \/ registry' = [registry EXCEPT ![e][r.body.task] = x]
    BY <1>5 DEF ProcessExecute
  <2>3. r.body.task \in Tasks /\ r.body.conn \in Conns
    BY <1>5 DEF ProcessExecute, AnswerInv, RowsGood, Rows, GoodRow, Dispatched
  <2>4. x.st = registry[e][r.body.task].st
    <3>1. "ok" \in Outcomes BY DEF Outcomes
    <3>2. registry[e][r.body.task] \in EntryState BY <2>3 DEF AnswerInv, DispatchTypes
    <3>3. QED BY <2>3, <3>1, <3>2, EntryUpdate
  <2> HIDE DEF x
  <2>5. QED BY <2>1, <2>2, <2>3, <2>4 DEF AnswerInv, DispatchTypes
<1>6. QED BY <1>1, <1>2, <1>3, <1>4, <1>5 DEF HandlingStep, RowStep

(* A call is dispatched once; after that only its state changes, to an     *)
(* outcome only if that is on record.                                      *)
Moved(t, v) ==
    /\ caller[t].st # "idle" /\ caller'[t] = [caller[t] EXCEPT !.st = v]
    /\ v \in Outcomes => IsRecorded(t, v)
Chosen(t) ==
    /\ caller[t].st = "idle" /\ caller'[t].st = "chosen"
    /\ caller'[t].edge \in Edges /\ caller'[t].conn \in Conns
    /\ conn[caller'[t].conn].st # "new"
CallerMove(t) ==
    caller'[t] = caller[t] \/ Chosen(t) \/ \E v \in Ended \cup {"sending", "waiting"} : Moved(t, v)

LEMMA CallerMoves ==
    ASSUME AnswerInv, [Next]_vars
    PROVE  caller' \in [Tasks -> CallerState] /\ \A t \in Tasks : CallerMove(t)
<1>0. /\ caller \in [Tasks -> CallerState] /\ \A e \in Edges : registry[e] \in [Tasks -> EntryState]
      /\ \A t \in Tasks : /\ caller[t].st # "idle" => caller[t].edge \in Edges /\ caller[t].conn \in Conns
                          /\ caller[t].st = "idle" => caller[t].edge = NoEdge
  BY DEF AnswerInv, DispatchTypes, NothingUndispatched
<1> DEFINE Conclusion == caller' \in [Tasks -> CallerState] /\ \A t \in Tasks : CallerMove(t)
<1>1. ASSUME UNCHANGED caller PROVE Conclusion BY <1>0, <1>1 DEF CallerMove
<1>2. ASSUME NEW t \in Tasks, NEW v \in Ended \cup {"sending", "waiting"}, caller[t].st # "idle",
             caller' = [caller EXCEPT ![t] = [caller[t] EXCEPT !.st = v]],
             v \in Outcomes => IsRecorded(t, v)
      PROVE  Conclusion
  <2> DEFINE y == [caller[t] EXCEPT !.st = v]
  <2>1. y \in CallerState BY <1>0, <1>2, CallerUpdate
  <2>2. caller' = [caller EXCEPT ![t] = y] /\ (caller'[t] = y => Moved(t, v)) BY <1>2 DEF Moved
  <2> HIDE DEF y
  <2>3. caller' \in [Tasks -> CallerState] /\ caller'[t] = y /\ \A s \in Tasks : s # t => caller'[s] = caller[s]
    BY <1>0, <2>1, <2>2
  <2>4. QED BY <2>2, <2>3 DEF CallerMove
<1>3. ASSUME ConnStep PROVE Conclusion
  <2>1. CASE Break \/ \E c \in Conns, e \in Edges : Connect(c, e)
    BY <1>1, <2>1 DEF Break, Connect
  <2>2. ASSUME NEW c \in Conns, CloseSeen(c) PROVE Conclusion
    <3> DEFINE e == conn[c].edge
               y(t) == [caller[t] EXCEPT !.st = "disconnected"]
    <3>1. caller' = [t \in Tasks |-> IF t \in TasksOf(e, c) /\ WaitsAt(e, t) THEN y(t) ELSE caller[t]]
      BY <2>2 DEF CloseSeen
    <3>2. \A t \in Tasks : y(t) \in CallerState BY <1>0, CallerUpdate DEF Ended
    <3>3. \A t \in Tasks : caller[t].st # "idle" /\ caller'[t] = y(t) => Moved(t, "disconnected")
      BY DEF Moved, Outcomes
    <3> HIDE DEF y
    <3>4. caller' \in [Tasks -> CallerState] BY <1>0, <3>1, <3>2
    <3>5. \A t \in Tasks : caller'[t] = caller[t] \/ (caller[t].st = "waiting" /\ caller'[t] = y(t))
      BY <3>1 DEF WaitsAt
    <3>6. QED BY <3>3, <3>4, <3>5 DEF CallerMove, Ended
  <2>3. QED BY <1>3, <2>1, <2>2 DEF ConnStep
<1>4. ASSUME NEW e \in Edges, Crash(e) PROVE Conclusion
  <2> DEFINE y(t) == [caller[t] EXCEPT !.st = "lost"]
  <2>1. caller' = [t \in Tasks |-> IF caller[t].edge = e /\ caller[t].st \notin Ended THEN y(t) ELSE caller[t]]
    BY <1>4 DEF Crash
  <2>2. \A t \in Tasks : y(t) \in CallerState BY <1>0, CallerUpdate DEF Ended
  <2>3. \A t \in Tasks : caller[t].st # "idle" /\ caller'[t] = y(t) => Moved(t, "lost")
    BY DEF Moved, Outcomes
  <2> HIDE DEF y
  <2>4. caller' \in [Tasks -> CallerState] BY <1>0, <2>1, <2>2
  <2>5. \A t \in Tasks : caller'[t] = caller[t] \/ (caller[t].st # "idle" /\ caller'[t] = y(t))
    BY <1>0, <2>1, DispatchAssumption
  <2>6. QED BY <2>3, <2>4, <2>5 DEF CallerMove, Ended
<1>5. ASSUME NEW t \in Tasks, NEW e \in Edges, NEW c \in Conns, Dispatch(t, e, c) PROVE Conclusion
  <2>1. conn[c].st # "new" BY <1>5 DEF Dispatch, MayTarget, Open, Listed
  <2>2. QED BY <1>0, <1>5, <2>1 DEF Dispatch, CallerMove, Chosen, CallerState, Ended
<1>6. ASSUME NEW t \in Tasks, SendLocal(t) \/ StartWait(t) \/ Timeout(t) PROVE Conclusion
  <2>1. caller[t].st \in {"chosen", "sending", "waiting"} /\ caller[t].edge \in Edges /\ caller[t].conn \in Conns
    BY <1>0, <1>6 DEF SendLocal, StartWait, Timeout
  <2> DEFINE x == registry[caller[t].edge][t]
  <2>2. x \in EntryState /\ (x.st \in Outcomes => IsRecorded(t, x.st))
    BY <1>0, <2>1 DEF AnswerInv, RegistryGood, Good
  <2>3. Associated(x, caller[t].conn).st = x.st
    BY <2>1, <2>2, EntryUpdate DEF Outcomes
  <2>4. \A z : z.st = x.st => /\ Meets(z) \in Ended \cup {"sending", "waiting"}
                              /\ Meets(z) \in Outcomes => IsRecorded(t, Meets(z))
    BY <2>2 DEF Meets, Ended, Outcomes
  <2>5. ASSUME NEW z, z.st = x.st, caller' = [caller EXCEPT ![t].st = Meets(z)] PROVE Conclusion
    BY <1>2, <2>1, <2>4, <2>5
  <2>6. CASE SendLocal(t) BY <2>3, <2>5, <2>6 DEF SendLocal
  <2>7. CASE StartWait(t) BY <2>5, <2>7 DEF StartWait
  <2>8. CASE Timeout(t)
    <3>1. "timeout" \in Ended /\ "timeout" \notin Outcomes BY DEF Ended, Outcomes
    <3>2. caller' = [caller EXCEPT ![t] = [caller[t] EXCEPT !.st = "timeout"]]
      BY <2>8 DEF Timeout
    <3>3. QED BY <1>2, <2>1, <3>1, <3>2
  <2>9. QED BY <1>6, <2>6, <2>7, <2>8
<1>7. ASSUME NodeStep \/ ReplyStep \/ TableStep PROVE Conclusion
  BY <1>1, <1>7 DEF NodeStep, Receive, Finish, ReplyStep, Reply, Refuse, TableStep, dispatchVars
<1>8. ASSUME InsertStep PROVE Conclusion
  <2>1. ASSUME NEW t \in Tasks, SendRemote(t) PROVE Conclusion
    BY <1>2, <2>1 DEF SendRemote, Outcomes
  <2>2. CASE (\E e \in Edges : Broadcast(e)) \/ (\E h \in handling : Relay(h))
    BY <1>1, <2>2 DEF Broadcast, Relay, dispatchVars
  <2>3. QED BY <1>8, <2>1, <2>2 DEF InsertStep
<1>9. ASSUME HandlingStep \/ RowStep PROVE Conclusion
  <2>1. ASSUME NEW e \in Edges, NEW t \in Tasks, NEW out \in Outcomes, IsRecorded(t, out), Resolve(e, t, out)
        PROVE  Conclusion
    <3>1. caller' = caller \/ (caller[t].st = "waiting" /\ caller' = [caller EXCEPT ![t] = [caller[t] EXCEPT !.st = out]])
      BY <2>1 DEF Resolve, WaitsAt
    <3>2. QED BY <1>1, <1>2, <2>1, <3>1 DEF Ended
  <2>2. QED BY <1>1, <1>9, <2>1, Resolutions
<1>10. QED BY <1>3, <1>4, <1>5, <1>6, <1>7, <1>8, <1>9, NextCases DEF CrashStep, DispatchStep, CallStep

(* An entry of a registry gets an outcome only from the record.            *)
EntryMove(e, t) ==
    \/ registry'[e][t].st \in {registry[e][t].st, "none", "pending", "failed", "terminal"}
    \/ IsRecorded(t, registry'[e][t].st)

LEMMA RegistryMoves ==
    ASSUME AnswerInv, [Next]_vars
    PROVE  /\ registry' \in [Edges -> [Tasks -> EntryState]]
           /\ \A e \in Edges, t \in Tasks : EntryMove(e, t)
<1>0. registry \in [Edges -> [Tasks -> EntryState]]
  BY DEF AnswerInv, DispatchTypes
<1> DEFINE Conclusion == /\ registry' \in [Edges -> [Tasks -> EntryState]]
                         /\ \A e \in Edges, t \in Tasks : EntryMove(e, t)
<1>1. ASSUME UNCHANGED registry PROVE Conclusion BY <1>0, <1>1 DEF EntryMove
<1>2. ASSUME NEW e \in Edges, NEW t \in Tasks, NEW y \in EntryState,
             y.st \in {registry[e][t].st, "none", "pending", "failed", "terminal"},
             registry' = [registry EXCEPT ![e][t] = y]
      PROVE  Conclusion
  BY <1>0, <1>2 DEF EntryMove
<1>3. "ok" \in Outcomes BY DEF Outcomes
<1>4. ASSUME NEW c \in Conns, CloseSeen(c) PROVE Conclusion
  <2> DEFINE e == conn[c].edge
             y(t) == Disconnected(registry[e][t])
             z == [t \in Tasks |-> IF t \in TasksOf(e, c) THEN y(t) ELSE registry[e][t]]
  <2>1. registry' = [registry EXCEPT ![e] = z] BY <1>4 DEF CloseSeen
  <2>2. CASE e \in Edges
    <3>1. \A t \in Tasks : y(t) \in EntryState /\ y(t).st \in {registry[e][t].st, "terminal", "failed"}
      BY <1>0, <1>3, <2>2, EntryUpdate
    <3> HIDE DEF y, e
    <3>2. z \in [Tasks -> EntryState] /\ \A t \in Tasks : z[t].st \in {registry[e][t].st, "terminal", "failed"}
      BY <1>0, <2>2, <3>1
    <3> HIDE DEF z
    <3>3. QED BY <1>0, <2>1, <2>2, <3>2 DEF EntryMove
  <2>3. CASE e \notin Edges
    <3> HIDE DEF z, e
    <3>1. registry' = registry BY <1>0, <2>1, <2>3
    <3>2. QED BY <1>1, <3>1
  <2>4. QED BY <2>2, <2>3
<1>5. ASSUME Break \/ \E c \in Conns, e \in Edges : Connect(c, e) PROVE Conclusion
  BY <1>1, <1>5 DEF Break, Connect
<1>6. ASSUME NEW e \in Edges, Crash(e) PROVE Conclusion
  <2> DEFINE z == [t \in Tasks |-> [st |-> "none", conn |-> NoConn]]
  <2>1. registry' = [registry EXCEPT ![e] = z] BY <1>6 DEF Crash
  <2>2. z \in [Tasks -> EntryState] /\ \A t \in Tasks : z[t].st = "none" BY DEF EntryState
  <2> HIDE DEF z
  <2>3. QED BY <1>0, <2>1, <2>2 DEF EntryMove
<1>7. ASSUME NEW t \in Tasks, SendLocal(t) \/ StartWait(t) \/ Timeout(t) PROVE Conclusion
  <2>1. caller[t].edge \in Edges /\ caller[t].conn \in Conns
    BY <1>7 DEF SendLocal, StartWait, Timeout, AnswerInv, NothingUndispatched
  <2> DEFINE x == registry[caller[t].edge][t]
  <2>2. x \in EntryState BY <1>0, <2>1
  <2>3. ASSUME NEW y \in EntryState, y.st \in {"pending", "terminal"},
               registry' = [registry EXCEPT ![caller[t].edge][t] = y]
        PROVE  Conclusion
    BY <1>2, <2>1, <2>3
  <2>4. \A w \in EntryState : Waited(w) \in EntryState /\ Waited(w).st \in {"pending", "terminal"}
    BY <1>3, <2>1, EntryUpdate
  <2>5. Associated(x, caller[t].conn) \in EntryState BY <1>3, <2>1, <2>2, EntryUpdate
  <2>6. Over \in EntryState /\ Over.st = "terminal" BY DEF Over, EntryState
  <2>7. CASE SendLocal(t) BY <2>3, <2>4, <2>5, <2>7 DEF SendLocal
  <2>8. CASE StartWait(t) BY <2>2, <2>3, <2>4, <2>8 DEF StartWait
  <2>9. CASE Timeout(t) BY <2>3, <2>6, <2>9 DEF Timeout
  <2>10. QED BY <1>7, <2>7, <2>8, <2>9
<1>8. ASSUME DispatchStep \/ NodeStep \/ ReplyStep \/ TableStep \/ InsertStep PROVE Conclusion
  <2>1. CASE DispatchStep \/ NodeStep \/ ReplyStep \/ TableStep
    BY <1>1, <2>1 DEF DispatchStep, Dispatch, NodeStep, Receive, Finish, ReplyStep, Reply, Refuse,
                      TableStep, dispatchVars
  <2>2. CASE InsertStep
    BY <1>1, <2>2 DEF InsertStep, Broadcast, SendRemote, Relay, dispatchVars
  <2>3. QED BY <1>8, <2>1, <2>2
<1>9. ASSUME NEW e \in Edges, NEW t \in Tasks, NEW out \in Outcomes, IsRecorded(t, out), Resolve(e, t, out)
      PROVE  Conclusion
  BY <1>9, ResolveKeeps DEF EntryMove
<1>10. ASSUME HandlingStep PROVE Conclusion
  BY <1>1, <1>9, <1>10 DEF HandlingStep, RelayFails, ResolveHere, AnswerInv, HandlingGood, GoodHandling,
                           IsRecorded, IsAnswer
<1>11. ASSUME NEW e \in Edges, NEW r \in batch[e],
              ProcessExecute(e, r) \/ ProcessRelay(e, r) \/ ProcessEvent(e, r)
       PROVE  Conclusion
  <2>0. GoodRow(r) BY DEF AnswerInv, RowsGood, Rows
  <2>1. CASE ProcessEvent(e, r) BY <1>1, <2>1 DEF ProcessEvent, dispatchVars
  <2>2. CASE ProcessRelay(e, r)
    BY <1>1, <1>9, <2>0, <2>2 DEF ProcessRelay, GoodRow, IsRecorded, IsAnswer
  <2>3. CASE ProcessExecute(e, r)
    <3>1. r.body.task \in Tasks /\ r.body.conn \in Conns
      BY <2>0, <2>3 DEF ProcessExecute, GoodRow, Dispatched
    <3> DEFINE y == Associated(registry[e][r.body.task], r.body.conn)
    <3>2. y \in EntryState /\ y.st = registry[e][r.body.task].st
      <4>1. registry[e][r.body.task] \in EntryState BY <1>0, <3>1
      <4>2. QED BY <1>3, <3>1, <4>1, EntryUpdate
    <3>3. registry' = registry \/ registry' = [registry EXCEPT ![e][r.body.task] = y]
      BY <2>3 DEF ProcessExecute
    <3>4. QED BY <1>1, <1>2, <3>1, <3>2, <3>3
  <2>4. QED BY <1>11, <2>1, <2>2, <2>3
<1>12. QED BY <1>4, <1>5, <1>6, <1>7, <1>8, <1>10, <1>11, NextCases
           DEF ConnStep, CrashStep, CallStep, RowStep

(* What is known of an answer, or of a call, stays known: the node answers *)
(* once, and only its answer is written to the record.                     *)
Kept ==
    /\ \A t, out : IsAnswer(t, out) => IsAnswer(t, out)'
    /\ \A t, out : IsRecorded(t, out) => IsRecorded(t, out)'
    /\ \A t : Dispatched(t) => Dispatched(t)'

LEMMA KeptHolds ==
    ASSUME AnswerInv, faults \in Nat, [Next]_vars
    PROVE  Kept
<1>0. faults' = 0 => faults = 0 BY FaultsGrow
<1>1. \A t \in Tasks : node[t] \in Outcomes => node'[t] = node[t]
  <2>1. CASE NodeStep
    BY <2>1 DEF NodeStep, Receive, Finish, Outcomes, AnswerInv, DispatchTypes
  <2>2. CASE ConnStep \/ CrashStep \/ DispatchStep \/ CallStep \/ ReplyStep
    BY <2>2 DEF ConnStep, Break, CloseSeen, Connect, CrashStep, Crash, DispatchStep, Dispatch,
                CallStep, SendLocal, StartWait, Timeout, ReplyStep, Reply, Refuse
  <2>3. CASE InsertStep \/ HandlingStep \/ RowStep \/ TableStep
    BY <2>3 DEF InsertStep, Broadcast, SendRemote, Relay, HandlingStep, RelayFails, ResolveHere,
                RowStep, ProcessExecute, ProcessRelay, ProcessEvent, TableStep, dispatchVars
  <2>4. QED BY <2>1, <2>2, <2>3, NextCases
<1>2. \A t \in Tasks, out \in Outcomes : IsAnswer(t, out) /\ record[t] = out => record'[t] = out
  <2>1. CASE DispatchStep
    BY <2>1 DEF DispatchStep, Dispatch, IsAnswer, AnswerInv, NothingUndispatched, Dispatched, Outcomes,
                DispatchTypes
  <2>2. CASE ReplyStep
    BY <2>2 DEF ReplyStep, Reply, Refuse, Completed, IsAnswer, AnswerInv, RepliesGood, GoodReply,
                DispatchTypes
  <2>3. CASE ConnStep \/ CrashStep \/ CallStep \/ NodeStep
    BY <2>3 DEF ConnStep, Break, CloseSeen, Connect, CrashStep, Crash, CallStep, SendLocal,
                StartWait, Timeout, NodeStep, Receive, Finish
  <2>4. CASE InsertStep \/ HandlingStep \/ RowStep \/ TableStep
    BY <2>4 DEF InsertStep, Broadcast, SendRemote, Relay, HandlingStep, RelayFails, ResolveHere,
                RowStep, ProcessExecute, ProcessRelay, ProcessEvent, TableStep, dispatchVars
  <2>5. QED BY <2>1, <2>2, <2>3, <2>4, NextCases
<1>3. \A t : Dispatched(t) => Dispatched(t)'
  <2> SUFFICES ASSUME NEW t, Dispatched(t) PROVE Dispatched(t)'
    OBVIOUS
  <2>1. t \in Tasks /\ caller[t] \in CallerState BY DEF Dispatched, AnswerInv, DispatchTypes
  <2>2. CallerMove(t) BY <2>1, CallerMoves
  <2>3. ASSUME NEW v \in Ended \cup {"sending", "waiting"}, Moved(t, v) PROVE Dispatched(t)'
    <3>1. caller'[t] = [st |-> v, edge |-> caller[t].edge, conn |-> caller[t].conn]
      BY <2>1, <2>3, CallerUpdate DEF Moved
    <3>2. v # "idle" BY <2>3 DEF Ended, Outcomes
    <3>3. QED BY <2>1, <3>1, <3>2 DEF Dispatched
  <2>4. QED BY <2>1, <2>2, <2>3 DEF Dispatched, CallerMove, Chosen
<1>4. QED BY <1>0, <1>1, <1>2, <1>3 DEF Kept, IsAnswer, IsRecorded

LEMMA EntriesKept ==
    ASSUME AnswerInv, Kept, [Next]_vars
    PROVE  RegistryGood' /\ CallersGood'
<1>1. RegistryGood'
  <2> SUFFICES ASSUME NEW e \in Edges, NEW t \in Tasks, NEW v \in Outcomes, registry'[e][t].st = v
               PROVE  IsRecorded(t, v)'
    BY DEF RegistryGood, Good
  <2>1. EntryMove(e, t) BY RegistryMoves
  <2>2. IsRecorded(t, v)
    BY <2>1 DEF EntryMove, Outcomes, AnswerInv, RegistryGood, Good
  <2>3. QED BY <2>2 DEF Kept
<1>2. CallersGood'
  <2> SUFFICES ASSUME NEW t \in Tasks, NEW v \in Outcomes, caller'[t].st = v
               PROVE  IsRecorded(t, v)'
    BY DEF CallersGood, Good
  <2>1. CallerMove(t) BY CallerMoves
  <2>2. IsRecorded(t, v)
    <3>1. CASE caller'[t] = caller[t] BY <3>1 DEF AnswerInv, CallersGood, Good
    <3>2. CASE Chosen(t) BY <3>2 DEF Chosen, Outcomes
    <3>3. ASSUME NEW w, Moved(t, w) PROVE IsRecorded(t, v)
      <4>1. caller[t] \in CallerState BY DEF AnswerInv, DispatchTypes
      <4>2. caller'[t].st = w BY <3>3, <4>1, CallerUpdate DEF Moved
      <4>3. QED BY <3>3, <4>2 DEF Moved
    <3>4. QED BY <2>1, <3>1, <3>2, <3>3 DEF CallerMove
  <2>3. QED BY <2>2 DEF Kept
<1>3. QED BY <1>1, <1>2

LEMMA MessagesKept ==
    ASSUME AnswerInv, Kept, faults \in Nat, [Next]_vars
    PROVE  RepliesGood' /\ HandlingGood'
<1>0. faults' = 0 => faults = 0 BY FaultsGrow
<1>1. \A m : (GoodReply(m) => GoodReply(m)') /\ (GoodHandling(m) => GoodHandling(m)')
  BY DEF Kept, GoodReply, GoodHandling
<1>2. ASSUME replies' \subseteq replies PROVE RepliesGood'
  BY <1>1, <1>2 DEF AnswerInv, RepliesGood
<1>3. ASSUME handling' \subseteq handling PROVE HandlingGood'
  BY <1>1, <1>3 DEF AnswerInv, HandlingGood
<1>4. ASSUME NEW t \in Tasks, NEW out \in Outcomes, node'[t] = out,
             replies' \subseteq replies \cup Answer(t, out)
      PROVE  RepliesGood'
  <2>1. \A m \in Answer(t, out) : m.task = t /\ m.out = out /\ m.conn \in Conns
    BY DEF Answer, AnswerInv, DispatchTypes
  <2>2. QED BY <1>1, <1>4, <2>1 DEF AnswerInv, RepliesGood, GoodReply, IsAnswer
<1>5. CASE NodeStep
  <2>1. ASSUME NEW m \in sent, Receive(m) PROVE RepliesGood'
    <3>1. m.task \in Tasks BY DEF AnswerInv, NothingUndispatched, Dispatched
    <3>2. CASE node[m.task] \in Outcomes
      <4>1. node' = node BY <2>1, <3>2 DEF Receive, Outcomes
      <4>2. QED BY <1>4, <2>1, <3>1, <3>2, <4>1 DEF Receive
    <3>3. CASE node[m.task] \notin Outcomes BY <1>2, <2>1, <3>3 DEF Receive
    <3>4. QED BY <3>2, <3>3
  <2>2. ASSUME NEW t \in Tasks, NEW out \in Outcomes, Finish(t, out) PROVE RepliesGood'
    <3>1. node'[t] = out BY <2>2 DEF Finish, AnswerInv, DispatchTypes
    <3>2. QED BY <1>4, <2>2, <3>1 DEF Finish
  <2>3. HandlingGood' BY <1>3, <1>5 DEF NodeStep, Receive, Finish
  <2>4. QED BY <1>5, <2>1, <2>2, <2>3 DEF NodeStep
<1>6. CASE ReplyStep
  <2>1. RepliesGood' BY <1>2, <1>6 DEF ReplyStep, Reply, Refuse
  <2>2. ASSUME NEW e \in Edges, NEW m \in replies, Reply(e, m) PROVE HandlingGood'
    <3> DEFINE new == [edge |-> e, task |-> m.task, out |-> m.out]
    <3>1. GoodReply(m) BY DEF AnswerInv, RepliesGood
    <3>2. IsAnswer(m.task, m.out)' BY <3>1 DEF GoodReply, Kept
    <3>3. faults' = 0 => record'[m.task] = m.out
      <4>1. CASE record' = Completed(e, m)
        BY <3>1, <4>1 DEF Completed, GoodReply, IsAnswer, AnswerInv, DispatchTypes
      <4>2. CASE Fails BY <4>2 DEF Fails
      <4>3. QED BY <2>2, <4>1, <4>2 DEF Reply
    <3>4. GoodHandling(new)' BY <3>2, <3>3 DEF GoodHandling, IsRecorded
    <3>5. handling' = handling \cup {new} BY <2>2 DEF Reply
    <3>6. QED BY <1>1, <3>4, <3>5 DEF AnswerInv, HandlingGood
  <2>3. ASSUME NEW e \in Edges, NEW m \in replies, Refuse(e, m) PROVE HandlingGood'
    BY <1>3, <2>3 DEF Refuse
  <2>4. QED BY <1>6, <2>1, <2>2, <2>3 DEF ReplyStep
<1>7. CASE ConnStep \/ CrashStep \/ DispatchStep \/ CallStep
  BY <1>2, <1>3, <1>7
     DEF ConnStep, Break, CloseSeen, Connect, CrashStep, Crash, DispatchStep, Dispatch, CallStep,
         SendLocal, StartWait, Timeout
<1>8. CASE InsertStep \/ HandlingStep \/ RowStep \/ TableStep
  BY <1>2, <1>3, <1>8
     DEF InsertStep, Broadcast, SendRemote, Relay, HandlingStep, RelayFails, ResolveHere, RowStep,
         ProcessExecute, ProcessRelay, ProcessEvent, TableStep, dispatchVars
<1>9. QED BY <1>5, <1>6, <1>7, <1>8, NextCases

LEMMA RowsKept ==
    ASSUME OutboxInv, AnswerInv, Kept, [Next]_vars
    PROVE  RowsGood'
<1>1. \A r : GoodRow(r) => GoodRow(r)' BY DEF Kept, GoodRow
<1>2. ASSUME Rows' \subseteq Rows PROVE RowsGood' BY <1>1, <1>2 DEF AnswerInv, RowsGood
<1>3. ASSUME NEW from, NEW to, NEW body, Put(from, to, body), UNCHANGED <<rows, batch>>,
             body.kind = "relay" => IsRecorded(body.task, body.out),
             body.kind = "execute" => Dispatched(body.task) /\ body.conn \in Conns
      PROVE  RowsGood'
  <2> DEFINE new == [id |-> nextId, from |-> from, to |-> to, body |-> body]
  <2>1. new.body = body /\ writing' = writing \cup {new} BY <1>3 DEF Put
  <2> HIDE DEF new
  <2>2. GoodRow(new) BY <1>3, <2>1 DEF GoodRow
  <2>3. Rows' = Rows \cup {new} BY <1>3, <2>1 DEF Rows
  <2>4. QED BY <1>1, <2>2, <2>3 DEF AnswerInv, RowsGood
<1>4. ASSUME UNCHANGED <<rows, writing, batch>> PROVE RowsGood' BY <1>2, <1>4 DEF Rows
<1>5. ASSUME rows' \subseteq rows, UNCHANGED writing, NEW e \in Edges, NEW b, b \subseteq Rows,
             batch' = [batch EXCEPT ![e] = b]
      PROVE  RowsGood'
  <2>1. \A f \in Edges : batch'[f] \subseteq Rows BY <1>5 DEF OutboxInv, Rows
  <2>2. QED BY <1>2, <1>5, <2>1 DEF Rows
<1>6. CASE InsertStep
  <2>1. ASSUME NEW e \in Edges, Broadcast(e) PROVE RowsGood'
    BY <1>3, <2>1 DEF Broadcast, pollerVars
  <2>2. ASSUME NEW t \in Tasks, SendRemote(t) PROVE RowsGood'
    <3> DEFINE body == [kind |-> "execute", task |-> t, conn |-> caller[t].conn, out |-> "none"]
    <3>1. body.kind = "execute" /\ Dispatched(body.task) /\ body.conn \in Conns
      BY <2>2 DEF SendRemote, Dispatched, AnswerInv, NothingUndispatched
    <3>2. Put(caller[t].edge, conn[caller[t].conn].edge, body) /\ UNCHANGED <<rows, batch>>
      BY <2>2 DEF SendRemote, pollerVars
    <3> HIDE DEF body
    <3>3. QED BY <1>3, <3>1, <3>2
  <2>3. ASSUME NEW h \in handling, Relay(h) PROVE RowsGood'
    <3> DEFINE body == [kind |-> "relay", task |-> h.task, conn |-> NoConn, out |-> h.out]
    <3>1. body.kind = "relay" /\ IsRecorded(body.task, body.out)
      BY DEF AnswerInv, HandlingGood, GoodHandling
    <3>2. Put(h.edge, caller[h.task].edge, body) /\ UNCHANGED <<rows, batch>>
      BY <2>3 DEF Relay, pollerVars
    <3> HIDE DEF body
    <3>3. QED BY <1>3, <3>1, <3>2
  <2>4. QED BY <1>6, <2>1, <2>2, <2>3 DEF InsertStep
<1>7. CASE TableStep
  <2>1. ASSUME NEW e \in Edges, Poll(e) PROVE RowsGood'
    <3>1. Unread(e) \subseteq Rows BY DEF Unread, Rows
    <3>2. QED BY <1>5, <2>1, <3>1 DEF Poll
  <2>2. ASSUME NEW e \in Edges, AckFails(e) PROVE RowsGood'
    BY <1>5, <2>2 DEF AckFails
  <2>3. ASSUME NEW e \in Edges, NEW r \in batch[e], Ack(e, r) PROVE RowsGood'
    <3>1. batch[e] \ {r} \subseteq Rows BY DEF Rows
    <3>2. QED BY <1>5, <2>3, <3>1 DEF Ack
  <2>4. ASSUME NEW r \in writing, Commit(r) \/ Rollback(r) PROVE RowsGood'
    BY <1>2, <2>4 DEF Commit, Rollback, pollerVars, Rows
  <2>5. ASSUME NEW cutoff, NEW late, Prune(cutoff, late) PROVE RowsGood'
    BY <1>2, <2>5 DEF Prune, Rows
  <2>6. CASE UNCHANGED outboxVars BY <1>4, <2>6 DEF outboxVars
  <2>7. QED BY <1>7, <2>1, <2>2, <2>3, <2>4, <2>5, <2>6 DEF TableStep
<1>8. ASSUME NEW e \in Edges, Crash(e) PROVE RowsGood'
  BY <1>5, <1>8 DEF Crash, Stops
<1>9. CASE RowStep
  BY <1>4, <1>9 DEF RowStep, ProcessExecute, ProcessRelay, ProcessEvent, Processes
<1>10. CASE ConnStep \/ DispatchStep \/ CallStep \/ NodeStep \/ ReplyStep \/ HandlingStep
  BY <1>4, <1>10
     DEF ConnStep, Break, CloseSeen, Connect, DispatchStep, Dispatch, CallStep, SendLocal, StartWait,
         Timeout, NodeStep, Receive, Finish, ReplyStep, Reply, Refuse, HandlingStep, RelayFails,
         ResolveHere, outboxVars, pollerVars
<1>11. QED BY <1>6, <1>7, <1>8, <1>9, <1>10, NextCases DEF CrashStep

LEMMA UndispatchedKept ==
    ASSUME AnswerInv, Kept, [Next]_vars
    PROVE  NothingUndispatched'
<1>0. \A t : Dispatched(t) => Dispatched(t)' BY DEF Kept
<1>1. \A t \in Tasks : node'[t] # "none" => Dispatched(t)'
  <2>1. ASSUME NEW t \in Tasks, node'[t] # "none" PROVE node[t] # "none" \/ Dispatched(t)
    <3>1. CASE NodeStep
      BY <2>1, <3>1 DEF NodeStep, Receive, Finish, AnswerInv, NothingUndispatched, DispatchTypes
    <3>2. CASE ConnStep \/ CrashStep \/ DispatchStep \/ CallStep \/ ReplyStep
      BY <2>1, <3>2 DEF ConnStep, Break, CloseSeen, Connect, CrashStep, Crash, DispatchStep, Dispatch,
                  CallStep, SendLocal, StartWait, Timeout, ReplyStep, Reply, Refuse
    <3>3. CASE InsertStep \/ HandlingStep \/ RowStep \/ TableStep
      BY <2>1, <3>3 DEF InsertStep, Broadcast, SendRemote, Relay, HandlingStep, RelayFails, ResolveHere,
                  RowStep, ProcessExecute, ProcessRelay, ProcessEvent, TableStep, dispatchVars
    <3>4. QED BY <3>1, <3>2, <3>3, NextCases
  <2>2. QED BY <1>0, <2>1 DEF AnswerInv, NothingUndispatched
<1>2. ASSUME NEW t \in Tasks
      PROVE  /\ caller'[t].st # "idle" => caller'[t].edge \in Edges /\ caller'[t].conn \in Conns
             /\ caller'[t].st = "idle" => caller'[t].edge = NoEdge
  <2>0. /\ caller[t] \in CallerState
        /\ caller[t].st # "idle" => caller[t].edge \in Edges /\ caller[t].conn \in Conns
        /\ caller[t].st = "idle" => caller[t].edge = NoEdge
    BY DEF AnswerInv, NothingUndispatched, DispatchTypes
  <2>1. CASE caller'[t] = caller[t] BY <2>0, <2>1
  <2>2. CASE Chosen(t) BY <2>2 DEF Chosen
  <2>3. ASSUME NEW v \in Ended \cup {"sending", "waiting"}, Moved(t, v)
        PROVE  caller'[t].st # "idle" /\ caller'[t].edge \in Edges /\ caller'[t].conn \in Conns
    <3>1. caller'[t] = [st |-> v, edge |-> caller[t].edge, conn |-> caller[t].conn]
      BY <2>0, <2>3, CallerUpdate DEF Moved
    <3>2. v # "idle" /\ caller[t].st # "idle" BY <2>3 DEF Ended, Outcomes, Moved
    <3>3. QED BY <2>0, <3>1, <3>2
  <2>4. QED BY <2>1, <2>2, <2>3, CallerMoves DEF CallerMove
<1>3. \A m \in sent' : Dispatched(m.task)'
  <2>1. ASSUME NEW m \in sent' PROVE m \in sent \/ Dispatched(m.task)
    <3>1. ASSUME NEW t \in Tasks, SendLocal(t) PROVE m \in sent \/ Dispatched(m.task)
      <4>1. Dispatched(t) BY <3>1 DEF SendLocal, Dispatched, AnswerInv, NothingUndispatched
      <4>2. m \in sent \/ m.task = t BY <2>1, <3>1 DEF SendLocal, OnSocket
      <4>3. QED BY <4>1, <4>2
    <3>2. ASSUME NEW t \in Tasks, StartWait(t) \/ Timeout(t) PROVE m \in sent
      BY <2>1, <3>2 DEF StartWait, Timeout
    <3>3. ASSUME NEW e \in Edges, NEW r \in batch[e], ProcessExecute(e, r)
          PROVE  m \in sent \/ Dispatched(m.task)
      <4>1. Dispatched(r.body.task)
        BY <3>3 DEF ProcessExecute, AnswerInv, RowsGood, Rows, GoodRow
      <4>2. m \in sent \/ m.task = r.body.task BY <2>1, <3>3 DEF ProcessExecute, OnSocket
      <4>3. QED BY <4>1, <4>2
    <3>4. ASSUME NEW e \in Edges, NEW r \in batch[e], ProcessRelay(e, r) \/ ProcessEvent(e, r)
          PROVE  m \in sent
      BY <2>1, <3>4 DEF ProcessRelay, ProcessEvent, dispatchVars
    <3>5. CASE ConnStep \/ CrashStep \/ DispatchStep \/ NodeStep \/ ReplyStep
      BY <2>1, <3>5 DEF ConnStep, Break, CloseSeen, Connect, CrashStep, Crash, DispatchStep, Dispatch,
                        NodeStep, Receive, Finish, ReplyStep, Reply, Refuse
    <3>6. CASE InsertStep \/ HandlingStep \/ TableStep
      BY <2>1, <3>6 DEF InsertStep, Broadcast, SendRemote, Relay, HandlingStep, RelayFails, ResolveHere,
                        TableStep, dispatchVars
    <3>7. QED BY <3>1, <3>2, <3>3, <3>4, <3>5, <3>6, NextCases DEF CallStep, RowStep
  <2>2. QED BY <1>0, <2>1 DEF AnswerInv, NothingUndispatched
<1>4. \A e \in Edges : \A t \in route'[e] : Dispatched(t)'
  <2>1. ASSUME NEW e \in Edges, NEW t \in route'[e] PROVE t \in route[e] \/ Dispatched(t)
    <3>1. ASSUME NEW f \in Edges, NEW r \in batch[f], ProcessExecute(f, r)
          PROVE  t \in route[e] \/ Dispatched(t)
      <4>1. Dispatched(r.body.task)
        BY <3>1 DEF ProcessExecute, AnswerInv, RowsGood, Rows, GoodRow
      <4>2. t \in route[e] \/ t = r.body.task
        BY <2>1, <3>1 DEF ProcessExecute, AnswerInv, DispatchTypes
      <4>3. QED BY <4>1, <4>2
    <3>2. ASSUME NEW f \in Edges, NEW r \in batch[f], ProcessRelay(f, r) \/ ProcessEvent(f, r)
          PROVE  t \in route[e]
      BY <2>1, <3>2 DEF ProcessRelay, ProcessEvent, dispatchVars
    <3>3. CASE ConnStep \/ CrashStep \/ DispatchStep \/ CallStep \/ NodeStep \/ ReplyStep
      BY <2>1, <3>3 DEF ConnStep, Break, CloseSeen, Connect, CrashStep, Crash, DispatchStep, Dispatch,
                        CallStep, SendLocal, StartWait, Timeout, NodeStep, Receive, Finish,
                        ReplyStep, Reply, Refuse, AnswerInv, DispatchTypes
    <3>4. CASE HandlingStep \/ TableStep
      BY <2>1, <3>4 DEF HandlingStep, RelayFails, ResolveHere, TableStep, dispatchVars
    <3>5. ASSUME NEW h \in handling, Relay(h) PROVE t \in route[e]
      BY <2>1, <3>5 DEF Relay, AnswerInv, DispatchTypes
    <3>6. ASSUME NEW f, Broadcast(f) \/ SendRemote(f) PROVE t \in route[e]
      BY <2>1, <3>6 DEF Broadcast, SendRemote, dispatchVars
    <3>7. QED BY <3>1, <3>2, <3>3, <3>4, <3>5, <3>6, NextCases DEF RowStep, InsertStep
  <2>2. QED BY <1>0, <2>1 DEF AnswerInv, NothingUndispatched
<1>5. QED BY <1>1, <1>2, <1>3, <1>4 DEF NothingUndispatched

LEMMA TypesKept ==
    ASSUME AnswerInv, [Next]_vars
    PROVE  DispatchTypes'
<1>0. DispatchTypes BY DEF AnswerInv
<1>1. caller' \in [Tasks -> CallerState] /\ registry' \in [Edges -> [Tasks -> EntryState]]
  BY CallerMoves, RegistryMoves
<1> DEFINE Rest == /\ wired \in BOOLEAN
                   /\ conn \in [Conns -> [st : {"new", "open", "closed"}, edge : Edges \cup {NoEdge}]]
                   /\ socket \in Conns \cup {NoConn}
                   /\ record \in [Tasks -> Outcomes \cup {"none", "dispatched"}]
                   /\ route \in [Edges -> SUBSET Tasks]
                   /\ node \in [Tasks -> Outcomes \cup {"none", "busy"}]
                   /\ live \subseteq Edges
<1>2. Rest BY <1>0 DEF DispatchTypes
<1>3. ASSUME UNCHANGED <<wired, conn, socket, record, route, node, live>> PROVE Rest' BY <1>2, <1>3
<1>4. ASSUME ConnStep PROVE Rest'
  <2>1. CASE Break BY <1>2, <2>1 DEF Break
  <2>2. ASSUME NEW c \in Conns, CloseSeen(c) PROVE Rest'
    <3>1. conn' \in [Conns -> [st : {"new", "open", "closed"}, edge : Edges \cup {NoEdge}]]
      BY <1>2, <2>2 DEF CloseSeen
    <3>2. UNCHANGED <<wired, socket, record, route, node, live>> BY <2>2 DEF CloseSeen, outboxVars
    <3>3. QED BY <1>2, <3>1, <3>2
  <2>3. ASSUME NEW c \in Conns, NEW e \in Edges, Connect(c, e) PROVE Rest'
    <3>1. conn' \in [Conns -> [st : {"new", "open", "closed"}, edge : Edges \cup {NoEdge}]]
      BY <1>2, <2>3 DEF Connect
    <3>2. socket' = c /\ UNCHANGED <<wired, record, route, node, live>> BY <2>3 DEF Connect, outboxVars
    <3>3. QED BY <1>2, <3>1, <3>2
  <2>4. QED BY <1>4, <2>1, <2>2, <2>3 DEF ConnStep
<1>5. ASSUME NEW e \in Edges, Crash(e) PROVE Rest'
  <2>1. conn' \in [Conns -> [st : {"new", "open", "closed"}, edge : Edges \cup {NoEdge}]]
    BY <1>2, <1>5 DEF Crash, Open
  <2>2. route' \in [Edges -> SUBSET Tasks] /\ socket' \in Conns \cup {NoConn} /\ live' \subseteq Edges
    BY <1>2, <1>5 DEF Crash, Stops
  <2>3. UNCHANGED <<wired, record, node>> BY <1>5 DEF Crash
  <2>4. QED BY <1>2, <2>1, <2>2, <2>3
<1>6. ASSUME DispatchStep \/ CallStep PROVE Rest'
  <2>1. record' \in [Tasks -> Outcomes \cup {"none", "dispatched"}]
    BY <1>2, <1>6 DEF DispatchStep, Dispatch, CallStep, SendLocal, StartWait, Timeout
  <2>2. UNCHANGED <<wired, conn, socket, route, node, live>>
    BY <1>6 DEF DispatchStep, Dispatch, CallStep, SendLocal, StartWait, Timeout, outboxVars
  <2>3. QED BY <1>2, <2>1, <2>2
<1>7. ASSUME NodeStep PROVE Rest'
  <2>1. node' \in [Tasks -> Outcomes \cup {"none", "busy"}]
    BY <1>2, <1>7 DEF NodeStep, Receive, Finish
  <2>2. UNCHANGED <<wired, conn, socket, record, route, live>>
    BY <1>7 DEF NodeStep, Receive, Finish, outboxVars
  <2>3. QED BY <1>2, <2>1, <2>2
<1>8. ASSUME ReplyStep PROVE Rest'
  <2>1. record' \in [Tasks -> Outcomes \cup {"none", "dispatched"}]
    BY <1>2, <1>8 DEF ReplyStep, Reply, Refuse, Completed, AnswerInv, RepliesGood, GoodReply, IsAnswer
  <2>2. UNCHANGED <<wired, conn, socket, route, node, live>>
    BY <1>8 DEF ReplyStep, Reply, Refuse, outboxVars
  <2>3. QED BY <1>2, <2>1, <2>2
<1>9. ASSUME InsertStep \/ HandlingStep \/ TableStep PROVE Rest'
  <2>1. route' \in [Edges -> SUBSET Tasks]
    <3>1. ASSUME NEW h \in handling, Relay(h) PROVE route' \in [Edges -> SUBSET Tasks]
      BY <1>2, <3>1 DEF Relay
    <3>2. ASSUME NEW f, Broadcast(f) \/ SendRemote(f) PROVE UNCHANGED route
      BY <3>2 DEF Broadcast, SendRemote, dispatchVars
    <3>3. ASSUME HandlingStep \/ TableStep PROVE UNCHANGED route
      BY <3>3 DEF HandlingStep, RelayFails, ResolveHere, TableStep, dispatchVars
    <3>4. QED BY <1>2, <1>9, <3>1, <3>2, <3>3 DEF InsertStep
  <2>2. CASE InsertStep \/ HandlingStep
    BY <1>2, <2>1, <2>2 DEF InsertStep, Broadcast, SendRemote, Relay, HandlingStep, RelayFails,
                            ResolveHere, dispatchVars, outboxVars
  <2>3. CASE TableStep
    BY <1>2, <2>1, <2>3 DEF TableStep, dispatchVars, Poll, AckFails, Ack, Commit, Rollback, Prune,
                            outboxVars
  <2>4. QED BY <1>9, <2>2, <2>3
<1>10. ASSUME RowStep PROVE Rest'
  <2>1. ASSUME NEW e \in Edges, NEW r \in batch[e],
               ProcessExecute(e, r) \/ ProcessRelay(e, r) \/ ProcessEvent(e, r)
        PROVE  Rest'
    <3>1. GoodRow(r) BY DEF AnswerInv, RowsGood, Rows
    <3>2. route' \in [Edges -> SUBSET Tasks]
      BY <1>2, <2>1, <3>1 DEF ProcessExecute, ProcessRelay, ProcessEvent, dispatchVars, GoodRow, Dispatched
    <3>3. UNCHANGED <<wired, conn, socket, record, node, live>>
      BY <2>1 DEF ProcessExecute, ProcessRelay, ProcessEvent, dispatchVars, Processes
    <3>4. QED BY <1>2, <3>2, <3>3
  <2>2. QED BY <1>10, <2>1 DEF RowStep
<1>11. Rest' BY <1>4, <1>5, <1>6, <1>7, <1>8, <1>9, <1>10, NextCases DEF CrashStep
<1>12. QED BY <1>1, <1>11 DEF DispatchTypes

LEMMA AnswerInvHolds == Spec => []AnswerInv
<1>1. Init /\ wired \in BOOLEAN => AnswerInv
  <2> SUFFICES ASSUME Init, wired \in BOOLEAN PROVE AnswerInv
    OBVIOUS
  <2>1. DispatchTypes BY DEF Init, BackplaneInit, DispatchTypes, CallerState, EntryState
  <2>2. NothingUndispatched BY DEF Init, NothingUndispatched
  <2>3. RepliesGood /\ HandlingGood BY DEF Init, RepliesGood, HandlingGood
  <2>4. RowsGood BY DEF Init, BackplaneInit, RowsGood, Rows
  <2>5. RegistryGood /\ CallersGood BY DEF Init, RegistryGood, CallersGood, Good, Outcomes
  <2>6. QED BY <2>1, <2>2, <2>3, <2>4, <2>5 DEF AnswerInv
<1>2. Init => wired \in BOOLEAN BY DispatchAssumption DEF Init
<1>3. OutboxInv /\ ReplayInv /\ AnswerInv /\ [Next]_vars => AnswerInv'
  <2> SUFFICES ASSUME OutboxInv, ReplayInv, AnswerInv, [Next]_vars PROVE AnswerInv'
    OBVIOUS
  <2>1. faults \in Nat BY DEF ReplayInv, ReplayTypes
  <2>2. Kept BY <2>1, KeptHolds
  <2>3. QED BY <2>1, <2>2, EntriesKept, MessagesKept, RowsKept, UndispatchedKept, TypesKept
            DEF AnswerInv
<1>4. QED BY <1>1, <1>2, <1>3, OutboxInvHolds, ReplayInvHolds, PTL DEF Spec

(* A result that a caller gets is the node's for its task, however it      *)
(* came, and on record unless a write failed (response-handlers.ts         *)
(* handleTaskExecuteResponse, outbox-poller.ts processRow,                 *)
(* task-result-registry.ts).                                               *)
THEOREM AnswerSafety == Spec => []AnswerIsRecorded
<1>1. AnswerInv => AnswerIsRecorded
  BY DEF AnswerInv, CallersGood, Good, IsRecorded, IsAnswer, AnswerIsRecorded
<1>2. QED BY <1>1, AnswerInvHolds, PTL

-----------------------------------------------------------------------------
(* The types of the rows, for the type invariant: a row goes to an edge    *)
(* that a connection or a call is known by.                                *)

EdgesKnown ==
    /\ \A c \in Conns : conn[c].st # "new" => conn[c].edge \in Edges
    /\ \A t \in Tasks : caller[t].conn # NoConn => conn[caller[t].conn].st # "new"
RowTypes == \A r \in rows \cup writing : r.from \in Edges /\ r.to \in Edges \cup {Everyone}
ShapeInv == EdgesKnown /\ RowTypes /\ overtaken \subseteq Given /\ extra \in Nat

LEMMA EdgesKnownKept ==
    ASSUME AnswerInv, EdgesKnown, [Next]_vars
    PROVE  EdgesKnown'
<1>0. /\ conn \in [Conns -> [st : {"new", "open", "closed"}, edge : Edges \cup {NoEdge}]]
      /\ caller \in [Tasks -> CallerState]
  BY DEF AnswerInv, DispatchTypes
<1>1. \A c \in Conns : /\ conn'[c].st # "new" => conn'[c].edge \in Edges
                       /\ conn[c].st # "new" => conn'[c].st # "new"
  <2>1. ASSUME NEW d \in Conns, CloseSeen(d) \/ \E e \in Edges : Connect(d, e)
        PROVE  \A c \in Conns : /\ conn'[c].st # "new" => conn'[c].edge \in Edges
                                /\ conn[c].st # "new" => conn'[c].st # "new"
    BY <1>0, <2>1 DEF CloseSeen, Connect, EdgesKnown
  <2>2. ASSUME NEW e \in Edges, Crash(e)
        PROVE  \A c \in Conns : /\ conn'[c].st # "new" => conn'[c].edge \in Edges
                                /\ conn[c].st # "new" => conn'[c].st # "new"
    <3>1. \A c \in Conns : /\ conn'[c] = IF Open(c, e) THEN [conn[c] EXCEPT !.st = "closed"] ELSE conn[c]
      BY <2>2 DEF Crash
    <3>2. \A c \in Conns : Open(c, e) => conn[c].edge = e BY DEF Open
    <3>3. QED BY <1>0, <3>1, <3>2 DEF EdgesKnown
  <2>3. CASE UNCHANGED conn BY <2>3 DEF EdgesKnown
  <2>4. ASSUME DispatchStep \/ CallStep \/ NodeStep \/ ReplyStep PROVE UNCHANGED conn
    BY <2>4 DEF DispatchStep, Dispatch, CallStep, SendLocal, StartWait, Timeout, NodeStep, Receive,
                Finish, ReplyStep, Reply, Refuse
  <2>5. ASSUME InsertStep \/ HandlingStep \/ RowStep \/ TableStep \/ Break PROVE UNCHANGED conn
    BY <2>5 DEF InsertStep, Broadcast, SendRemote, Relay, HandlingStep, RelayFails, ResolveHere,
                RowStep, ProcessExecute, ProcessRelay, ProcessEvent, TableStep, dispatchVars, Break
  <2>6. QED BY <2>1, <2>2, <2>3, <2>4, <2>5, NextCases DEF ConnStep, CrashStep
<1>2. \A t \in Tasks : caller'[t].conn # NoConn => conn'[caller'[t].conn].st # "new"
  <2> SUFFICES ASSUME NEW t \in Tasks, caller'[t].conn # NoConn
               PROVE  conn[caller'[t].conn].st # "new" /\ caller'[t].conn \in Conns
    BY <1>1
  <2>1. CASE caller'[t] = caller[t] BY <1>0, <2>1 DEF EdgesKnown, CallerState
  <2>2. ASSUME NEW v, Moved(t, v) PROVE caller'[t].conn = caller[t].conn
    BY <1>0, <2>2, CallerUpdate DEF Moved
  <2>3. CASE Chosen(t) BY <2>3 DEF Chosen
  <2>4. QED BY <1>0, <2>1, <2>2, <2>3, CallerMoves DEF CallerMove, EdgesKnown, CallerState
<1>3. QED BY <1>1, <1>2 DEF EdgesKnown

LEMMA RowTypesKept ==
    ASSUME OutboxInv, AnswerInv, ShapeInv, [Next]_vars
    PROVE  RowTypes' /\ overtaken' \subseteq Given' /\ extra' \in Nat
<1>0. RowTypes /\ overtaken \subseteq Given /\ extra \in Nat BY DEF ShapeInv
<1> DEFINE Kept3 == RowTypes' /\ overtaken' \subseteq Given' /\ extra' \in Nat
<1>1. ASSUME UNCHANGED <<rows, writing, overtaken, nextId>>, extra' \in {extra, extra + 1} PROVE Kept3
  BY <1>0, <1>1 DEF RowTypes
<1>2. ASSUME NEW from \in Edges, NEW to \in Edges \cup {Everyone}, NEW body, Put(from, to, body),
             UNCHANGED <<rows, overtaken>>, extra' \in {extra, extra + 1}
      PROVE  Kept3
  <2> DEFINE new == [id |-> nextId, from |-> from, to |-> to, body |-> body]
  <2>1. new.from = from /\ new.to = to /\ writing' = writing \cup {new} /\ nextId' = nextId + 1
    BY <1>2 DEF Put
  <2> HIDE DEF new
  <2>2. nextId \in Nat \ {0} BY DEF OutboxInv
  <2>3. QED BY <1>0, <1>2, <2>1, <2>2 DEF RowTypes
<1>3. CASE InsertStep
  <2>1. ASSUME NEW e \in Edges, Broadcast(e) PROVE Kept3
    BY <1>2, <2>1 DEF Broadcast, Spends
  <2>2. ASSUME NEW t \in Tasks, SendRemote(t) PROVE Kept3
    <3>1. caller[t].edge \in Edges /\ caller[t].conn \in Conns /\ conn[caller[t].conn].edge \in Edges
      BY <2>2, DispatchAssumption
         DEF SendRemote, AnswerInv, NothingUndispatched, ShapeInv, EdgesKnown
    <3>2. QED BY <1>2, <2>2, <3>1 DEF SendRemote
  <2>3. ASSUME NEW h \in handling, Relay(h) PROVE Kept3
    <3>1. h.edge \in Edges BY DEF AnswerInv, HandlingGood, GoodHandling
    <3>2. Dispatched(h.task) BY <2>3, <3>1 DEF Relay, AnswerInv, NothingUndispatched
    <3>3. QED BY <1>2, <2>3, <3>1, <3>2 DEF Relay, Dispatched
  <2>4. QED BY <1>3, <2>1, <2>2, <2>3 DEF InsertStep
<1>4. CASE TableStep
  <2>1. ASSUME NEW e, Poll(e) \/ AckFails(e) \/ \E r \in batch[e] : Ack(e, r) PROVE Kept3
    BY <1>1, <2>1 DEF Poll, AckFails, Ack, Fails, Spends
  <2>2. ASSUME NEW r \in writing, Commit(r) \/ Rollback(r) PROVE Kept3
    <3>1. r.id \in Given BY DEF OutboxInv, OneRowPerId
    <3>2. rows' \cup writing' \subseteq rows \cup writing /\ UNCHANGED <<nextId, extra>>
          /\ overtaken' \subseteq overtaken \cup {r.id}
      BY <2>2 DEF Commit, Rollback
    <3>3. QED BY <1>0, <3>1, <3>2 DEF RowTypes
  <2>3. ASSUME NEW cutoff, NEW late, Prune(cutoff, late) PROVE Kept3
    BY <1>0, <2>3 DEF Prune, Spends, RowTypes
  <2>4. CASE UNCHANGED outboxVars BY <1>1, <2>4 DEF outboxVars
  <2>5. QED BY <1>4, <2>1, <2>2, <2>3, <2>4 DEF TableStep
<1>5. CASE ConnStep \/ CrashStep \/ DispatchStep \/ CallStep \/ NodeStep
  BY <1>1, <1>5
     DEF ConnStep, Break, CloseSeen, Connect, CrashStep, Crash, Stops, Fails, Spends, DispatchStep,
         Dispatch, CallStep, SendLocal, StartWait, Timeout, NodeStep, Receive, Finish, outboxVars
<1>6. CASE ReplyStep \/ HandlingStep \/ RowStep
  BY <1>1, <1>6
     DEF ReplyStep, Reply, Refuse, Fails, Spends, HandlingStep, RelayFails, ResolveHere, RowStep,
         ProcessExecute, ProcessRelay, ProcessEvent, Processes, outboxVars
<1>7. QED BY <1>3, <1>4, <1>5, <1>6, NextCases

(* Every value keeps its type; a row goes from an edge to an edge or to     *)
(* all of them (enqueue, dispatchTask, response-handlers.ts).              *)
THEOREM DispatchTypeSafety == Spec => []TypeOK
<1>1. Init => ShapeInv
  BY DispatchAssumption DEF Init, BackplaneInit, ShapeInv, EdgesKnown, RowTypes
<1>2. OutboxInv /\ AnswerInv /\ ShapeInv /\ [Next]_vars => ShapeInv'
  BY EdgesKnownKept, RowTypesKept DEF ShapeInv
<1>3. OutboxInv /\ ReplayInv /\ AnswerInv /\ ShapeInv => TypeOK
  BY DEF OutboxInv, OneRowPerId, ReplayInv, ReplayTypes, AnswerInv, DispatchTypes, ShapeInv,
         RowTypes, TypeOK, BackplaneTypeOK, Row, CallerState, EntryState
<1>4. QED BY <1>1, <1>2, <1>3, OutboxInvHolds, ReplayInvHolds, AnswerInvHolds, PTL DEF Spec
=============================================================================
