------------------------- MODULE ChannelOutboxProofs -------------------------
(***************************************************************************)
(* Proofs about ChannelOutbox, for any number of processors, chunks and    *)
(* faults: types, and that a chunk reaches the channel at most once more   *)
(* often than something failed.                                            *)
(***************************************************************************)
EXTENDS ChannelOutbox, TLAPS

(* Whoever answers the message has its row. *)
AnswererOwns ==
    \A w \in Workers : pc[w] \in Answering =>
        inbox.status = "processing" /\ inbox.owner = w /\ ~inbox.lapsed

(* Whoever sends a chunk has its row, until retention takes both rows.     *)
SenderOwns ==
    \A w \in Workers : pc[w] \in Sending =>
        \/ Mine(w) /\ ~chunk[at[w]].lapsed
        \/ inbox.status = "gone" /\ chunk[at[w]].status = "none"

OneSender ==
    \A v, w \in Workers : pc[v] \in Sending /\ pc[w] \in Sending /\ at[v] = at[w] => v = w

(* A send of the chunk is ahead: queued, claimed, or to be claimed again.  *)
SendAhead(c) ==
    \/ chunk[c].status = "queued"
    \/ \E w \in Workers : pc[w] = "claimed" /\ at[w] = c
    \/ /\ chunk[c].status = "sending"
       /\ \A w \in Workers : ~(pc[w] = "delivered" /\ at[w] = c)

(* A turn is ahead that may store the chunk. *)
PastChunk(w, c) == pc[w] \in {"gate", "complete"} \/ (pc[w] = "enqueue" /\ at[w] > c)
TurnAhead(c) ==
    \/ inbox.status = "queued"
    \/ inbox.status = "processing" /\ \A w \in Workers : ~PastChunk(w, c)

(* What is ahead of a chunk counts like a delivery. *)
Bounded(c) ==
    /\ delivered[c] <= 1 + faults
    /\ SendAhead(c) \/ TurnAhead(c) => delivered[c] <= faults
    /\ SendAhead(c) /\ TurnAhead(c) => delivered[c] + 1 <= faults

OutboxInv == /\ TypeOK /\ GatedIsNotSent /\ AnswererOwns /\ SenderOwns /\ OneSender
             /\ \A c \in Chunks : Bounded(c)
-----------------------------------------------------------------------------

(* Every step keeps the types. *)
LEMMA TypeStep ==
    ASSUME TypeOK, [Next]_vars
    PROVE  TypeOK'
<1> USE DEF TypeOK, Answering, Sending
<1>1. ASSUME NEW w \in Workers, ClaimMessage(w) PROVE TypeOK'
  BY <1>1 DEF ClaimMessage
<1>2. ASSUME NEW w \in Workers, TurnFails(w) PROVE TypeOK'
  BY <1>2 DEF TurnFails, Settled
<1>3. ASSUME NEW w \in Workers, NoReply(w) PROVE TypeOK'
  BY <1>3 DEF NoReply, Settled
<1>4. ASSUME NEW w \in Workers, Reply(w) PROVE TypeOK'
  <2>1. 1 \in Chunks
    BY OutboxAssumption DEF OutboxAssumption, Chunks
  <2>2. QED
    BY <1>4, <2>1 DEF Reply
<1>5. ASSUME NEW w \in Workers, Enqueue(w) PROVE TypeOK'
  <2>1. chunk' \in [Chunks -> Rows]
    BY <1>5 DEF Enqueue, Rows, Gates
  <2>2. at' \in [Workers -> Chunks]
    <3>1. at[w] \in Chunks /\ plan[w].last \in Chunks
      OBVIOUS
    <3>2. at[w] < plan[w].last => at[w] + 1 \in Chunks
      BY <3>1, OutboxAssumption DEF OutboxAssumption, Chunks
    <3>3. QED
      BY <1>5, <3>2 DEF Enqueue
  <2>3. QED
    BY <1>5, <2>1, <2>2 DEF Enqueue, AfterEnqueue
<1>6. ASSUME NEW w \in Workers, Gate(w) PROVE TypeOK'
  <2>1. \A r \in Rows : Gated(r) \in Rows
    BY DEF Gated, Rows, Gates
  <2>2. QED
    BY <1>6, <2>1 DEF Gate
<1>7. ASSUME NEW w \in Workers, Complete(w) PROVE TypeOK'
  BY <1>7 DEF Complete, Settled
<1>8. ASSUME NEW w \in Workers, CleanUp(w) PROVE TypeOK'
  BY <1>8 DEF CleanUp, OutboxEmpty
<1>9. ASSUME NEW w \in Workers, ResolveGate(w) PROVE TypeOK'
  <2>1. \A r \in Rows : Cleared(r) \in Rows /\ Refused(r) \in Rows
    BY DEF Cleared, Refused, FailedRow, Rows, Gates
  <2>2. QED
    BY <1>9, <2>1 DEF ResolveGate
<1>10. ASSUME NEW w \in Workers, ClaimChunk(w) PROVE TypeOK'
  <2>1. PICK c \in Chunks :
          /\ chunk' = [chunk EXCEPT ![c] = SentBy(w, @)]
          /\ at' = [at EXCEPT ![w] = c]
    BY <1>10 DEF ClaimChunk
  <2>2. chunk' \in [Chunks -> Rows]
    <3>1. \A r \in Rows : SentBy(w, r) \in Rows
      BY DEF Rows, SentBy
    <3>2. QED
      BY <2>1, <3>1
  <2>3. QED
    BY <1>10, <2>1, <2>2 DEF ClaimChunk
<1>11. ASSUME NEW w \in Workers, Deliver(w) PROVE TypeOK'
  <2>1. delivered' \in [Chunks -> Nat]
    BY <1>11 DEF Deliver
  <2>2. QED
    BY <1>11, <2>1 DEF Deliver
<1>12. ASSUME NEW w \in Workers, MarkSent(w) PROVE TypeOK'
  BY <1>12 DEF MarkSent, Mine, Rows, Gates, NoRow
<1>13. ASSUME NEW w \in Workers, MarkFailed(w) PROVE TypeOK'
  <2>1. chunk' \in [Chunks -> Rows]
    <3>1. \A r \in Rows : FailedRow(r) \in Rows
      BY DEF Rows, FailedRow
    <3>2. QED
      BY <1>13, <3>1 DEF MarkFailed
  <2>2. QED
    BY <1>13, <2>1 DEF MarkFailed
<1>14. ASSUME NEW w \in Workers, Fails(w) PROVE TypeOK'
  <2>1. faults' \in Nat
    BY <1>14 DEF Fails
  <2>2. QED
    BY <1>14, <2>1 DEF Fails
<1>15. CASE MessageLapses
  BY <1>15 DEF MessageLapses
<1>16. ASSUME NEW c \in Chunks, ChunkLapses(c) PROVE TypeOK'
  <2>1. chunk' \in [Chunks -> Rows]
    <3>1. \A r \in Rows : [r EXCEPT !.lapsed = TRUE] \in Rows
      BY DEF Rows
    <3>2. QED
      BY <1>16, <3>1 DEF ChunkLapses
  <2>2. QED
    BY <1>16, <2>1 DEF ChunkLapses
<1>17. ASSUME NEW c \in Chunks, PruneChunk(c) PROVE TypeOK'
  BY <1>17 DEF PruneChunk, Rows, Gates, NoRow
<1>18. CASE Decide
  BY <1>18 DEF Decide
<1>19. CASE OperatorSets
  BY <1>19 DEF OperatorSets
<1>20. CASE PruneMessage
  <2>1. NoRow \in Rows
    BY DEF NoRow, Rows, Gates
  <2>2. QED
    BY <1>20, <2>1 DEF PruneMessage
<1>21. CASE UNCHANGED vars
  BY <1>21 DEF vars
<1>q. QED
  BY <1>1, <1>2, <1>3, <1>4, <1>5, <1>6, <1>7, <1>8, <1>9, <1>10, <1>11, <1>12, <1>13, <1>14, <1>15, <1>16, <1>17, <1>18, <1>19, <1>20, <1>21 DEF Next, Answer, Send

(* No step puts an approval on a chunk that is being sent, or claims one   *)
(* that has an approval.                                                   *)
LEMMA GateStep ==
    ASSUME TypeOK, GatedIsNotSent, [Next]_vars
    PROVE  GatedIsNotSent'
<1> USE DEF TypeOK, GatedIsNotSent, Rows, Gates, NoRow, Answering
<1>1. ASSUME NEW w \in Workers, ClaimMessage(w) PROVE GatedIsNotSent'
  BY <1>1 DEF ClaimMessage
<1>2. ASSUME NEW w \in Workers, TurnFails(w) PROVE GatedIsNotSent'
  BY <1>2 DEF TurnFails, Settled
<1>3. ASSUME NEW w \in Workers, NoReply(w) PROVE GatedIsNotSent'
  BY <1>3 DEF NoReply, Settled
<1>4. ASSUME NEW w \in Workers, Reply(w) PROVE GatedIsNotSent'
  BY <1>4 DEF Reply
<1>5. ASSUME NEW w \in Workers, Enqueue(w) PROVE GatedIsNotSent'
  BY <1>5 DEF Enqueue, TakesRow, AfterEnqueue
<1>6. ASSUME NEW w \in Workers, Gate(w) PROVE GatedIsNotSent'
  BY <1>6 DEF Gate, Gated
<1>7. ASSUME NEW w \in Workers, Complete(w) PROVE GatedIsNotSent'
  BY <1>7 DEF Complete, Settled
<1>8. ASSUME NEW w \in Workers, CleanUp(w) PROVE GatedIsNotSent'
  BY <1>8 DEF CleanUp, OutboxEmpty
<1>9. ASSUME NEW w \in Workers, ResolveGate(w) PROVE GatedIsNotSent'
  <2>1. \A r \in Rows : (r.gate = "closed" => r.status # "sending") =>
          /\ Cleared(r).gate = "closed" => Cleared(r).status # "sending"
          /\ Refused(r).gate = "closed" => Refused(r).status # "sending"
    BY DEF Cleared, Refused, FailedRow, Rows
  <2>2. QED
    BY <1>9, <2>1 DEF ResolveGate
<1>10. ASSUME NEW w \in Workers, ClaimChunk(w) PROVE GatedIsNotSent'
  BY <1>10 DEF ClaimChunk, Sendable, SentBy
<1>11. ASSUME NEW w \in Workers, Deliver(w) PROVE GatedIsNotSent'
  BY <1>11 DEF Deliver
<1>12. ASSUME NEW w \in Workers, MarkSent(w) PROVE GatedIsNotSent'
  BY <1>12 DEF MarkSent, Mine
<1>13. ASSUME NEW w \in Workers, MarkFailed(w) PROVE GatedIsNotSent'
  BY <1>13 DEF MarkFailed, FailedRow, Mine
<1>14. ASSUME NEW w \in Workers, Fails(w) PROVE GatedIsNotSent'
  BY <1>14 DEF Fails
<1>15. CASE MessageLapses
  BY <1>15 DEF MessageLapses
<1>16. ASSUME NEW c \in Chunks, ChunkLapses(c) PROVE GatedIsNotSent'
  BY <1>16 DEF ChunkLapses
<1>17. ASSUME NEW c \in Chunks, PruneChunk(c) PROVE GatedIsNotSent'
  BY <1>17 DEF PruneChunk
<1>18. CASE Decide
  BY <1>18 DEF Decide
<1>19. CASE OperatorSets
  BY <1>19 DEF OperatorSets
<1>20. CASE PruneMessage
  BY <1>20 DEF PruneMessage, PrunesCompleted, OutboxEmpty
<1>21. CASE UNCHANGED vars
  BY <1>21 DEF vars
<1>q. QED
  BY <1>1, <1>2, <1>3, <1>4, <1>5, <1>6, <1>7, <1>8, <1>9, <1>10, <1>11, <1>12, <1>13, <1>14, <1>15, <1>16, <1>17, <1>18, <1>19, <1>20, <1>21 DEF Next, Answer, Send

(* Nobody takes the message's row from a turn that is under way. *)
LEMMA AnswererStep ==
    ASSUME TypeOK, AnswererOwns, [Next]_vars
    PROVE  AnswererOwns'
<1> USE DEF OutboxAssumption, TypeOK, AnswererOwns, Answering, Sending
<1>1. ASSUME NEW w \in Workers, ClaimMessage(w) PROVE AnswererOwns'
  BY <1>1 DEF ClaimMessage, MayClaimMessage
<1>2. ASSUME NEW w \in Workers, TurnFails(w) PROVE AnswererOwns'
  BY <1>2 DEF TurnFails, Settled
<1>3. ASSUME NEW w \in Workers, NoReply(w) PROVE AnswererOwns'
  BY <1>3 DEF NoReply, Settled
<1>4. ASSUME NEW w \in Workers, Reply(w) PROVE AnswererOwns'
  BY <1>4 DEF Reply
<1>5. ASSUME NEW w \in Workers, Enqueue(w) PROVE AnswererOwns'
  BY <1>5 DEF Enqueue, TakesRow, AfterEnqueue
<1>6. ASSUME NEW w \in Workers, Gate(w) PROVE AnswererOwns'
  BY <1>6 DEF Gate, Gated
<1>7. ASSUME NEW w \in Workers, Complete(w) PROVE AnswererOwns'
  BY <1>7 DEF Complete, Settled
<1>8. ASSUME NEW w \in Workers, CleanUp(w) PROVE AnswererOwns'
  BY <1>8 DEF CleanUp, OutboxEmpty
<1>9. ASSUME NEW w \in Workers, ResolveGate(w) PROVE AnswererOwns'
  BY <1>9 DEF ResolveGate, Cleared, Refused
<1>10. ASSUME NEW w \in Workers, ClaimChunk(w) PROVE AnswererOwns'
  BY <1>10 DEF ClaimChunk, Sendable, SentBy
<1>11. ASSUME NEW w \in Workers, Deliver(w) PROVE AnswererOwns'
  BY <1>11 DEF Deliver
<1>12. ASSUME NEW w \in Workers, MarkSent(w) PROVE AnswererOwns'
  BY <1>12 DEF MarkSent, Mine
<1>13. ASSUME NEW w \in Workers, MarkFailed(w) PROVE AnswererOwns'
  BY <1>13 DEF MarkFailed, FailedRow, Mine
<1>14. ASSUME NEW w \in Workers, Fails(w) PROVE AnswererOwns'
  BY <1>14 DEF Fails
<1>15. CASE MessageLapses
  BY <1>15 DEF MessageLapses
<1>16. ASSUME NEW c \in Chunks, ChunkLapses(c) PROVE AnswererOwns'
  BY <1>16 DEF ChunkLapses
<1>17. ASSUME NEW c \in Chunks, PruneChunk(c) PROVE AnswererOwns'
  BY <1>17 DEF PruneChunk
<1>18. CASE Decide
  BY <1>18 DEF Decide
<1>19. CASE OperatorSets
  BY <1>19 DEF OperatorSets
<1>20. CASE PruneMessage
  BY <1>20 DEF PruneMessage, PrunesCompleted, OutboxEmpty
<1>21. CASE UNCHANGED vars
  BY <1>21 DEF vars
<1>q. QED
  BY <1>1, <1>2, <1>3, <1>4, <1>5, <1>6, <1>7, <1>8, <1>9, <1>10, <1>11, <1>12, <1>13, <1>14, <1>15, <1>16, <1>17, <1>18, <1>19, <1>20, <1>21 DEF Next, Answer, Send

(* Nobody takes the chunk from a processor that sends it; only retention   *)
(* may delete it, with the message.                                        *)
LEMMA SenderStep ==
    ASSUME TypeOK, GatedIsNotSent, SenderOwns, [Next]_vars
    PROVE  SenderOwns'
<1> USE DEF TypeOK, GatedIsNotSent, SenderOwns, Mine, Rows, Answering, Sending
<1>1. ASSUME NEW w \in Workers, ClaimMessage(w) PROVE SenderOwns'
  BY <1>1 DEF ClaimMessage, MayClaimMessage
<1>2. ASSUME NEW w \in Workers, TurnFails(w) PROVE SenderOwns'
  BY <1>2 DEF TurnFails, Settled
<1>3. ASSUME NEW w \in Workers, NoReply(w) PROVE SenderOwns'
  BY <1>3 DEF NoReply, Settled
<1>4. ASSUME NEW w \in Workers, Reply(w) PROVE SenderOwns'
  BY <1>4 DEF Reply
<1>5. ASSUME NEW w \in Workers, Enqueue(w) PROVE SenderOwns'
  BY <1>5 DEF Enqueue, TakesRow, AfterEnqueue
<1>6. ASSUME NEW w \in Workers, Gate(w) PROVE SenderOwns'
  BY <1>6 DEF Gate, Gated
<1>7. ASSUME NEW w \in Workers, Complete(w) PROVE SenderOwns'
  BY <1>7 DEF Complete, Settled
<1>8. ASSUME NEW w \in Workers, CleanUp(w) PROVE SenderOwns'
  BY <1>8 DEF CleanUp, OutboxEmpty
<1>9. ASSUME NEW w \in Workers, ResolveGate(w) PROVE SenderOwns'
  <2>1. \A r \in Rows : r.status = "none" \/ (r.status = "sending" /\ r.gate # "closed")
          => Cleared(r) = r /\ Refused(r) = r
    BY DEF Cleared, Refused
  <2>2. \A c \in Chunks :
          \/ chunk'[c] = Cleared(chunk[c])
          \/ chunk'[c] = Refused(chunk[c])
    BY <1>9 DEF ResolveGate
  <2>3. \A c \in Chunks :
          chunk[c].status = "none" \/ (chunk[c].status = "sending" /\ chunk[c].gate # "closed")
            => chunk'[c] = chunk[c]
    BY <2>1, <2>2
  <2>4. QED
    BY <1>9, <2>3 DEF ResolveGate
<1>10. ASSUME NEW w \in Workers, ClaimChunk(w) PROVE SenderOwns'
  BY <1>10 DEF ClaimChunk, Sendable, SentBy
<1>11. ASSUME NEW w \in Workers, Deliver(w) PROVE SenderOwns'
  BY <1>11 DEF Deliver
<1>12. ASSUME NEW w \in Workers, MarkSent(w) PROVE SenderOwns'
  BY <1>12 DEF MarkSent, Mine, NoRow
<1>13. ASSUME NEW w \in Workers, MarkFailed(w) PROVE SenderOwns'
  BY <1>13 DEF MarkFailed, Mine, FailedRow
<1>14. ASSUME NEW w \in Workers, Fails(w) PROVE SenderOwns'
  BY <1>14 DEF Fails
<1>15. CASE MessageLapses
  BY <1>15 DEF MessageLapses
<1>16. ASSUME NEW c \in Chunks, ChunkLapses(c) PROVE SenderOwns'
  BY <1>16 DEF ChunkLapses
<1>17. ASSUME NEW c \in Chunks, PruneChunk(c) PROVE SenderOwns'
  BY <1>17 DEF PruneChunk, NoRow
<1>18. CASE Decide
  BY <1>18 DEF Decide
<1>19. CASE OperatorSets
  BY <1>19 DEF OperatorSets
<1>20. CASE PruneMessage
  BY <1>20 DEF PruneMessage, PrunesCompleted, OutboxEmpty, NoRow
<1>21. CASE UNCHANGED vars
  BY <1>21 DEF vars
<1>q. QED
  BY <1>1, <1>2, <1>3, <1>4, <1>5, <1>6, <1>7, <1>8, <1>9, <1>10, <1>11, <1>12, <1>13, <1>14, <1>15, <1>16, <1>17, <1>18, <1>19, <1>20, <1>21 DEF Next, Answer, Send

(* A chunk is claimed only when nobody sends it. *)
LEMMA OneSenderStep ==
    ASSUME TypeOK, SenderOwns, OneSender, [Next]_vars
    PROVE  OneSender'
<1> USE DEF TypeOK, SenderOwns, OneSender, Mine, Rows, Answering, Sending
<1>1. ASSUME NEW w \in Workers, ClaimMessage(w) PROVE OneSender'
  BY <1>1 DEF ClaimMessage, MayClaimMessage
<1>2. ASSUME NEW w \in Workers, TurnFails(w) PROVE OneSender'
  BY <1>2 DEF TurnFails, Settled
<1>3. ASSUME NEW w \in Workers, NoReply(w) PROVE OneSender'
  BY <1>3 DEF NoReply, Settled
<1>4. ASSUME NEW w \in Workers, Reply(w) PROVE OneSender'
  BY <1>4 DEF Reply
<1>5. ASSUME NEW w \in Workers, Enqueue(w) PROVE OneSender'
  BY <1>5 DEF Enqueue, TakesRow, AfterEnqueue
<1>6. ASSUME NEW w \in Workers, Gate(w) PROVE OneSender'
  BY <1>6 DEF Gate, Gated
<1>7. ASSUME NEW w \in Workers, Complete(w) PROVE OneSender'
  BY <1>7 DEF Complete, Settled
<1>8. ASSUME NEW w \in Workers, CleanUp(w) PROVE OneSender'
  BY <1>8 DEF CleanUp, OutboxEmpty
<1>9. ASSUME NEW w \in Workers, ResolveGate(w) PROVE OneSender'
  BY <1>9 DEF ResolveGate, Cleared, Refused, FailedRow
<1>10. ASSUME NEW w \in Workers, ClaimChunk(w) PROVE OneSender'
  BY <1>10 DEF ClaimChunk, Sendable, SentBy
<1>11. ASSUME NEW w \in Workers, Deliver(w) PROVE OneSender'
  BY <1>11 DEF Deliver
<1>12. ASSUME NEW w \in Workers, MarkSent(w) PROVE OneSender'
  BY <1>12 DEF MarkSent, Mine, NoRow
<1>13. ASSUME NEW w \in Workers, MarkFailed(w) PROVE OneSender'
  BY <1>13 DEF MarkFailed, Mine, FailedRow
<1>14. ASSUME NEW w \in Workers, Fails(w) PROVE OneSender'
  BY <1>14 DEF Fails
<1>15. CASE MessageLapses
  BY <1>15 DEF MessageLapses
<1>16. ASSUME NEW c \in Chunks, ChunkLapses(c) PROVE OneSender'
  BY <1>16 DEF ChunkLapses
<1>17. ASSUME NEW c \in Chunks, PruneChunk(c) PROVE OneSender'
  BY <1>17 DEF PruneChunk, NoRow
<1>18. CASE Decide
  BY <1>18 DEF Decide
<1>19. CASE OperatorSets
  BY <1>19 DEF OperatorSets
<1>20. CASE PruneMessage
  BY <1>20 DEF PruneMessage, PrunesCompleted, OutboxEmpty, NoRow
<1>21. CASE UNCHANGED vars
  BY <1>21 DEF vars
<1>q. QED
  BY <1>1, <1>2, <1>3, <1>4, <1>5, <1>6, <1>7, <1>8, <1>9, <1>10, <1>11, <1>12, <1>13, <1>14, <1>15, <1>16, <1>17, <1>18, <1>19, <1>20, <1>21 DEF Next, Answer, Send

(* Once more than before at most: nothing that is ahead of a chunk, a send  *)
(* or a turn that may store it, comes without a fault or in place of what   *)
(* was ahead before.                                                        *)
LEMMA BoundStep ==
    ASSUME NEW x \in Chunks, OutboxInv, [Next]_vars
    PROVE  Bounded(x)'
<1> USE DEF OutboxInv, TypeOK, GatedIsNotSent, AnswererOwns, SenderOwns, OneSender, Mine, Rows, Answering, Sending,
          Bounded, SendAhead, TurnAhead, PastChunk
<1>1. ASSUME NEW w \in Workers, ClaimMessage(w) PROVE Bounded(x)'
  BY <1>1 DEF ClaimMessage, MayClaimMessage
<1>2. ASSUME NEW w \in Workers, TurnFails(w) PROVE Bounded(x)'
  BY <1>2 DEF TurnFails, Settled
<1>3. ASSUME NEW w \in Workers, NoReply(w) PROVE Bounded(x)'
  BY <1>3 DEF NoReply, Settled
<1>4. ASSUME NEW w \in Workers, Reply(w) PROVE Bounded(x)'
  BY <1>4 DEF Reply
<1>5. ASSUME NEW w \in Workers, Enqueue(w) PROVE Bounded(x)'
  <2>1. /\ at[w] \in Nat /\ plan[w].last \in Nat /\ x \in Nat
        /\ delivered' = delivered /\ faults' = faults /\ inbox' = inbox
        /\ pc[w] = "enqueue" /\ inbox.status = "processing" /\ inbox.owner = w
    BY <1>5 DEF Enqueue, Chunks
  <2>2. \A v \in Workers : v # w => pc'[v] = pc[v] /\ at'[v] = at[v]
    BY <1>5 DEF Enqueue
  <2>3. PastChunk(w, x) => PastChunk(w, x)'
    BY <1>5, <2>1 DEF Enqueue, AfterEnqueue
  <2>4. TurnAhead(x)' => TurnAhead(x)
    BY <2>1, <2>2, <2>3
  <2>5. CASE at[w] = x
    <3>1. TurnAhead(x) /\ ~TurnAhead(x)'
      BY <1>5, <2>1, <2>5 DEF Enqueue, AfterEnqueue
    <3>2. QED
      BY <2>1, <3>1 DEF Bounded
  <2>6. CASE at[w] # x
    <3>1. chunk'[x] = chunk[x]
      BY <1>5, <2>6 DEF Enqueue
    <3>2. pc'[w] \notin Sending /\ pc[w] \notin Sending
      BY <1>5 DEF Enqueue, AfterEnqueue
    <3>3. \A v \in Workers, p \in Sending :
            (pc'[v] = p /\ at'[v] = x) <=> (pc[v] = p /\ at[v] = x)
      BY <2>2, <3>2
    <3>4. SendAhead(x)' => SendAhead(x)
      BY <3>1, <3>3
    <3>5. QED
      BY <2>1, <2>4, <3>4 DEF Bounded
  <2>7. QED
    BY <2>5, <2>6
<1>6. ASSUME NEW w \in Workers, Gate(w) PROVE Bounded(x)'
  BY <1>6 DEF Gate, Gated
<1>7. ASSUME NEW w \in Workers, Complete(w) PROVE Bounded(x)'
  BY <1>7 DEF Complete, Settled
<1>8. ASSUME NEW w \in Workers, CleanUp(w) PROVE Bounded(x)'
  BY <1>8 DEF CleanUp, OutboxEmpty
<1>9. ASSUME NEW w \in Workers, ResolveGate(w) PROVE Bounded(x)'
  <2>1. \A r \in Rows : /\ Cleared(r).status = r.status
                        /\ Refused(r).status \in {r.status, "failed"}
    BY DEF Cleared, Refused, FailedRow
  <2>2. chunk'[x].status \in {chunk[x].status, "failed"}
    BY <1>9, <2>1 DEF ResolveGate
  <2>3. (SendAhead(x)' => SendAhead(x)) /\ (TurnAhead(x)' <=> TurnAhead(x))
    BY <1>9, <2>2 DEF ResolveGate
  <2>4. delivered' = delivered /\ faults' = faults
    BY <1>9 DEF ResolveGate
  <2>5. QED
    BY <2>3, <2>4 DEF Bounded
<1>10. ASSUME NEW w \in Workers, ClaimChunk(w) PROVE Bounded(x)'
  BY <1>10 DEF ClaimChunk, Sendable, SentBy
<1>11. ASSUME NEW w \in Workers, Deliver(w) PROVE Bounded(x)'
  BY <1>11 DEF Deliver
<1>12. ASSUME NEW w \in Workers, MarkSent(w) PROVE Bounded(x)'
  BY <1>12 DEF MarkSent, Mine, NoRow
<1>13. ASSUME NEW w \in Workers, MarkFailed(w) PROVE Bounded(x)'
  BY <1>13 DEF MarkFailed, Mine, FailedRow
<1>14. ASSUME NEW w \in Workers, Fails(w) PROVE Bounded(x)'
  BY <1>14 DEF Fails
<1>15. CASE MessageLapses
  BY <1>15 DEF MessageLapses
<1>16. ASSUME NEW c \in Chunks, ChunkLapses(c) PROVE Bounded(x)'
  BY <1>16 DEF ChunkLapses
<1>17. ASSUME NEW c \in Chunks, PruneChunk(c) PROVE Bounded(x)'
  BY <1>17 DEF PruneChunk, NoRow
<1>18. CASE Decide
  BY <1>18 DEF Decide
<1>19. CASE OperatorSets
  BY <1>19 DEF OperatorSets
<1>20. CASE PruneMessage
  BY <1>20 DEF PruneMessage, PrunesCompleted, OutboxEmpty, NoRow
<1>21. CASE UNCHANGED vars
  BY <1>21 DEF vars
<1>q. QED
  BY <1>1, <1>2, <1>3, <1>4, <1>5, <1>6, <1>7, <1>8, <1>9, <1>10, <1>11, <1>12, <1>13, <1>14, <1>15, <1>16, <1>17, <1>18, <1>19, <1>20, <1>21 DEF Next, Answer, Send
LEMMA InvInit == Init => OutboxInv
<1> SUFFICES ASSUME Init PROVE OutboxInv
  OBVIOUS
<1> USE OutboxAssumption DEF OutboxAssumption, Init, NoRow, Answering, Sending
<1>1. TypeOK
  BY DEF TypeOK, Rows, Gates, Chunks
<1>2. GatedIsNotSent /\ AnswererOwns /\ SenderOwns /\ OneSender
  BY DEF GatedIsNotSent, AnswererOwns, SenderOwns, OneSender
<1>3. \A c \in Chunks : Bounded(c)
  BY DEF Bounded, SendAhead, TurnAhead
<1>4. QED
  BY <1>1, <1>2, <1>3 DEF OutboxInv

LEMMA InvStep == OutboxInv /\ [Next]_vars => OutboxInv'
<1> SUFFICES ASSUME OutboxInv, [Next]_vars PROVE OutboxInv'
  OBVIOUS
<1>1. TypeOK' /\ GatedIsNotSent' /\ AnswererOwns' /\ SenderOwns' /\ OneSender'
  BY TypeStep, GateStep, AnswererStep, SenderStep, OneSenderStep DEF OutboxInv
<1>2. \A c \in Chunks : Bounded(c)'
  BY BoundStep
<1>3. QED
  BY <1>1, <1>2 DEF OutboxInv

(* Types, and that a chunk with an approval to come is in nobody's hands    *)
(* (markFailedByApproval meets no send that is under way).                  *)
THEOREM GateSafety == Spec => [](TypeOK /\ GatedIsNotSent)
<1>1. OutboxInv => TypeOK /\ GatedIsNotSent
  BY DEF OutboxInv
<1>2. QED
  BY InvInit, InvStep, <1>1, PTL DEF Spec

(* The channel gets a chunk at most once more often than a process died or  *)
(* a tick threw: takeovers, repeated turns, gates and retention add nothing *)
(* (claimNextGlobal, enqueue, markSent).                                    *)
THEOREM SendsAreCounted == Spec => []DuplicatesNeedFaults
<1>1. OutboxInv => DuplicatesNeedFaults
  BY DEF OutboxInv, Bounded, DuplicatesNeedFaults
<1>2. QED
  BY InvInit, InvStep, <1>1, PTL DEF Spec
=============================================================================
