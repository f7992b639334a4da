------------------------ MODULE TelegramPollingProofs ------------------------
(***************************************************************************)
(* An account that has always been the same bot's loses no update, however *)
(* many processes, workers, updates and settings there are, and however    *)
(* often leases run out, workers are replaced and processes die.  The      *)
(* lease plays no part in it: what counts is that every number that goes   *)
(* into an offset was written after the updates below it were handled.     *)
(***************************************************************************)
EXTENDS TelegramPolling, WellFoundedInduction, TLAPS

OneBot == \A b, c \in Bots : b = c

(* Every update of the bot below n has been stored or skipped. *)
Below(b, n) == \A u \in Updates[b] : u < n => u \in handled[b]

Polled == {"loaded", "read", "polling", "batch", "cursor", "empty"}
HasBot == \A w \in Workers : st[w] \in Polled => poll[w].bot \in Bots
HasBatch == \A w \in Workers : st[w] \in {"batch", "cursor"} => poll[w].batch # {}
Typed == TypeOK /\ HasBot /\ HasBatch

CursorIsBelow == \A b \in Bots : Below(b, row.next)
OffsetIsBelow == \A b \in Bots, w \in Workers : Below(b, poll[w].offset)
ConfirmedIsBelow == \A b \in Bots : Below(b, confirmed[b])

(* A worker's updates are the first that are left. *)
BatchIsNext ==
    \A b \in Bots, w \in Workers : \A v \in poll[w].batch :
        v \in Updates[b] /\ \A u \in Updates[b] : u < v => u \in handled[b] \/ u \in poll[w].batch
FirstIsHandled ==
    \A b \in Bots, w \in Workers : st[w] = "cursor" => First(w) \in handled[b]

PollInv == /\ Typed
           /\ CursorIsBelow /\ OffsetIsBelow /\ ConfirmedIsBelow
           /\ BatchIsNext /\ FirstIsHandled

-----------------------------------------------------------------------------
(* The first update of a batch: the worker takes the smallest id. *)
LEMMA SmallestOfBatch ==
    ASSUME NEW S \in SUBSET Nat, S # {}
    PROVE  LET f == CHOOSE u \in S : \A v \in S : u <= v IN f \in S /\ \A v \in S : f <= v
<1>1. IsWellFoundedOn(OpToRel(<, Nat), Nat)
  BY NatLessThanWellFounded
<1>2. PICK x \in S : \A y \in S : ~(<<y, x>> \in OpToRel(<, Nat))
  BY <1>1, WFMin, Zenon
<1>3. \A y \in S : y \in Nat /\ x \in Nat /\ ~(y < x)
  BY <1>2, Zenon DEF OpToRel
<1>4. \A y \in S : x <= y
  BY <1>3, SMT
<1> QED
  BY <1>4, Zenon

(* The value First has, in a state with a batch. *)
LEMMA FirstOfBatch ==
    ASSUME Typed, NEW w \in Workers, poll[w].batch # {}
    PROVE  First(w) \in poll[w].batch /\ First(w) \in Nat /\ \A v \in poll[w].batch : First(w) <= v
<1>1. poll[w].batch \in SUBSET Nat
  BY DEF Typed, TypeOK, PollType, IdSets
<1> QED
  BY <1>1, SmallestOfBatch DEF First

(* Every action keeps the types: what a poll works on comes from the row,  *)
(* the settings and Telegram, and each of these has its type.              *)
LEMMA TypedStep == Typed /\ [Next]_vars => Typed'
<1> SUFFICES ASSUME Typed, [Next]_vars PROVE Typed'
  OBVIOUS
<1>0. /\ MaxEvents \in Nat
      /\ \A c \in Settings : BotOf[c] \in Bots \cup {NoBot}
      /\ \A w \in Workers : OwnerOf[w] \in Owners
      /\ \A b \in Bots : Updates[b] \subseteq Nat
      /\ NoPoll \in PollType /\ NoPoll.bot = NoBot
  BY PollingAssumption DEF Bots, Owners, NoPoll, PollType, IdSets
<1> USE DEF TypeOK, Typed, HasBot, HasBatch, Polled, InPoll, Goto, Owns, monitorVars, serverVars, OneMoreEvent, RowType
<1>1. ASSUME NEW w \in Workers, Start(w) PROVE Typed'
  BY <1>0, <1>1 DEF Start, InPolling, Running
<1>2. ASSUME NEW w \in Workers, Acquire(w) PROVE Typed'
  BY <1>0, <1>2 DEF Acquire
<1>3. ASSUME NEW w \in Workers, LoadAccount(w) PROVE Typed'
  <2>1. InPolling => [poll[w] EXCEPT !.bot = BotOf[config]] \in PollType
    BY <1>0, <1>3 DEF LoadAccount, PollType
  <2>2. poll' \in [Workers -> PollType]
    BY <1>0, <1>3, <2>1 DEF LoadAccount, EndPoll, InPolling
  <2>3. TypeOK'
    BY <1>0, <1>3, <2>1, <2>2 DEF LoadAccount, EndPoll, InPolling
  <2>4. \A v \in Workers \ {w} : poll'[v] = poll[v] /\ st'[v] = st[v]
    BY <1>3 DEF LoadAccount, EndPoll, InPolling
  <2>5. st'[w] \in Polled => poll'[w].bot \in Bots
    BY <1>0, <1>3 DEF LoadAccount, EndPoll, InPolling, PollType
  <2>6. st'[w] \in {"batch", "cursor"} => poll'[w].batch # {}
    BY <1>0, <1>3 DEF LoadAccount, EndPoll, InPolling, PollType
  <2> QED
    BY <2>3, <2>4, <2>5, <2>6
<1>4. ASSUME NEW w \in Workers, ReadState(w) PROVE Typed'
  <2>1. [poll[w] EXCEPT !.seen = row.bot, !.offset = row.next] \in PollType
    BY <1>0, <1>4 DEF ReadState, PollType
  <2>2. poll' \in [Workers -> PollType]
    BY <1>0, <1>4, <2>1 DEF ReadState
  <2>3. TypeOK'
    BY <1>0, <1>4, <2>1, <2>2 DEF ReadState
  <2>4. \A v \in Workers \ {w} : poll'[v] = poll[v] /\ st'[v] = st[v]
    BY <1>4 DEF ReadState
  <2>5. st'[w] \in Polled => poll'[w].bot \in Bots
    BY <1>0, <1>4 DEF ReadState, PollType
  <2>6. st'[w] \in {"batch", "cursor"} => poll'[w].batch # {}
    BY <1>0, <1>4 DEF ReadState, PollType
  <2> QED
    BY <2>3, <2>4, <2>5, <2>6
<1>5. ASSUME NEW w \in Workers, MarkPolling(w) PROVE Typed'
  <2>1. ~poll[w].lost => [poll[w] EXCEPT !.offset = IF IsOtherBot(w) THEN 0 ELSE @, !.seen = NoBot] \in PollType
    BY <1>0, <1>5 DEF MarkPolling, PollType
  <2>2. poll' \in [Workers -> PollType]
    BY <1>0, <1>5, <2>1 DEF MarkPolling, Marked, EndPoll
  <2>3. TypeOK'
    BY <1>0, <1>5, <2>1, <2>2 DEF MarkPolling, Marked, EndPoll
  <2>4. \A v \in Workers \ {w} : poll'[v] = poll[v] /\ st'[v] = st[v]
    BY <1>5 DEF MarkPolling, Marked, EndPoll
  <2>5. st'[w] \in Polled => poll'[w].bot \in Bots
    BY <1>0, <1>5 DEF MarkPolling, Marked, EndPoll, PollType
  <2>6. st'[w] \in {"batch", "cursor"} => poll'[w].batch # {}
    BY <1>0, <1>5 DEF MarkPolling, Marked, EndPoll, PollType
  <2> QED
    BY <2>3, <2>4, <2>5, <2>6
<1>6. ASSUME NEW w \in Workers, NEW answer \in SUBSET AllUpdates, Poll(w, answer) PROVE Typed'
  <2>1. ~poll[w].lost => [poll[w] EXCEPT !.batch = answer] \in PollType
    BY <1>0, <1>6 DEF Poll, Remembered, IdSets, PollType
  <2>2. poll' \in [Workers -> PollType]
    BY <1>0, <1>6, <2>1 DEF Poll, Confirms, EndPoll
  <2>3. confirmed' \in [Bots -> Nat]
    BY <1>6 DEF Poll, Confirms, PollType
  <2>4. TypeOK'
    BY <1>0, <1>6, <2>1, <2>2, <2>3 DEF Poll, Confirms, EndPoll
  <2>5. \A v \in Workers \ {w} : poll'[v] = poll[v] /\ st'[v] = st[v]
    BY <1>6 DEF Poll, Confirms, EndPoll
  <2>6. st'[w] \in Polled => poll'[w].bot \in Bots
    BY <1>0, <1>6 DEF Poll, Confirms, EndPoll, PollType
  <2>7. st'[w] \in {"batch", "cursor"} => poll'[w].batch # {}
    BY <1>0, <1>6 DEF Poll, Confirms, EndPoll, PollType
  <2> QED
    BY <2>4, <2>5, <2>6, <2>7
<1>7. ASSUME NEW w \in Workers, PollFails(w) PROVE Typed'
  <2>1. confirmed' \in [Bots -> Nat]
    BY <1>7 DEF PollFails, Confirms, EndPoll, PollType
  <2>2. TypeOK'
    BY <1>0, <1>7, <2>1 DEF PollFails, Confirms, EndPoll
  <2>3. HasBot' /\ HasBatch'
    BY <1>0, <1>7 DEF PollFails, Confirms, EndPoll
  <2> QED
    BY <2>2, <2>3
<1>8. ASSUME NEW w \in Workers, EmptyPoll(w) PROVE Typed'
  BY <1>0, <1>8 DEF EmptyPoll, EndPoll
<1>9. ASSUME NEW w \in Workers, Handle(w) PROVE Typed'
  <2>1. First(w) \in Nat /\ First(w) \in poll[w].batch
    BY <1>9, FirstOfBatch DEF Handle
  <2>2. handled' \in [Bots -> IdSets]
    BY <1>9, <2>1 DEF Handle, IdSets
  <2>3. TypeOK'
    BY <1>0, <1>9, <2>1, <2>2 DEF Handle
  <2>4. \A v \in Workers \ {w} : poll'[v] = poll[v] /\ st'[v] = st[v]
    BY <1>9 DEF Handle
  <2>5. st'[w] \in Polled => poll'[w].bot \in Bots
    BY <1>0, <1>9, <2>1 DEF Handle, PollType
  <2>6. st'[w] \in {"batch", "cursor"} => poll'[w].batch # {}
    BY <1>0, <1>9, <2>1 DEF Handle, PollType
  <2> QED
    BY <2>3, <2>4, <2>5, <2>6
<1>10. ASSUME NEW w \in Workers, MoveCursor(w) PROVE Typed'
  <2>1. First(w) \in Nat /\ First(w) \in poll[w].batch
    BY <1>10, FirstOfBatch DEF MoveCursor
  <2>2. poll[w].batch # {First(w)} => [poll[w] EXCEPT !.batch = @ \ {First(w)}] \in PollType
    BY <1>0, <1>10 DEF MoveCursor, IdSets, PollType
  <2>3. poll' \in [Workers -> PollType]
    BY <1>0, <1>10, <2>1, <2>2 DEF MoveCursor, CursorAfter, EndPoll
  <2>4. row' \in RowType
    <3>1. row \in RowType /\ poll[w].bot \in Bots /\ First(w) + 1 \in Nat
      BY <1>10, <2>1 DEF MoveCursor
    <3>2. row' = row \/ row' = [row EXCEPT !.bot = poll[w].bot, !.next = First(w) + 1]
      BY <1>10 DEF MoveCursor, CursorAfter
    <3> QED
      BY <3>1, <3>2
  <2>5. TypeOK'
    BY <1>0, <1>10, <2>1, <2>2, <2>3, <2>4 DEF MoveCursor, CursorAfter, EndPoll
  <2>6. \A v \in Workers \ {w} : poll'[v] = poll[v] /\ st'[v] = st[v]
    BY <1>10 DEF MoveCursor, CursorAfter, EndPoll
  <2>7. st'[w] \in Polled => poll'[w].bot \in Bots
    BY <1>0, <1>10, <2>1 DEF MoveCursor, CursorAfter, EndPoll, PollType
  <2>8. st'[w] \in {"batch", "cursor"} => poll'[w].batch # {}
    BY <1>0, <1>10, <2>1 DEF MoveCursor, CursorAfter, EndPoll, PollType
  <2> QED
    BY <2>5, <2>6, <2>7, <2>8
<1>11. ASSUME NEW w \in Workers, GiveUp(w) PROVE Typed'
  BY <1>0, <1>11 DEF GiveUp, EndPoll
<1>12. ASSUME NEW w \in Workers, Release(w) PROVE Typed'
  BY <1>0, <1>12 DEF Release
<1>13. ASSUME NEW w \in Workers, Heartbeat(w) PROVE Typed'
  <2>1. ~Owns(w) => [poll[w] EXCEPT !.lost = TRUE] \in PollType
    BY <1>0, <1>13 DEF Heartbeat, PollType
  <2>2. poll' \in [Workers -> PollType]
    BY <1>0, <1>13, <2>1 DEF Heartbeat
  <2>3. TypeOK'
    BY <1>0, <1>13, <2>1, <2>2 DEF Heartbeat
  <2>4. \A v \in Workers \ {w} : poll'[v] = poll[v] /\ st'[v] = st[v]
    BY <1>13 DEF Heartbeat
  <2>5. st'[w] \in Polled => poll'[w].bot \in Bots
    BY <1>0, <1>13 DEF Heartbeat, PollType
  <2>6. st'[w] \in {"batch", "cursor"} => poll'[w].batch # {}
    BY <1>0, <1>13 DEF Heartbeat, PollType
  <2> QED
    BY <2>3, <2>4, <2>5, <2>6
<1>14. ASSUME NEW o \in Owners, Remove(o) PROVE Typed'
  BY <1>0, <1>14 DEF Remove, InPolling, Running
<1>15. ASSUME NEW o \in Owners, Crash(o) PROVE Typed'
  BY <1>0, <1>15 DEF Crash
<1>16. ASSUME ChangeAccount PROVE Typed'
  BY <1>0, <1>16 DEF ChangeAccount
<1>17. ASSUME Expire PROVE Typed'
  BY <1>0, <1>17 DEF Expire, RunsOut
<1>18. ASSUME Lapse PROVE Typed'
  <2>1. row' \in RowType
    BY <1>18 DEF Lapse, RunsOut, PollType
  <2>2. TypeOK'
    BY <1>0, <1>18, <2>1 DEF Lapse, RunsOut
  <2>3. HasBot' /\ HasBatch'
    BY <1>0, <1>18 DEF Lapse, RunsOut
  <2> QED
    BY <2>2, <2>3
<1>19. CASE UNCHANGED vars
  BY <1>19 DEF vars
<1> QED
  BY <1>1, <1>2, <1>3, <1>4, <1>5, <1>6, <1>7, <1>8, <1>9, <1>10, <1>11, <1>12, <1>13, <1>14, <1>15, <1>16, <1>17, <1>18, <1>19 DEF Next, Work

(* Where the numbers come from, action by action. *)

(* Nothing handled is ever taken back. *)
LEMMA HandledGrows ==
    ASSUME Typed, [Next]_vars
    PROVE  \A b \in Bots : handled[b] \subseteq handled'[b]
<1> DEFINE Goal == \A b \in Bots : handled[b] \subseteq handled'[b]
<1> USE DEF Typed, TypeOK, Goto, monitorVars, serverVars
<1>1. ASSUME NEW w \in Workers, Start(w) PROVE Goal
  BY <1>1 DEF Start, InPolling, Running
<1>2. ASSUME NEW w \in Workers, Acquire(w) PROVE Goal
  BY <1>2 DEF Acquire
<1>3. ASSUME NEW w \in Workers, LoadAccount(w) PROVE Goal
  BY <1>3 DEF LoadAccount, EndPoll, InPolling
<1>4. ASSUME NEW w \in Workers, ReadState(w) PROVE Goal
  BY <1>4 DEF ReadState
<1>5. ASSUME NEW w \in Workers, MarkPolling(w) PROVE Goal
  BY <1>5 DEF MarkPolling, Marked, EndPoll
<1>6. ASSUME NEW w \in Workers, NEW answer \in SUBSET AllUpdates, Poll(w, answer) PROVE Goal
  BY <1>6 DEF Poll, Confirms, EndPoll
<1>7. ASSUME NEW w \in Workers, PollFails(w) PROVE Goal
  BY <1>7 DEF PollFails, Confirms, EndPoll
<1>8. ASSUME NEW w \in Workers, EmptyPoll(w) PROVE Goal
  BY <1>8 DEF EmptyPoll, EndPoll
<1>9. ASSUME NEW w \in Workers, Handle(w) PROVE Goal
  BY <1>9 DEF Handle
<1>10. ASSUME NEW w \in Workers, MoveCursor(w) PROVE Goal
  BY <1>10 DEF MoveCursor, CursorAfter, EndPoll
<1>11. ASSUME NEW w \in Workers, GiveUp(w) PROVE Goal
  BY <1>11 DEF GiveUp, EndPoll
<1>12. ASSUME NEW w \in Workers, Release(w) PROVE Goal
  BY <1>12 DEF Release
<1>13. ASSUME NEW w \in Workers, Heartbeat(w) PROVE Goal
  BY <1>13 DEF Heartbeat
<1>14. ASSUME NEW o \in Owners, Remove(o) PROVE Goal
  BY <1>14 DEF Remove, InPolling, Running
<1>15. ASSUME NEW o \in Owners, Crash(o) PROVE Goal
  BY <1>15 DEF Crash
<1>16. ASSUME ChangeAccount PROVE Goal
  BY <1>16 DEF ChangeAccount
<1>17. ASSUME Expire PROVE Goal
  BY <1>17 DEF Expire, RunsOut
<1>18. ASSUME Lapse PROVE Goal
  BY <1>18 DEF Lapse, RunsOut
<1>19. CASE UNCHANGED vars
  BY <1>19 DEF vars
<1> QED
  BY <1>1, <1>2, <1>3, <1>4, <1>5, <1>6, <1>7, <1>8, <1>9, <1>10, <1>11, <1>12, <1>13, <1>14, <1>15, <1>16, <1>17, <1>18, <1>19 DEF Next, Work

(* The cursor moves behind an update that a worker has just handled. *)
LEMMA CursorSource ==
    ASSUME Typed, [Next]_vars
    PROVE  row'.next \in {row.next, 0} \/ \E v \in Workers : st[v] = "cursor" /\ row'.next = First(v) + 1
<1> DEFINE Goal == row'.next \in {row.next, 0} \/ \E v \in Workers : st[v] = "cursor" /\ row'.next = First(v) + 1
<1> USE DEF Typed, TypeOK, Goto, monitorVars, serverVars, RowType
<1>1. ASSUME NEW w \in Workers, Start(w) PROVE Goal
  BY <1>1 DEF Start, InPolling, Running
<1>2. ASSUME NEW w \in Workers, Acquire(w) PROVE Goal
  BY <1>2 DEF Acquire
<1>3. ASSUME NEW w \in Workers, LoadAccount(w) PROVE Goal
  BY <1>3 DEF LoadAccount, EndPoll, InPolling
<1>4. ASSUME NEW w \in Workers, ReadState(w) PROVE Goal
  BY <1>4 DEF ReadState
<1>5. ASSUME NEW w \in Workers, MarkPolling(w) PROVE Goal
  BY <1>5 DEF MarkPolling, Marked, EndPoll
<1>6. ASSUME NEW w \in Workers, NEW answer \in SUBSET AllUpdates, Poll(w, answer) PROVE Goal
  BY <1>6 DEF Poll, Confirms, EndPoll
<1>7. ASSUME NEW w \in Workers, PollFails(w) PROVE Goal
  BY <1>7 DEF PollFails, Confirms, EndPoll
<1>8. ASSUME NEW w \in Workers, EmptyPoll(w) PROVE Goal
  BY <1>8 DEF EmptyPoll, EndPoll
<1>9. ASSUME NEW w \in Workers, Handle(w) PROVE Goal
  BY <1>9 DEF Handle
<1>10. ASSUME NEW w \in Workers, MoveCursor(w) PROVE Goal
  BY <1>10 DEF MoveCursor, CursorAfter, EndPoll
<1>11. ASSUME NEW w \in Workers, GiveUp(w) PROVE Goal
  BY <1>11 DEF GiveUp, EndPoll
<1>12. ASSUME NEW w \in Workers, Release(w) PROVE Goal
  BY <1>12 DEF Release
<1>13. ASSUME NEW w \in Workers, Heartbeat(w) PROVE Goal
  BY <1>13 DEF Heartbeat
<1>14. ASSUME NEW o \in Owners, Remove(o) PROVE Goal
  BY <1>14 DEF Remove, InPolling, Running
<1>15. ASSUME NEW o \in Owners, Crash(o) PROVE Goal
  BY <1>15 DEF Crash
<1>16. ASSUME ChangeAccount PROVE Goal
  BY <1>16 DEF ChangeAccount
<1>17. ASSUME Expire PROVE Goal
  BY <1>17 DEF Expire, RunsOut
<1>18. ASSUME Lapse PROVE Goal
  BY <1>18 DEF Lapse, RunsOut
<1>19. CASE UNCHANGED vars
  BY <1>19 DEF vars
<1> QED
  BY <1>1, <1>2, <1>3, <1>4, <1>5, <1>6, <1>7, <1>8, <1>9, <1>10, <1>11, <1>12, <1>13, <1>14, <1>15, <1>16, <1>17, <1>18, <1>19 DEF Next, Work

(* An offset is a cursor that was read, or none. *)
LEMMA OffsetSource ==
    ASSUME Typed, [Next]_vars
    PROVE  \A v \in Workers : poll'[v].offset \in {poll[v].offset, row.next, 0}
<1> DEFINE Goal == \A v \in Workers : poll'[v].offset \in {poll[v].offset, row.next, 0}
<1> USE DEF Typed, TypeOK, Goto, monitorVars, serverVars, PollType, NoPoll
<1>1. ASSUME NEW w \in Workers, Start(w) PROVE Goal
  BY <1>1 DEF Start, InPolling, Running
<1>2. ASSUME NEW w \in Workers, Acquire(w) PROVE Goal
  BY <1>2 DEF Acquire
<1>3. ASSUME NEW w \in Workers, LoadAccount(w) PROVE Goal
  <2>1. \A v \in Workers \ {w} : poll'[v] = poll[v]
    BY <1>3 DEF LoadAccount, EndPoll, InPolling
  <2>2. CASE InPolling
    <3>1. poll'[w].offset = poll[w].offset
      BY <1>3, <2>2 DEF LoadAccount, EndPoll, InPolling
    <3> QED
      BY <1>3, <2>1, <3>1 DEF LoadAccount, EndPoll, InPolling
  <2>3. CASE ~(InPolling)
    <3>1. poll'[w].offset = 0
      BY <1>3, <2>3 DEF LoadAccount, EndPoll, InPolling
    <3> QED
      BY <1>3, <2>1, <3>1 DEF LoadAccount, EndPoll, InPolling
  <2> QED
    BY <2>2, <2>3
<1>4. ASSUME NEW w \in Workers, ReadState(w) PROVE Goal
  BY <1>4 DEF ReadState
<1>5. ASSUME NEW w \in Workers, MarkPolling(w) PROVE Goal
  BY <1>5 DEF MarkPolling, Marked, EndPoll
<1>6. ASSUME NEW w \in Workers, NEW answer \in SUBSET AllUpdates, Poll(w, answer) PROVE Goal
  BY <1>6 DEF Poll, Confirms, EndPoll
<1>7. ASSUME NEW w \in Workers, PollFails(w) PROVE Goal
  BY <1>7 DEF PollFails, Confirms, EndPoll
<1>8. ASSUME NEW w \in Workers, EmptyPoll(w) PROVE Goal
  BY <1>8 DEF EmptyPoll, EndPoll
<1>9. ASSUME NEW w \in Workers, Handle(w) PROVE Goal
  BY <1>9 DEF Handle
<1>10. ASSUME NEW w \in Workers, MoveCursor(w) PROVE Goal
  BY <1>10 DEF MoveCursor, CursorAfter, EndPoll
<1>11. ASSUME NEW w \in Workers, GiveUp(w) PROVE Goal
  BY <1>11 DEF GiveUp, EndPoll
<1>12. ASSUME NEW w \in Workers, Release(w) PROVE Goal
  BY <1>12 DEF Release
<1>13. ASSUME NEW w \in Workers, Heartbeat(w) PROVE Goal
  BY <1>13 DEF Heartbeat
<1>14. ASSUME NEW o \in Owners, Remove(o) PROVE Goal
  BY <1>14 DEF Remove, InPolling, Running
<1>15. ASSUME NEW o \in Owners, Crash(o) PROVE Goal
  BY <1>15 DEF Crash
<1>16. ASSUME ChangeAccount PROVE Goal
  BY <1>16 DEF ChangeAccount
<1>17. ASSUME Expire PROVE Goal
  BY <1>17 DEF Expire, RunsOut
<1>18. ASSUME Lapse PROVE Goal
  BY <1>18 DEF Lapse, RunsOut
<1>19. CASE UNCHANGED vars
  BY <1>19 DEF vars
<1> QED
  BY <1>1, <1>2, <1>3, <1>4, <1>5, <1>6, <1>7, <1>8, <1>9, <1>10, <1>11, <1>12, <1>13, <1>14, <1>15, <1>16, <1>17, <1>18, <1>19 DEF Next, Work

(* What Telegram forgets is what some worker's offset says. *)
LEMMA ConfirmedSource ==
    ASSUME Typed, [Next]_vars
    PROVE  \A b \in Bots : confirmed'[b] = confirmed[b] \/ \E v \in Workers : confirmed'[b] = poll[v].offset
<1> DEFINE Goal == \A b \in Bots : confirmed'[b] = confirmed[b] \/ \E v \in Workers : confirmed'[b] = poll[v].offset
<1> USE DEF Typed, TypeOK, Goto, monitorVars, serverVars
<1>1. ASSUME NEW w \in Workers, Start(w) PROVE Goal
  BY <1>1 DEF Start, InPolling, Running
<1>2. ASSUME NEW w \in Workers, Acquire(w) PROVE Goal
  BY <1>2 DEF Acquire
<1>3. ASSUME NEW w \in Workers, LoadAccount(w) PROVE Goal
  BY <1>3 DEF LoadAccount, EndPoll, InPolling
<1>4. ASSUME NEW w \in Workers, ReadState(w) PROVE Goal
  BY <1>4 DEF ReadState
<1>5. ASSUME NEW w \in Workers, MarkPolling(w) PROVE Goal
  BY <1>5 DEF MarkPolling, Marked, EndPoll
<1>6. ASSUME NEW w \in Workers, NEW answer \in SUBSET AllUpdates, Poll(w, answer) PROVE Goal
  BY <1>6 DEF Poll, Confirms, EndPoll
<1>7. ASSUME NEW w \in Workers, PollFails(w) PROVE Goal
  BY <1>7 DEF PollFails, Confirms, EndPoll
<1>8. ASSUME NEW w \in Workers, EmptyPoll(w) PROVE Goal
  BY <1>8 DEF EmptyPoll, EndPoll
<1>9. ASSUME NEW w \in Workers, Handle(w) PROVE Goal
  BY <1>9 DEF Handle
<1>10. ASSUME NEW w \in Workers, MoveCursor(w) PROVE Goal
  BY <1>10 DEF MoveCursor, CursorAfter, EndPoll
<1>11. ASSUME NEW w \in Workers, GiveUp(w) PROVE Goal
  BY <1>11 DEF GiveUp, EndPoll
<1>12. ASSUME NEW w \in Workers, Release(w) PROVE Goal
  BY <1>12 DEF Release
<1>13. ASSUME NEW w \in Workers, Heartbeat(w) PROVE Goal
  BY <1>13 DEF Heartbeat
<1>14. ASSUME NEW o \in Owners, Remove(o) PROVE Goal
  BY <1>14 DEF Remove, InPolling, Running
<1>15. ASSUME NEW o \in Owners, Crash(o) PROVE Goal
  BY <1>15 DEF Crash
<1>16. ASSUME ChangeAccount PROVE Goal
  BY <1>16 DEF ChangeAccount
<1>17. ASSUME Expire PROVE Goal
  BY <1>17 DEF Expire, RunsOut
<1>18. ASSUME Lapse PROVE Goal
  BY <1>18 DEF Lapse, RunsOut
<1>19. CASE UNCHANGED vars
  BY <1>19 DEF vars
<1> QED
  BY <1>1, <1>2, <1>3, <1>4, <1>5, <1>6, <1>7, <1>8, <1>9, <1>10, <1>11, <1>12, <1>13, <1>14, <1>15, <1>16, <1>17, <1>18, <1>19 DEF Next, Work

(* A batch is an answer of Telegram, less the updates that were handled. *)
LEMMA BatchSource ==
    ASSUME Typed, [Next]_vars
    PROVE  \A v \in Workers :
               \/ poll'[v].batch \in {poll[v].batch, {}}
               \/ /\ st[v] = "polling"
                  /\ poll'[v].batch \subseteq Remembered(v)
                  /\ FirstOf(poll'[v].batch, Remembered(v))
               \/ st[v] = "cursor" /\ poll'[v].batch = poll[v].batch \ {First(v)}
<1> DEFINE Goal == \A v \in Workers :
               \/ poll'[v].batch \in {poll[v].batch, {}}
               \/ /\ st[v] = "polling"
                  /\ poll'[v].batch \subseteq Remembered(v)
                  /\ FirstOf(poll'[v].batch, Remembered(v))
               \/ st[v] = "cursor" /\ poll'[v].batch = poll[v].batch \ {First(v)}
<1> USE DEF Typed, TypeOK, Goto, monitorVars, serverVars, PollType, NoPoll
<1>1. ASSUME NEW w \in Workers, Start(w) PROVE Goal
  BY <1>1 DEF Start, InPolling, Running
<1>2. ASSUME NEW w \in Workers, Acquire(w) PROVE Goal
  BY <1>2 DEF Acquire
<1>3. ASSUME NEW w \in Workers, LoadAccount(w) PROVE Goal
  BY <1>3 DEF LoadAccount, EndPoll, InPolling
<1>4. ASSUME NEW w \in Workers, ReadState(w) PROVE Goal
  BY <1>4 DEF ReadState
<1>5. ASSUME NEW w \in Workers, MarkPolling(w) PROVE Goal
  <2>1. \A v \in Workers \ {w} : poll'[v] = poll[v]
    BY <1>5 DEF MarkPolling, Marked, EndPoll
  <2>2. CASE poll[w].lost
    <3>1. poll'[w].batch = {}
      BY <1>5, <2>2 DEF MarkPolling, Marked, EndPoll
    <3> QED
      BY <1>5, <2>1, <3>1 DEF MarkPolling, Marked, EndPoll
  <2>3. CASE ~(poll[w].lost)
    <3>1. poll'[w].batch = poll[w].batch
      BY <1>5, <2>3 DEF MarkPolling, Marked, EndPoll
    <3> QED
      BY <1>5, <2>1, <3>1 DEF MarkPolling, Marked, EndPoll
  <2> QED
    BY <2>2, <2>3
<1>6. ASSUME NEW w \in Workers, NEW answer \in SUBSET AllUpdates, Poll(w, answer) PROVE Goal
  <2>1. \A v \in Workers \ {w} : poll'[v] = poll[v]
    BY <1>6 DEF Poll, Confirms, EndPoll
  <2>2. CASE poll[w].lost
    <3>1. poll'[w].batch = {}
      BY <1>6, <2>2 DEF Poll, Confirms, EndPoll
    <3> QED
      BY <1>6, <2>1, <3>1 DEF Poll, Confirms, EndPoll
  <2>3. CASE ~(poll[w].lost)
    <3>1. poll'[w].batch = answer
      BY <1>6, <2>3 DEF Poll, Confirms, EndPoll
    <3> QED
      BY <1>6, <2>1, <3>1 DEF Poll, Confirms, EndPoll
  <2> QED
    BY <2>2, <2>3
<1>7. ASSUME NEW w \in Workers, PollFails(w) PROVE Goal
  BY <1>7 DEF PollFails, Confirms, EndPoll
<1>8. ASSUME NEW w \in Workers, EmptyPoll(w) PROVE Goal
  BY <1>8 DEF EmptyPoll, EndPoll
<1>9. ASSUME NEW w \in Workers, Handle(w) PROVE Goal
  BY <1>9 DEF Handle
<1>10. ASSUME NEW w \in Workers, MoveCursor(w) PROVE Goal
  <2>1. \A v \in Workers \ {w} : poll'[v] = poll[v]
    BY <1>10 DEF MoveCursor, CursorAfter, EndPoll
  <2>2. CASE poll[w].batch = {First(w)}
    <3>1. poll'[w].batch = {}
      BY <1>10, <2>2 DEF MoveCursor, CursorAfter, EndPoll
    <3> QED
      BY <1>10, <2>1, <3>1 DEF MoveCursor, CursorAfter, EndPoll
  <2>3. CASE ~(poll[w].batch = {First(w)})
    <3>1. poll'[w].batch = poll[w].batch \ {First(w)}
      BY <1>10, <2>3 DEF MoveCursor, CursorAfter, EndPoll
    <3> QED
      BY <1>10, <2>1, <3>1 DEF MoveCursor, CursorAfter, EndPoll
  <2> QED
    BY <2>2, <2>3
<1>11. ASSUME NEW w \in Workers, GiveUp(w) PROVE Goal
  BY <1>11 DEF GiveUp, EndPoll
<1>12. ASSUME NEW w \in Workers, Release(w) PROVE Goal
  BY <1>12 DEF Release
<1>13. ASSUME NEW w \in Workers, Heartbeat(w) PROVE Goal
  BY <1>13 DEF Heartbeat
<1>14. ASSUME NEW o \in Owners, Remove(o) PROVE Goal
  BY <1>14 DEF Remove, InPolling, Running
<1>15. ASSUME NEW o \in Owners, Crash(o) PROVE Goal
  BY <1>15 DEF Crash
<1>16. ASSUME ChangeAccount PROVE Goal
  BY <1>16 DEF ChangeAccount
<1>17. ASSUME Expire PROVE Goal
  BY <1>17 DEF Expire, RunsOut
<1>18. ASSUME Lapse PROVE Goal
  BY <1>18 DEF Lapse, RunsOut
<1>19. CASE UNCHANGED vars
  BY <1>19 DEF vars
<1> QED
  BY <1>1, <1>2, <1>3, <1>4, <1>5, <1>6, <1>7, <1>8, <1>9, <1>10, <1>11, <1>12, <1>13, <1>14, <1>15, <1>16, <1>17, <1>18, <1>19 DEF Next, Work

(* A worker is about to move the cursor when it has handled the update. *)
LEMMA CursorStateSource ==
    ASSUME Typed, [Next]_vars
    PROVE  \A v \in Workers : st'[v] = "cursor" =>
               /\ poll'[v].batch = poll[v].batch
               /\ \/ st[v] = "cursor"
                  \/ st[v] = "batch" /\ First(v) \in handled'[poll[v].bot]
<1> DEFINE Goal == \A v \in Workers : st'[v] = "cursor" =>
               /\ poll'[v].batch = poll[v].batch
               /\ \/ st[v] = "cursor"
                  \/ st[v] = "batch" /\ First(v) \in handled'[poll[v].bot]
<1> USE DEF Typed, TypeOK, Goto, monitorVars, serverVars, PollType, NoPoll, HasBot, Polled
<1>1. ASSUME NEW w \in Workers, Start(w) PROVE Goal
  BY <1>1 DEF Start, InPolling, Running
<1>2. ASSUME NEW w \in Workers, Acquire(w) PROVE Goal
  BY <1>2 DEF Acquire
<1>3. ASSUME NEW w \in Workers, LoadAccount(w) PROVE Goal
  BY <1>3 DEF LoadAccount, EndPoll, InPolling
<1>4. ASSUME NEW w \in Workers, ReadState(w) PROVE Goal
  BY <1>4 DEF ReadState
<1>5. ASSUME NEW w \in Workers, MarkPolling(w) PROVE Goal
  BY <1>5 DEF MarkPolling, Marked, EndPoll
<1>6. ASSUME NEW w \in Workers, NEW answer \in SUBSET AllUpdates, Poll(w, answer) PROVE Goal
  BY <1>6 DEF Poll, Confirms, EndPoll
<1>7. ASSUME NEW w \in Workers, PollFails(w) PROVE Goal
  BY <1>7 DEF PollFails, Confirms, EndPoll
<1>8. ASSUME NEW w \in Workers, EmptyPoll(w) PROVE Goal
  BY <1>8 DEF EmptyPoll, EndPoll
<1>9. ASSUME NEW w \in Workers, Handle(w) PROVE Goal
  BY <1>9 DEF Handle
<1>10. ASSUME NEW w \in Workers, MoveCursor(w) PROVE Goal
  BY <1>10 DEF MoveCursor, CursorAfter, EndPoll
<1>11. ASSUME NEW w \in Workers, GiveUp(w) PROVE Goal
  BY <1>11 DEF GiveUp, EndPoll
<1>12. ASSUME NEW w \in Workers, Release(w) PROVE Goal
  BY <1>12 DEF Release
<1>13. ASSUME NEW w \in Workers, Heartbeat(w) PROVE Goal
  BY <1>13 DEF Heartbeat
<1>14. ASSUME NEW o \in Owners, Remove(o) PROVE Goal
  BY <1>14 DEF Remove, InPolling, Running
<1>15. ASSUME NEW o \in Owners, Crash(o) PROVE Goal
  BY <1>15 DEF Crash
<1>16. ASSUME ChangeAccount PROVE Goal
  BY <1>16 DEF ChangeAccount
<1>17. ASSUME Expire PROVE Goal
  BY <1>17 DEF Expire, RunsOut
<1>18. ASSUME Lapse PROVE Goal
  BY <1>18 DEF Lapse, RunsOut
<1>19. CASE UNCHANGED vars
  BY <1>19 DEF vars
<1> QED
  BY <1>1, <1>2, <1>3, <1>4, <1>5, <1>6, <1>7, <1>8, <1>9, <1>10, <1>11, <1>12, <1>13, <1>14, <1>15, <1>16, <1>17, <1>18, <1>19 DEF Next, Work

(* The first state. *)
LEMMA PollInit == Init => PollInv
<1> SUFFICES ASSUME Init PROVE PollInv
  OBVIOUS
<1>1. TypeOK
  <2>1. NoPoll \in PollType
    BY DEF NoPoll, PollType, IdSets
  <2>2. {} \in IdSets
    BY DEF IdSets
  <2> QED
    BY <2>1, <2>2, PollingAssumption DEF Init, TypeOK, RowType, InPoll, Bots
<1>2. HasBot /\ HasBatch
  BY DEF Init, HasBot, HasBatch, Polled
<1>3. \A b \in Bots : \A u \in Updates[b] : u \in Nat
  BY PollingAssumption DEF Bots
<1>4. CursorIsBelow /\ OffsetIsBelow /\ ConfirmedIsBelow
  BY <1>3 DEF Init, CursorIsBelow, OffsetIsBelow, ConfirmedIsBelow, Below, NoPoll
<1>5. BatchIsNext /\ FirstIsHandled
  BY DEF Init, BatchIsNext, FirstIsHandled, NoPoll
<1> QED
  BY <1>1, <1>2, <1>4, <1>5 DEF PollInv, Typed

(* Every step: each number stays below what has been handled, because its  *)
(* source was.  Only here does it matter that there is one bot.            *)
LEMMA PollStep == OneBot /\ PollInv /\ [Next]_vars => PollInv'
<1> SUFFICES ASSUME OneBot, PollInv, [Next]_vars PROVE PollInv'
  OBVIOUS
<1> USE DEF PollInv
<1>1. Typed'
  BY TypedStep
<1>2. \A b \in Bots : handled[b] \subseteq handled'[b]
  BY HandledGrows
<1>3. \A b \in Bots : \A u \in Updates[b] : u \in Nat
  BY PollingAssumption DEF Bots
<1>4. ASSUME NEW v \in Workers, poll[v].batch # {}
      PROVE  First(v) \in poll[v].batch /\ First(v) \in Nat /\ \A x \in poll[v].batch : First(v) <= x
  BY <1>4, FirstOfBatch
<1>5. CursorIsBelow'
  <2>1. SUFFICES ASSUME NEW b \in Bots, NEW u \in Updates[b], u < row'.next PROVE u \in handled[b]
    BY <1>2 DEF CursorIsBelow, Below
  <2>2. CASE row'.next = row.next
    BY <2>1, <2>2 DEF CursorIsBelow, Below
  <2>3. CASE row'.next = 0
    BY <2>1, <2>3, <1>3
  <2>4. ASSUME NEW v \in Workers, st[v] = "cursor", row'.next = First(v) + 1
        PROVE  u \in handled[b]
    <3>1. First(v) \in poll[v].batch /\ First(v) \in Nat /\ \A x \in poll[v].batch : First(v) <= x
      BY <1>4, <2>4 DEF Typed, HasBatch
    <3>2. CASE u = First(v)
      BY <2>4, <3>2 DEF FirstIsHandled
    <3>3. CASE u # First(v)
      <4>1. u \in Nat /\ u < First(v)
        BY <1>3, <2>1, <2>4, <3>1, <3>3
      <4>2. u \in handled[b] \/ u \in poll[v].batch
        BY <3>1, <4>1 DEF BatchIsNext
      <4> QED
        BY <3>1, <4>1, <4>2
    <3> QED
      BY <3>2, <3>3
  <2> QED
    BY <2>2, <2>3, <2>4, CursorSource
<1>6. OffsetIsBelow'
  <2>1. SUFFICES ASSUME NEW b \in Bots, NEW v \in Workers, NEW u \in Updates[b], u < poll'[v].offset
                 PROVE  u \in handled[b]
    BY <1>2 DEF OffsetIsBelow, Below
  <2>2. poll'[v].offset \in {poll[v].offset, row.next, 0}
    BY OffsetSource
  <2> QED
    BY <1>3, <2>1, <2>2 DEF OffsetIsBelow, CursorIsBelow, Below
<1>7. ConfirmedIsBelow'
  <2>1. SUFFICES ASSUME NEW b \in Bots, NEW u \in Updates[b], u < confirmed'[b]
                 PROVE  u \in handled[b]
    BY <1>2 DEF ConfirmedIsBelow, Below
  <2>2. confirmed'[b] = confirmed[b] \/ \E v \in Workers : confirmed'[b] = poll[v].offset
    BY ConfirmedSource
  <2> QED
    BY <2>1, <2>2 DEF OffsetIsBelow, ConfirmedIsBelow, Below
<1>8. BatchIsNext'
  <2>1. SUFFICES ASSUME NEW b \in Bots, NEW v \in Workers, NEW x \in poll'[v].batch
                 PROVE  /\ x \in Updates[b]
                        /\ \A u \in Updates[b] : u < x => u \in handled[b] \/ u \in poll'[v].batch
    BY <1>2 DEF BatchIsNext
  <2>2. CASE poll'[v].batch \in {poll[v].batch, {}}
    BY <2>1, <2>2 DEF BatchIsNext
  <2>3. CASE /\ st[v] = "polling"
             /\ poll'[v].batch \subseteq Remembered(v)
             /\ FirstOf(poll'[v].batch, Remembered(v))
    <3>1. poll[v].bot = b
      BY <2>3 DEF OneBot, Typed, HasBot, Polled
    <3>2. x \in Updates[b] /\ x \in Remembered(v)
      BY <2>1, <2>3, <3>1 DEF Remembered
    <3>3. ASSUME NEW u \in Updates[b], u < x PROVE u \in handled[b] \/ u \in poll'[v].batch
      <4>1. poll[v].offset \in Nat /\ confirmed[b] \in Nat /\ u \in Nat
        BY <1>3 DEF Typed, TypeOK, PollType
      <4>2. CASE u < poll[v].offset \/ u < confirmed[b]
        BY <4>2 DEF OffsetIsBelow, ConfirmedIsBelow, Below
      <4>3. CASE u >= poll[v].offset /\ u >= confirmed[b]
        <5>1. u \in Remembered(v)
          BY <3>1, <4>3 DEF Remembered
        <5> QED
          BY <2>1, <2>3, <3>3, <5>1 DEF FirstOf
      <4> QED
        BY <4>1, <4>2, <4>3
    <3> QED
      BY <3>2, <3>3
  <2>4. CASE st[v] = "cursor" /\ poll'[v].batch = poll[v].batch \ {First(v)}
    <3>1. First(v) \in handled[b]
      BY <2>4 DEF FirstIsHandled
    <3> QED
      BY <2>1, <2>4, <3>1 DEF BatchIsNext
  <2> QED
    BY <2>2, <2>3, <2>4, BatchSource
<1>9. FirstIsHandled'
  <2>1. SUFFICES ASSUME NEW b \in Bots, NEW v \in Workers, st'[v] = "cursor"
                 PROVE  First(v)' \in handled'[b]
    BY DEF FirstIsHandled
  <2>2. /\ poll'[v].batch = poll[v].batch
        /\ \/ st[v] = "cursor"
           \/ st[v] = "batch" /\ First(v) \in handled'[poll[v].bot]
    BY <2>1, CursorStateSource
  <2>3. First(v)' = First(v)
    BY <2>2 DEF First
  <2>4. CASE st[v] = "cursor"
    BY <1>2, <2>3, <2>4 DEF FirstIsHandled
  <2>5. CASE st[v] = "batch" /\ First(v) \in handled'[poll[v].bot]
    <3>1. poll[v].bot = b
      BY <2>5 DEF OneBot, Typed, HasBot, Polled
    <3> QED
      BY <2>3, <2>5, <3>1
  <2> QED
    BY <2>2, <2>4, <2>5
<1> QED
  BY <1>1, <1>5, <1>6, <1>7, <1>8, <1>9

-----------------------------------------------------------------------------
(* What Telegram forgets has been handled (updateCursor is called after    *)
(* the update is stored, resetCursorForBot never with one bot), for any    *)
(* number of processes, workers, settings, updates, faults and lapses.     *)
THEOREM OneBotLosesNothing == ASSUME OneBot PROVE Spec => []NothingForgotten
<1>1. PollInv /\ [Next]_vars => PollInv'
  BY PollStep
<1>2. PollInv => NothingForgotten
  BY DEF PollInv, ConfirmedIsBelow, Below, NothingForgotten
<1> QED
  BY <1>1, <1>2, PollInit, PTL DEF Spec

(* The types hold whatever the bots are. *)
THEOREM PollingTypeCorrect == Spec => []TypeOK
<1>1. Init => Typed
  BY PollInit DEF PollInv
<1>2. Typed => TypeOK
  BY DEF Typed
<1> QED
  BY <1>1, <1>2, TypedStep, PTL DEF Spec
=============================================================================
