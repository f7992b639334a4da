------------------------- MODULE ChannelInboxProofs -------------------------
(***************************************************************************)
(* Proofs about ChannelInbox: its variables keep their types; no message   *)
(* that was taken in is lost without a trace; what became of a message is  *)
(* settled once; and, as long as leases outlive the work, one processor at *)
(* most runs a turn, for any messages, modes, policies and processors.     *)
(*                                                                         *)
(* The inductive invariant RowsInv says what the rows and the history have *)
(* to do with one another: no two rows stand for one message, a message    *)
(* that a row stands for was taken in and is not settled, and one taken in *)
(* without a row is.  A step takes rows out and settles their messages,    *)
(* relabels rows, or takes one message in, and keeps it.                   *)
(***************************************************************************)
EXTENDS ChannelInbox, WellFoundedInduction, TLAPS

Fates == {"none", "answered", "failed", "injected", "interrupted", "superseded", "dropped"}
Rows == [id : Nat, at : Nat, msgs : SUBSET Messages, mode : Modes \cup {"followup"},
         status : {"queued", "processing"}, owner : Workers \cup {NoOwner}, lapsed : BOOLEAN]

(* A row, its numbers below n, for messages of S. *)
RowOK(r, n, S) ==
    /\ r \in Rows
    /\ 0 < r.id /\ r.id < n /\ r.at < n
    /\ r.msgs \subseteq S
    /\ (r.status = "processing") <=> (r.owner # NoOwner)

Apart(rows) ==
    \A r, x \in rows : r.id = x.id \/ r.at = x.at \/ r.msgs \cap x.msgs # {} => r = x

RowsInv ==
    /\ policy \in Policies
    /\ nextId \in Nat \ {0}
    /\ seen \subseteq Messages
    /\ fate \in [Messages -> Fates]
    /\ \A r \in queue : RowOK(r, nextId, seen)
    /\ Apart(queue)
    /\ \A m \in Messages : m \in Covered(queue) => fate[m] = "none"
    /\ \A m \in Messages : fate[m] # "none" => m \in seen
    /\ \A m \in seen : m \in Covered(queue) \/ fate[m] # "none"
    /\ \A m \in Messages : fate[m] = "dropped" => policy # "summarize_dropped"

(* What a tick of a processor has in hand in each of its states. *)
TickInv ==
    /\ pc \in [Workers -> {"idle", "claimed", "dead"} \cup Working]
    /\ DOMAIN batch = Workers
    /\ outcome \in [Workers -> {"none", "answered", "failed", "interrupted"}]
    /\ \A w \in Workers : pc[w] \in {"idle", "dead"} => batch[w] = {}
    /\ \A w \in Workers : pc[w] \in {"claimed", "leased", "listed", "running"} => batch[w] # {}
    /\ \A w \in Workers : pc[w] = "ending" => outcome[w] # "none"

LeaseTypes == convOwner \in Workers \cup {NoOwner} /\ convLapsed \in BOOLEAN

(* While leases outlive the work, whoever works holds the conversation. *)
HolderWorks ==
    ~LeaseMayLapse =>
        \A w \in Workers : pc[w] \in Working => convOwner = w /\ ~convLapsed

InboxInv == RowsInv /\ TickInv /\ LeaseTypes /\ HolderWorks

-----------------------------------------------------------------------------
(* Facts about rows *)

(* Of some rows numbered below n there is a newest. *)
LEMMA NewestIsOne ==
    ASSUME NEW n \in Nat, NEW rows, rows # {}, \A r \in rows : r.at \in Nat /\ r.at < n
    PROVE  Newest(rows) \in rows
<1> DEFINE R == OpToRel(<, Nat)
           Ages == {n - r.at : r \in rows}
<1>1. Ages \in SUBSET Nat /\ Ages # {}
  OBVIOUS
<1>2. PICK a \in Ages : \A b \in Ages : ~ (<<b, a>> \in R)
  <2> HIDE DEF Ages
  <2> QED BY <1>1, NatLessThanWellFounded, WFMin
<1>3. PICK r \in rows : a = n - r.at
  OBVIOUS
<1>4. \A x \in rows : x.at <= r.at
  <2> SUFFICES ASSUME NEW x \in rows PROVE x.at <= r.at
    OBVIOUS
  <2>1. n - x.at \in Ages
    OBVIOUS
  <2>2. ~ (<<n - x.at, n - r.at>> \in R)
    BY <1>2, <1>3, <2>1
  <2>3. ~ (n - x.at < n - r.at)
    BY <2>2 DEF OpToRel
  <2> QED BY <2>3
<1> QED BY <1>4 DEF Newest

(* Rows that no longer stand for the same messages cover no more and no    *)
(* less, if nothing but their state changed.                               *)
LEMMA CoveredRows ==
    \A rows, m : m \in Covered(rows) <=> \E r \in rows : m \in r.msgs
BY DEF Covered

(* A step that only relabels rows. *)
Relabels ==
    /\ UNCHANGED <<nextId, seen, fate, policy>>
    /\ \E h \in [queue -> Rows] :
         /\ queue' = {h[r] : r \in queue}
         /\ \A r \in queue : /\ h[r].id = r.id /\ h[r].at = r.at /\ h[r].msgs = r.msgs
                             /\ (h[r].status = "processing") <=> (h[r].owner # NoOwner)

(* A step that takes rows out and settles their messages. *)
TakesOut ==
    /\ UNCHANGED <<nextId, seen, policy>>
    /\ \E gone \in SUBSET queue, f \in Fates \ {"none", "dropped"} :
         /\ queue' = queue \ gone
         /\ fate' = [x \in Messages |-> IF x \in Covered(gone) THEN f ELSE fate[x]]

LEMMA RelabelKeeps ==
    ASSUME RowsInv, Relabels
    PROVE  RowsInv'
<1>1. PICK h \in [queue -> Rows] :
         /\ queue' = {h[r] : r \in queue}
         /\ \A r \in queue : /\ h[r].id = r.id /\ h[r].at = r.at /\ h[r].msgs = r.msgs
                             /\ (h[r].status = "processing") <=> (h[r].owner # NoOwner)
  BY DEF Relabels
<1>2. \A m : m \in Covered(queue') <=> m \in Covered(queue)
  BY <1>1, CoveredRows
<1>3. \A s \in queue' : RowOK(s, nextId, seen)
  BY <1>1 DEF RowsInv, RowOK
<1>4. Apart(queue')
  BY <1>1 DEF Apart, RowsInv
<1> QED BY <1>2, <1>3, <1>4 DEF RowsInv, Relabels

LEMMA TakeOutKeeps ==
    ASSUME RowsInv, TakesOut
    PROVE  RowsInv' /\ \A m \in Messages : fate[m] # "none" => fate'[m] = fate[m]
<1>1. PICK gone \in SUBSET queue, f \in Fates \ {"none", "dropped"} :
         /\ queue' = queue \ gone
         /\ fate' = [x \in Messages |-> IF x \in Covered(gone) THEN f ELSE fate[x]]
  BY DEF TakesOut
<1>2. /\ \A m : m \in Covered(queue') => m \in Covered(queue) /\ m \notin Covered(gone)
      /\ \A m : m \in Covered(queue) => m \in Covered(queue') \/ m \in Covered(gone)
      /\ \A m : m \in Covered(gone) => m \in Covered(queue)
  BY <1>1, CoveredRows DEF RowsInv, Apart
<1>3. \A m \in Covered(queue) : m \in seen
  BY CoveredRows DEF RowsInv, RowOK
<1>4. fate' \in [Messages -> Fates]
  BY <1>1 DEF RowsInv
<1>5. \A m \in Messages : /\ m \in Covered(gone) => fate[m] = "none" /\ fate'[m] = f
                          /\ m \notin Covered(gone) => fate'[m] = fate[m]
  BY <1>1, <1>2 DEF RowsInv
<1>6. (\A r \in queue' : RowOK(r, nextId, seen)) /\ Apart(queue')
  BY <1>1 DEF RowsInv, Apart
<1> QED BY <1>1, <1>2, <1>3, <1>4, <1>5, <1>6 DEF RowsInv, TakesOut

-----------------------------------------------------------------------------
(* The arrival of a message *)

(* An overflow removes rows that are there. *)
LEMMA OverflowIsThere ==
    ASSUME NEW q, policy \in Policies
    PROVE  OverflowRows(q) \subseteq q
<1>1. /\ Queued(q) \subseteq q
      /\ \A n, rows : Oldest(n, rows) \subseteq rows
  BY DEF Queued, Oldest
<1>2. policy \in {"drop_oldest", "drop_newest", "summarize_dropped"}
  BY ChannelInboxAssumption
<1> QED BY <1>1, <1>2 DEF OverflowRows

(* Where rows are summarized, the summary takes their place. *)
LEMMA AfterOverflowRows ==
    ASSUME nextId \in Nat \ {0}, NEW q, NEW S \in SUBSET Messages, NEW dropped \in SUBSET q,
           \A r \in q : RowOK(r, nextId + 1, S), Apart(q)
    PROVE  LET after == AfterOverflow(q, dropped)
           IN  /\ \A r \in after : RowOK(r, nextId + 2, S)
               /\ Apart(after)
               /\ \A m : m \in Covered(after) => m \in Covered(q)
               /\ \A m : m \in Covered(q) => m \in Covered(after) \/ m \in Covered(dropped)
               /\ policy = "summarize_dropped" => \A m \in Covered(q) : m \in Covered(after)
<1> DEFINE after == AfterOverflow(q, dropped)
<1>1. \A r \in q : RowOK(r, nextId + 2, S)
  BY DEF RowOK, Rows
<1>2. CASE dropped = {} \/ policy # "summarize_dropped"
  <2>1. after = q \ dropped
    BY <1>2 DEF AfterOverflow
  <2>2. Apart(after)
    BY <2>1 DEF Apart
  <2>3. policy = "summarize_dropped" => after = q
    BY <1>2, <2>1
  <2> HIDE DEF after
  <2> QED BY <1>1, <2>1, <2>2, <2>3, CoveredRows DEF after
<1>3. CASE dropped # {} /\ policy = "summarize_dropped"
  <2> DEFINE new == Newest(dropped)
             sum == Row(nextId + 1, new.at, SummaryCovers(dropped), "followup")
  <2>1. after = (q \ dropped) \cup {sum}
    BY <1>3 DEF AfterOverflow
  <2>2. \A r \in q : r.at \in Nat /\ r.at < nextId + 1 /\ r.id < nextId + 1 /\ r.id \in Nat
    BY DEF RowOK, Rows
  <2>3. new \in dropped
    BY <1>3, <2>2, NewestIsOne
  <2>4. sum.msgs = Covered(dropped) /\ sum.id = nextId + 1 /\ sum.at = new.at
    BY DEF Row, SummaryCovers
  <2>5. RowOK(sum, nextId + 2, S)
    <3>1. Covered(dropped) \subseteq S
      BY CoveredRows DEF RowOK
    <3>2. new.at \in Nat /\ new.at < nextId + 1
      BY <2>2, <2>3
    <3> HIDE DEF new
    <3> QED BY <3>1, <3>2 DEF RowOK, Rows, Row, SummaryCovers
  <2>6. \A r \in q \ dropped :
            /\ r.id # sum.id /\ r.at # sum.at
            /\ r.msgs \cap sum.msgs = {}
    <3> SUFFICES ASSUME NEW r \in q \ dropped
                 PROVE  r.id # sum.id /\ r.at # sum.at /\ r.msgs \cap sum.msgs = {}
      OBVIOUS
    <3>1. r.id # nextId + 1
      BY <2>2
    <3>2. r.at # new.at
      BY <2>3 DEF Apart
    <3>3. \A x \in dropped : r.msgs \cap x.msgs = {}
      BY DEF Apart
    <3>4. r.msgs \cap Covered(dropped) = {}
      BY <3>3, CoveredRows
    <3> QED BY <2>4, <3>1, <3>2, <3>4
  <2> HIDE DEF after, sum, new
  <2>7. Apart(after)
    BY <2>1, <2>6 DEF Apart
  <2>8. /\ \A m \in Covered(after) : m \in Covered(q)
        /\ \A m \in Covered(q) : m \in Covered(after)
    BY <2>1, <2>4, CoveredRows
  <2> QED BY <1>1, <2>1, <2>5, <2>7, <2>8 DEF after
<1> QED BY <1>2, <1>3

(* A message is taken in once, covered or dropped by its own overflow. *)
LEMMA ReceiveKeeps ==
    ASSUME RowsInv, NEW m \in Messages, Receive(m)
    PROVE  RowsInv' /\ \A x \in Messages : fate[x] # "none" => fate'[x] = fate[x]
<1>1. CASE ~TakesDedupe(m)
  BY <1>1 DEF Receive, rowVars, RowsInv
<1>2. CASE TakesDedupe(m)
  <2>1. PICK mode \in Modes :
            LET q == queue \cup {Row(nextId, nextId, {m}, mode)}
                dropped == OverflowRows(q)
                queueAfter == AfterOverflow(q, dropped)
            IN /\ queue' = queueAfter
               /\ nextId' = nextId + 2
               /\ seen' = seen \cup {m}
               /\ fate' = [x \in Messages |->
                             IF x \in Covered(dropped) \ Covered(queueAfter)
                             THEN "dropped" ELSE fate[x]]
    BY <1>2 DEF Receive
  <2> DEFINE new == Row(nextId, nextId, {m}, mode)
             q == queue \cup {new}
             dropped == OverflowRows(q)
             after == AfterOverflow(q, dropped)
  <2>2. /\ queue' = after /\ nextId' = nextId + 2 /\ seen' = seen \cup {m}
        /\ fate' = [x \in Messages |->
                      IF x \in Covered(dropped) \ Covered(after) THEN "dropped" ELSE fate[x]]
        /\ policy' = policy
    BY <2>1 DEF Receive
  <2>3. new.id = nextId /\ new.at = nextId /\ new.msgs = {m}
    BY DEF Row
  <2>4. m \notin seen /\ fate[m] = "none" /\ seen \subseteq Messages
    BY <1>2 DEF TakesDedupe, RowsInv
  <2>5. RowOK(new, nextId + 1, seen \cup {m})
    BY DEF RowOK, Row, Rows, RowsInv
  <2>6. \A r \in queue : RowOK(r, nextId + 1, seen \cup {m}) /\ r.id < nextId /\ r.at < nextId
                         /\ m \notin r.msgs /\ r.id \in Nat /\ r.at \in Nat
    BY <2>4 DEF RowsInv, RowOK, Rows
  <2>7. dropped \subseteq q
    BY OverflowIsThere DEF RowsInv
  <2>8. nextId \in Nat \ {0}
    BY DEF RowsInv
  <2> HIDE DEF new
  <2>9. Apart(q)
    BY <2>3, <2>6, <2>8 DEF Apart, RowsInv
  <2>10. \A x : x \in Covered(q) <=> x \in Covered(queue) \/ x = m
    BY <2>3, CoveredRows
  <2> HIDE DEF q, dropped, after
  <2>11. /\ \A r \in after : RowOK(r, nextId + 2, seen \cup {m})
         /\ Apart(after)
         /\ \A x : x \in Covered(after) => x \in Covered(q)
         /\ \A x : x \in Covered(q) => x \in Covered(after) \/ x \in Covered(dropped)
         /\ policy = "summarize_dropped" => \A x \in Covered(q) : x \in Covered(after)
         /\ \A x \in Covered(dropped) : x \in Covered(q)
    <3>1. \A r \in q : RowOK(r, nextId + 1, seen \cup {m})
      BY <2>5, <2>6 DEF q
    <3>2. seen \cup {m} \in SUBSET Messages
      BY <2>4
    <3>3. \A x \in Covered(dropped) : x \in Covered(q)
      BY <2>7, CoveredRows
    <3> QED BY <2>7, <2>8, <2>9, <3>1, <3>2, <3>3, AfterOverflowRows DEF after
  <2>12. fate' \in [Messages -> Fates]
    BY <2>2 DEF RowsInv, Fates
  <2>13. ASSUME NEW x \in Messages
         PROVE  /\ x \in Covered(after) => fate'[x] = "none"
                /\ fate'[x] # "none" => x \in seen \cup {m}
                /\ x \in seen \cup {m} => x \in Covered(after) \/ fate'[x] # "none"
                /\ fate'[x] = "dropped" => policy # "summarize_dropped"
                /\ fate[x] # "none" => fate'[x] = fate[x]
    <3>1. /\ x \in Covered(dropped) \ Covered(after) => fate'[x] = "dropped"
          /\ x \notin Covered(dropped) \ Covered(after) => fate'[x] = fate[x]
      BY <2>2
    <3>2. /\ x \in Covered(q) => fate[x] = "none" /\ x \in seen \cup {m}
          /\ fate[x] # "none" => x \in seen
          /\ x \in seen => x \in Covered(q) \/ fate[x] # "none"
          /\ fate[x] = "dropped" => policy # "summarize_dropped"
      <4>1. \A y \in Covered(queue) : y \in seen
        BY CoveredRows DEF RowsInv, RowOK
      <4> QED BY <2>4, <2>10, <4>1 DEF RowsInv
    <3>3. m \in Covered(q)
      BY <2>10
    <3> QED BY <2>11, <3>1, <3>2, <3>3
  <2>14. nextId + 2 \in Nat \ {0}
    BY <2>8
  <2>15. seen' \subseteq Messages
    BY <2>2, <2>4
  <2> QED BY <2>2, <2>4, <2>11, <2>12, <2>13, <2>14, <2>15 DEF RowsInv
<1> QED BY <1>1, <1>2

-----------------------------------------------------------------------------
(* The other steps *)

(* The rows of S get the labels that g gives them. *)
RelabelsBy(S, g) ==
    /\ S \subseteq queue
    /\ g \in [S -> Rows]
    /\ \A r \in S : /\ g[r].id = r.id /\ g[r].at = r.at /\ g[r].msgs = r.msgs
                    /\ (g[r].status = "processing") <=> (g[r].owner # NoOwner)
    /\ queue' = (queue \ S) \cup {g[r] : r \in S}
    /\ UNCHANGED <<nextId, seen, fate, policy>>

LEMMA RelabelSome ==
    ASSUME RowsInv, NEW S, NEW g, RelabelsBy(S, g)
    PROVE  Relabels
<1> DEFINE h == [r \in queue |-> IF r \in S THEN g[r] ELSE r]
<1>1. h \in [queue -> Rows]
  BY DEF RelabelsBy, RowsInv, RowOK
<1>2. queue' = {h[r] : r \in queue}
  BY DEF RelabelsBy
<1>3. \A r \in queue : /\ h[r].id = r.id /\ h[r].at = r.at /\ h[r].msgs = r.msgs
                       /\ (h[r].status = "processing") <=> (h[r].owner # NoOwner)
  BY DEF RelabelsBy, RowsInv, RowOK
<1> QED BY <1>1, <1>2, <1>3 DEF Relabels, RelabelsBy

LEMMA NewLabels ==
    ASSUME NEW r \in Rows
    PROVE  /\ \A w \in Workers :
                LET s == ClaimedBy(w, r)
                IN  /\ s \in Rows /\ s.id = r.id /\ s.at = r.at /\ s.msgs = r.msgs
                    /\ s.status = "processing" /\ s.owner # NoOwner
           /\ LET s == [r EXCEPT !.status = "queued", !.owner = NoOwner]
              IN  /\ s \in Rows /\ s.id = r.id /\ s.at = r.at /\ s.msgs = r.msgs
                  /\ s.status = "queued" /\ s.owner = NoOwner
           /\ LET s == [r EXCEPT !.lapsed = TRUE]
              IN  /\ s \in Rows /\ s.id = r.id /\ s.at = r.at /\ s.msgs = r.msgs
                  /\ s.status = r.status /\ s.owner = r.owner
BY ChannelInboxAssumption DEF ClaimedBy, Rows

RowsAlone == UNCHANGED <<queue, nextId, seen, fate, policy>>

LEMMA ArrivalRows ==
    ASSUME RowsInv, NEW m \in Messages, LooksForActiveTurn(m) \/ RaiseSignal(m)
    PROVE  RowsAlone \/ TakesOut
<1>1. CASE LooksForActiveTurn(m)
  BY <1>1 DEF LooksForActiveTurn, rowVars, RowsAlone
<1>2. CASE RaiseSignal(m)
  <2> DEFINE purged == {r \in Queued(queue) :
                        arrival[m].mode = "interrupt" /\ r.id # arrival[m].id}
  <2>1. /\ queue' = queue \ purged
        /\ fate' = [x \in Messages |-> IF x \in Covered(purged) THEN "superseded"
                                         ELSE fate[x]]
        /\ UNCHANGED <<nextId, seen, policy>>
    BY <1>2 DEF RaiseSignal
  <2>2. purged \in SUBSET queue
    BY DEF Queued
  <2>3. "superseded" \in Fates \ {"none", "dropped"}
    BY DEF Fates
  <2> HIDE DEF purged
  <2> QED BY <2>1, <2>2, <2>3 DEF TakesOut
<1> QED BY <1>1, <1>2

LEMMA ClaimRows ==
    ASSUME RowsInv, NEW w \in Workers, ClaimNext(w) \/ ClaimBatch(w)
    PROVE  Relabels
<1>0. \A r \in queue : r \in Rows
  BY DEF RowsInv, RowOK
<1> DEFINE g(S) == [x \in S |-> ClaimedBy(w, x)]
<1>1. PICK S \in SUBSET queue : queue' = (queue \ S) \cup {ClaimedBy(w, x) : x \in S}
  <2>1. CASE ClaimNext(w)
    <3>1. PICK r \in queue : queue' = (queue \ {r}) \cup {ClaimedBy(w, r)}
      BY <2>1 DEF ClaimNext
    <3> QED BY <3>1
  <2>2. CASE ClaimBatch(w)
    BY <2>2 DEF ClaimBatch
  <2> QED BY <2>1, <2>2
<1>2. UNCHANGED <<nextId, seen, fate, policy>>
  BY DEF ClaimNext, ClaimBatch
<1>3. \A x \in S : LET s == ClaimedBy(w, x)
                   IN  /\ s \in Rows /\ s.id = x.id /\ s.at = x.at /\ s.msgs = x.msgs
                       /\ (s.status = "processing") <=> (s.owner # NoOwner)
  <2> SUFFICES ASSUME NEW x \in S
               PROVE  LET s == ClaimedBy(w, x)
                      IN  /\ s \in Rows /\ s.id = x.id /\ s.at = x.at /\ s.msgs = x.msgs
                          /\ (s.status = "processing") <=> (s.owner # NoOwner)
    OBVIOUS
  <2> DEFINE s == ClaimedBy(w, x)
  <2>1. /\ s \in Rows /\ s.id = x.id /\ s.at = x.at /\ s.msgs = x.msgs
        /\ s.status = "processing" /\ s.owner # NoOwner
    BY <1>0, NewLabels
  <2> HIDE DEF s
  <2> QED BY <2>1 DEF s
<1>4. RelabelsBy(S, g(S))
  BY <1>1, <1>2, <1>3 DEF RelabelsBy
<1> HIDE DEF g
<1> QED BY <1>4, RelabelSome

LEMMA RequeueRows ==
    ASSUME RowsInv, NEW w \in Workers, Requeue(w)
    PROVE  Relabels
<1>0. \A r \in queue : r \in Rows
  BY DEF RowsInv, RowOK
<1> DEFINE back(r) == [r EXCEPT !.status = "queued", !.owner = NoOwner]
           S == {r \in queue : r.id \in Ids(batch[w]) /\ Owns(w, r)}
           g == [x \in S |-> back(x)]
<1>1. queue' = {IF r.id \in Ids(batch[w]) /\ Owns(w, r) THEN back(r) ELSE r : r \in queue}
  BY DEF Requeue
<1>2. queue' = (queue \ S) \cup {back(r) : r \in S}
  <2> HIDE DEF back
  <2> QED BY <1>1
<1>3. S \in SUBSET queue
  OBVIOUS
<1>4. UNCHANGED <<nextId, seen, fate, policy>>
  BY DEF Requeue
<1>5. \A x \in S : /\ back(x) \in Rows /\ back(x).id = x.id /\ back(x).at = x.at
                   /\ back(x).msgs = x.msgs
                   /\ (back(x).status = "processing") <=> (back(x).owner # NoOwner)
  BY <1>0, NewLabels
<1> HIDE DEF S, back
<1>6. RelabelsBy(S, g)
  BY <1>2, <1>3, <1>4, <1>5 DEF RelabelsBy
<1> HIDE DEF g
<1> QED BY <1>6, RelabelSome

LEMMA LapseRows ==
    ASSUME RowsInv, RowLapses
    PROVE  Relabels
<1>1. PICK r \in queue : queue' = (queue \ {r}) \cup {[r EXCEPT !.lapsed = TRUE]}
  BY DEF RowLapses
<1>2. r \in Rows /\ ((r.status = "processing") <=> (r.owner # NoOwner))
  BY DEF RowsInv, RowOK
<1> DEFINE late == [r EXCEPT !.lapsed = TRUE]
           g == [x \in {r} |-> late]
<1>3. /\ late \in Rows /\ late.id = r.id /\ late.at = r.at /\ late.msgs = r.msgs
      /\ (late.status = "processing") <=> (late.owner # NoOwner)
  BY <1>2, NewLabels
<1>4. UNCHANGED <<nextId, seen, fate, policy>>
  BY DEF RowLapses
<1> HIDE DEF late
<1>5. RelabelsBy({r}, g)
  BY <1>1, <1>3, <1>4 DEF RelabelsBy, late
<1> HIDE DEF g
<1> QED BY <1>5, RelabelSome

LEMMA SettlingRows ==
    ASSUME RowsInv, TickInv, NEW w \in Workers, ClaimSignal(w) \/ MarkRow(w)
    PROVE  RowsAlone \/ TakesOut
<1>0. "injected" \in Fates \ {"none", "dropped"}
  BY DEF Fates
<1>1. CASE ClaimSignal(w) /\ signal.kind = "interrupt"
  BY <1>1 DEF ClaimSignal, RowsAlone
<1>2. CASE ClaimSignal(w) /\ signal.kind # "interrupt"
  <2> DEFINE steered == {r \in queue : r.id = signal.id /\ signal.mode = "steer"}
  <2>1. /\ queue' = queue \ steered
        /\ fate' = [x \in Messages |-> IF x \in Covered(steered) THEN "injected" ELSE fate[x]]
        /\ UNCHANGED <<nextId, seen, policy>>
    BY <1>2 DEF ClaimSignal
  <2>2. steered \in SUBSET queue
    OBVIOUS
  <2> HIDE DEF steered
  <2> QED BY <1>0, <2>1, <2>2 DEF TakesOut
<1>3. CASE MarkRow(w)
  <2>1. PICK r \in batch[w] :
         LET mine == {x \in queue : x.id = r.id /\ Owns(w, x)}
         IN /\ queue' = queue \ mine
            /\ fate' = [x \in Messages |-> IF x \in Covered(mine) THEN outcome[w] ELSE fate[x]]
    BY <1>3 DEF MarkRow
  <2> DEFINE mine == {x \in queue : x.id = r.id /\ Owns(w, x)}
  <2>2. /\ queue' = queue \ mine
        /\ fate' = [x \in Messages |-> IF x \in Covered(mine) THEN outcome[w] ELSE fate[x]]
        /\ mine \in SUBSET queue
    BY <2>1
  <2>3. UNCHANGED <<nextId, seen, policy>> /\ outcome[w] \in Fates \ {"none", "dropped"}
    BY <1>3 DEF MarkRow, TickInv, Fates
  <2> HIDE DEF mine
  <2> QED BY <2>2, <2>3 DEF TakesOut
<1> QED BY <1>1, <1>2, <1>3

(* Every step leaves the rows alone, relabels some, takes some out, or     *)
(* takes one message in; and what is settled stays settled.                *)
LEMMA RowsKept ==
    ASSUME RowsInv, TickInv, [Next]_vars
    PROVE  RowsInv' /\ \A m \in Messages : fate[m] # "none" => fate'[m] = fate[m]
<1>1. CASE RowsAlone
  BY <1>1 DEF RowsAlone, RowsInv
<1>2. CASE Relabels
  <2>1. fate' = fate
    BY <1>2 DEF Relabels
  <2> QED BY <1>2, <2>1, RelabelKeeps
<1>3. CASE TakesOut
  BY <1>3, TakeOutKeeps
<1>4. ASSUME NEW m \in Messages, Arrival(m)
      PROVE  RowsInv' /\ \A x \in Messages : fate[x] # "none" => fate'[x] = fate[x]
  BY <1>1, <1>3, <1>4, ReceiveKeeps, ArrivalRows DEF Arrival
<1>5. ASSUME NEW w \in Workers, Tick(w) \/ Faulty(w)
      PROVE  RowsInv' /\ \A m \in Messages : fate[m] # "none" => fate'[m] = fate[m]
  <2>1. CASE AcquireConversation(w) \/ ListBatch(w) \/ EndTurn(w) \/ EndTick(w) \/ Faulty(w)
    <3>1. RowsAlone
      BY <2>1 DEF AcquireConversation, ListBatch, EndTurn, EndTick, Faulty, TickThrows, Crash,
                  rowVars, RowsAlone
    <3> QED BY <1>1, <3>1
  <2> QED BY <1>1, <1>2, <1>3, <1>5, <2>1, ClaimRows, RequeueRows, SettlingRows DEF Tick
<1>6. CASE RowLapses
  BY <1>2, <1>6, LapseRows
<1>7. CASE ConversationLapses \/ UNCHANGED vars
  <2>1. RowsAlone
    BY <1>7 DEF ConversationLapses, vars, rowVars, RowsAlone
  <2> QED BY <1>1, <2>1
<1> QED BY <1>4, <1>5, <1>6, <1>7 DEF Next

-----------------------------------------------------------------------------
(* Ticks and the conversation lease *)

LEMMA TicksKept ==
    ASSUME TickInv, [Next]_vars
    PROVE  TickInv'
<1>1. CASE UNCHANGED workVars
  BY <1>1 DEF workVars, TickInv
<1>2. ASSUME NEW w \in Workers, NEW to \in {"idle", "dead"}, LeavesTick(w, to)
      PROVE  TickInv'
  BY <1>2 DEF LeavesTick, TickInv, Working
<1>3. ASSUME NEW w \in Workers, Tick(w) \/ Faulty(w)
      PROVE  TickInv'
  <2>1. CASE ClaimNext(w)
    BY <2>1 DEF ClaimNext, TickInv, Working
  <2>2. CASE AcquireConversation(w)
    BY <2>2 DEF AcquireConversation, TickInv, Working
  <2>3. CASE Requeue(w)
    BY <2>3 DEF Requeue, TickInv, Working
  <2>4. CASE ListBatch(w)
    BY <2>4 DEF ListBatch, TickInv, Working
  <2>5. CASE ClaimBatch(w)
    BY <2>5 DEF ClaimBatch, TickInv, Working
  <2>6. CASE ClaimSignal(w)
    BY <2>6 DEF ClaimSignal, TickInv, Working
  <2>7. CASE EndTurn(w)
    BY <2>7 DEF EndTurn, TickInv, Working
  <2>8. CASE MarkRow(w)
    BY <2>8 DEF MarkRow, TickInv, Working
  <2> QED BY <1>2, <1>3, <2>1, <2>2, <2>3, <2>4, <2>5, <2>6, <2>7, <2>8
          DEF Tick, Faulty, EndTick, TickThrows, Crash
<1>4. ASSUME NEW m \in Messages, Arrival(m)
      PROVE  TickInv'
  BY <1>1, <1>4 DEF Arrival, Receive, LooksForActiveTurn, RaiseSignal
<1> QED BY <1>1, <1>3, <1>4 DEF Next, RowLapses, ConversationLapses, vars

LEMMA LeaseKept ==
    ASSUME TickInv, LeaseTypes, HolderWorks, [Next]_vars
    PROVE  LeaseTypes' /\ HolderWorks'
<1>1. CASE UNCHANGED <<leaseVars, pc>>
  BY <1>1 DEF leaseVars, LeaseTypes, HolderWorks
<1>2. ASSUME NEW w \in Workers, UNCHANGED leaseVars, NEW st, pc' = [pc EXCEPT ![w] = st],
             st \in Working => pc[w] \in Working
      PROVE  LeaseTypes' /\ HolderWorks'
  BY <1>2 DEF leaseVars, LeaseTypes, HolderWorks, TickInv
<1>3. ASSUME NEW w \in Workers, pc[w] \in Working, ReleasedLease(w), LeavesTick(w, "idle")
      PROVE  LeaseTypes' /\ HolderWorks'
  <2>1. pc' = [pc EXCEPT ![w] = "idle"] /\ "idle" \notin Working
    BY <1>3 DEF LeavesTick, Working
  <2>2. CASE convOwner = w
    BY <1>3, <2>1, <2>2, ChannelInboxAssumption DEF ReleasedLease, LeaseTypes, HolderWorks, TickInv
  <2>3. CASE convOwner # w
    BY <1>3, <2>1, <2>3 DEF ReleasedLease, leaseVars, LeaseTypes, HolderWorks, TickInv
  <2> QED BY <2>2, <2>3
<1>4. ASSUME NEW w \in Workers, Tick(w) \/ Faulty(w)
      PROVE  LeaseTypes' /\ HolderWorks'
  <2>1. CASE ClaimNext(w) \/ Requeue(w) \/ ListBatch(w) \/ ClaimBatch(w) \/ EndTurn(w) \/ Crash(w)
    <3>1. UNCHANGED leaseVars /\ \E st : /\ pc' = [pc EXCEPT ![w] = st]
                                         /\ st \in Working => pc[w] \in Working
      BY <2>1 DEF ClaimNext, Requeue, ListBatch, ClaimBatch, EndTurn, Crash, LeavesTick,
                  Working
    <3> QED BY <1>2, <3>1
  <2>2. CASE AcquireConversation(w)
    BY <2>2, ChannelInboxAssumption
       DEF AcquireConversation, MayTakeConversation, LeaseTypes, HolderWorks, TickInv
  <2>3. CASE ClaimSignal(w)
    <3>1. pc[w] \in Working /\ UNCHANGED leaseVars
      BY <2>3 DEF ClaimSignal, Working
    <3>2. UNCHANGED pc \/ pc' = [pc EXCEPT ![w] = "ending"]
      BY <2>3 DEF ClaimSignal
    <3> QED BY <1>1, <1>2, <3>1, <3>2
  <2>4. CASE MarkRow(w)
    BY <1>1, <2>4 DEF MarkRow
  <2>5. CASE EndTick(w) \/ TickThrows(w)
    <3>1. pc[w] \in Working /\ ReleasedLease(w) /\ LeavesTick(w, "idle")
      BY <2>5 DEF EndTick, TickThrows, Working
    <3> QED BY <1>3, <3>1
  <2> QED BY <1>4, <2>1, <2>2, <2>3, <2>4, <2>5 DEF Tick, Faulty
<1>5. ASSUME NEW m \in Messages, Arrival(m)
      PROVE  LeaseTypes' /\ HolderWorks'
  BY <1>1, <1>5 DEF Arrival, Receive, LooksForActiveTurn, RaiseSignal, workVars
<1>6. CASE ConversationLapses
  BY <1>6 DEF ConversationLapses, workVars, LeaseTypes, HolderWorks
<1>7. CASE RowLapses \/ UNCHANGED vars
  BY <1>1, <1>7 DEF RowLapses, vars, workVars
<1> QED BY <1>4, <1>5, <1>6, <1>7 DEF Next

LEMMA InboxInvInit == Init => InboxInv
<1> SUFFICES ASSUME Init PROVE InboxInv
  OBVIOUS
<1>1. Covered({}) = {}
  BY DEF Covered
<1>2. RowsInv
  BY <1>1 DEF Init, RowsInv, Fates, Apart
<1>3. TickInv
  BY DEF Init, TickInv, Working
<1>4. LeaseTypes /\ HolderWorks
  BY DEF Init, LeaseTypes, HolderWorks, Working
<1> QED BY <1>2, <1>3, <1>4 DEF InboxInv

LEMMA InboxInvHolds == Spec => []InboxInv
<1>1. InboxInv /\ [Next]_vars => InboxInv'
  BY RowsKept, TicksKept, LeaseKept DEF InboxInv
<1> QED BY <1>1, InboxInvInit, PTL DEF Spec

-----------------------------------------------------------------------------
(* The theorems *)

(* The variables of ChannelInbox keep their types, no row id and no place  *)
(* in the order is used twice, and a tick has rows in hand when its state  *)
(* says so (telegram-processor.ts:141, tick).                              *)
THEOREM InboxTypeCorrect == Spec => []TypeOK
<1>1. InboxInv => TypeOK
  <2> SUFFICES ASSUME InboxInv PROVE TypeOK
    OBVIOUS
  <2>1. \A r \in queue :
         /\ r.id \in 1..nextId
         /\ r.msgs \in SUBSET seen
         /\ r.status \in {"queued", "processing"}
         /\ (r.status = "processing") <=> (r.owner # NoOwner)
    BY DEF InboxInv, RowsInv, RowOK, Rows
  <2>2. \A r \in queue : (r.status = "processing") = (r.owner # NoOwner)
    BY <2>1
  <2> QED BY <2>1, <2>2 DEF InboxInv, RowsInv, Apart, LeaseTypes, TickInv, TypeOK, Fates
<1> QED BY <1>1, InboxInvHolds, PTL

(* Every message that was taken in is in the queue or settled, and the     *)
(* overflow drops none of them where it is to summarize                    *)
(* (inbox-dal-helpers.ts:222, applyInboundQueueOverflowPolicy).            *)
THEOREM NothingLost == Spec => []Accounted
<1>1. InboxInv => Accounted
  BY DEF InboxInv, RowsInv, Accounted
<1> QED BY <1>1, InboxInvHolds, PTL

(* What became of a message is settled once: neither a second delivery nor *)
(* the return of a crashed processor changes it (inbox-dal.ts:253,         *)
(* markCompleted and markFailed; tryDedupeAcquire).                        *)
THEOREM SettledForGood == Spec => SettledOnce
<1>1. InboxInv /\ [Next]_vars
        => [\A m \in Messages : fate[m] # "none" => fate'[m] = fate[m]]_vars
  BY RowsKept DEF InboxInv
<1> QED BY <1>1, InboxInvHolds, PTL DEF Spec, SettledOnce

(* One processor at most runs a turn of the conversation, where no lease   *)
(* runs out under its holder (telegram-shared.ts:467,                      *)
(* tryAcquireConversationLease).                                           *)
THEOREM OneTurn == ASSUME ~LeaseMayLapse
                   PROVE  Spec => []OneTurnAtATime
<1>1. InboxInv => OneTurnAtATime
  BY DEF InboxInv, HolderWorks, OneTurnAtATime
<1> QED BY <1>1, InboxInvHolds, PTL
=============================================================================
