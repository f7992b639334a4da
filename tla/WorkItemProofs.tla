--------------------------- MODULE WorkItemProofs ---------------------------
(***************************************************************************)
(* Proofs about WorkItem: its variables keep their types, no two launches  *)
(* run one task at once, and a task is worked on after those it depends    *)
(* on, for any processes and any number of tasks.                          *)
(*                                                                         *)
(* The inductive invariant, HandsInv, speaks of the hands a task is in: a  *)
(* dispatcher that leased it and has not started it, or a launch that has  *)
(* not come to its last look at the item.  While no task was taken from    *)
(* the hands it is in, a task is in one pair of hands at most; it is then  *)
(* leased (and the lease has not lapsed), running or paused, or else the   *)
(* item is over; and the tasks it depends on have ended and are in no      *)
(* hands, so nobody can put them back.                                     *)
(***************************************************************************)
EXTENDS WorkItem, FiniteSetTheorems, WellFoundedInduction, TLAPS

Statuses == DOMAIN WORK_ITEM_TRANSITIONS
TaskRow == [st : {"none"} \cup Open \cup Ended, owner : Procs \cup {NoProc},
            lapsed : BOOLEAN, deps : SUBSET Tasks, retry : 0..1]
Dispatch == [pc : {"idle", "create", "begin"}, seen : Statuses \cup {"none"},
             got : SUBSET Tasks]
Launch == [pc : {"idle", "new", "create", "start", "turn", "catch", "finally"},
           by : Procs \cup {NoProc}]

Types ==
    /\ live \subseteq Procs
    /\ item \in Statuses
    /\ task \in [Tasks -> TaskRow]
    /\ disp \in [Procs -> Dispatch]
    /\ launch \in [Launches -> Launch]
    /\ sub \in [Launches -> {"none", "running", "paused", "closed", "failed"}]
    /\ signal \subseteq Launches
    /\ events \in Nat
    /\ raced \in BOOLEAN

(* Only a dispatcher about to start its tasks holds any, and no dead one. *)
Holders == \A p \in Procs : disp[p].got # {} => disp[p].pc = "begin" /\ p \in live

Holds(t) == {p \in Procs : t \in disp[p].got}
Runs(t) == {l \in Launches : Executes(l, t)}
InHand(t) == Holds(t) # {} \/ Runs(t) # {}

OnePair ==
    \A t \in Tasks : /\ \A p, q \in Holds(t) : p = q
                     /\ \A k, l \in Runs(t) : k = l
                     /\ Holds(t) = {} \/ Runs(t) = {}
Untouched(t) ==
    /\ task[t].st \notin {"none", "queued"}
    /\ ~task[t].lapsed
    /\ Over(item) \/ task[t].st \notin Ended
KeptInHand == \A t \in Tasks : InHand(t) => Untouched(t)
DepsSettled ==
    \A t \in Tasks : InHand(t) =>
        \A d \in task[t].deps : task[d].st \in Ended /\ ~InHand(d)

HandsInv == Types /\ Holders /\ (~raced => OnePair /\ KeptInHand /\ DepsSettled)

-----------------------------------------------------------------------------
(* Facts about the operators of the model *)

(* A status is followed by a status, and a terminal one by none. *)
LEMMA Transitions ==
    \A i \in Statuses : /\ WORK_ITEM_TRANSITIONS[i] \subseteq Statuses
                        /\ Over(i) => WORK_ITEM_TRANSITIONS[i] = {}
BY DEF Statuses, WORK_ITEM_TRANSITIONS, Over

(* The first of some tasks is one of them. *)
LEMMA MinIsOne == ASSUME NEW S \in SUBSET Nat, S # {}
                  PROVE  Min(S) \in S
<1> DEFINE R == OpToRel(<, Nat)
<1>1. \E x \in S : \A y \in S : ~ (<<y, x>> \in R)
  BY NatLessThanWellFounded, WFMin
<1>2. \A x, y \in Nat : ~ (<<y, x>> \in R) => x =< y
  BY DEF OpToRel
<1>3. \E x \in S : \A y \in S : x =< y
  BY <1>1, <1>2
<1> QED BY <1>3 DEF Min

LEMMA TasksAreNat == Tasks \subseteq Nat
BY WorkAssumption DEF Tasks

(* Put changes the status and clears the lease. *)
LEMMA PutRow ==
    ASSUME NEW x \in TaskRow, NEW st \in {"queued", "running", "paused", "completed",
                                          "failed", "cancelled"}
    PROVE  /\ Put(x, st) \in TaskRow
           /\ Put(x, st).st = st
           /\ ~Put(x, st).lapsed
           /\ Put(x, st).deps = x.deps
           /\ \A n \in 0..1 : /\ [Put(x, st) EXCEPT !.retry = n] \in TaskRow
                              /\ [Put(x, st) EXCEPT !.retry = n].st = st
                              /\ ~[Put(x, st) EXCEPT !.retry = n].lapsed
                              /\ [Put(x, st) EXCEPT !.retry = n].deps = x.deps
BY DEF Put, TaskRow, Open, Ended

LEMMA NewRow ==
    /\ NewTask("queued", {}) \in TaskRow
    /\ NewTask("queued", {}).st = "queued"
    /\ NewTask("queued", {}).deps = {}
    /\ \A deps \in SUBSET Tasks, st \in {"none", "queued"} : NewTask(st, deps) \in TaskRow
BY DEF NewTask, TaskRow, Open, Ended

(* A task that some process or launch of the model has is in hand. *)
LEMMA AttendedInHand ==
    ASSUME Types, Holders, NEW t \in Tasks
    PROVE  Attended(t) <=> InHand(t)
BY DEF Attended, InHand, Holds, Runs, Types, Holders

(* What takes a task from the hands it is in is a race. *)
LEMMA Taken ==
    ASSUME Types, NEW S, TakesFrom(S)
    PROVE  /\ events' \in Nat
           /\ raced' \in BOOLEAN
           /\ raced => raced'
           /\ ~raced' => \A t \in S : ~Attended(t)
<1>1. CASE \E t \in S : Attended(t)
  <2>1. Counts /\ raced' = TRUE
    BY <1>1 DEF TakesFrom
  <2>2. events' \in Nat
    BY <2>1 DEF Counts, Types
  <2> QED BY <2>1, <2>2
<1>2. CASE ~ \E t \in S : Attended(t)
  BY <1>2 DEF TakesFrom, Types
<1> QED BY <1>1, <1>2

-----------------------------------------------------------------------------
(* Types *)

SubSt == {"none", "running", "paused", "closed", "failed"}

LEMMA TableTypes ==
    ASSUME Types
    PROVE  /\ \A S, p : Requeued(S, p) \in [Tasks -> TaskRow]
           /\ OpenTasksCancelled(task) \in [Tasks -> TaskRow]
           /\ \A la : \A f \in [Launches -> SubSt] : Kept(f, la) \in [Launches -> SubSt]
           /\ \A S : Closed(S) \in [Launches -> SubSt]
           /\ RunningSubs \subseteq Launches
<1>1. \A x \in TaskRow : Put(x, "queued") \in TaskRow /\ Put(x, "cancelled") \in TaskRow
  BY PutRow
<1> QED BY <1>1 DEF Types, Requeued, OpenTasksCancelled, Kept, Closed, RunningSubs, SubSt

LEMMA MoveTypes ==
    ASSUME Types, NEW to, MoveItem(to)
    PROVE  /\ item' \in Statuses
           /\ task' \in [Tasks -> TaskRow]
           /\ sub' \in [Launches -> SubSt]
           /\ signal' \subseteq Launches
<1>1. item' \in Statuses
  BY Transitions DEF MoveItem, Types
<1> QED BY <1>1, TableTypes DEF MoveItem, CloseSubs, Types, SubSt

LEMMA LeaseTypes ==
    ASSUME Types, NEW p \in Procs, NEW seen \in Statuses \cup {"none"},
           NEW f \in [Tasks -> TaskRow], LeasesAll(p, seen, f)
    PROVE  task' \in [Tasks -> TaskRow] /\ disp' \in [Procs -> Dispatch]
<1> DEFINE got == IF Over(item) THEN {} ELSE Runnable(f)
           row(x) == [x EXCEPT !.st = "leased", !.owner = p, !.lapsed = FALSE]
<1>1. \A x \in TaskRow : row(x) \in TaskRow
  BY DEF TaskRow, Open, Ended
<1>2. got \subseteq Tasks
  BY DEF Runnable
<1>3. task' = [t \in Tasks |-> IF t \in got THEN row(f[t]) ELSE f[t]]
  BY DEF LeasesAll
<1>4. disp' = [disp EXCEPT ![p] = IF got = {} THEN Idle
                                  ELSE [pc |-> "begin", seen |-> seen, got |-> got]]
  BY DEF LeasesAll
<1>5. Idle \in Dispatch
  BY DEF Idle, Dispatch
<1> HIDE DEF got, row
<1>6. task' \in [Tasks -> TaskRow]
  BY <1>1, <1>3
<1>7. [pc |-> "begin", seen |-> seen, got |-> got] \in Dispatch
  BY <1>2 DEF Dispatch
<1> QED BY <1>4, <1>5, <1>6, <1>7 DEF Types

LEMMA DispatchTypes ==
    ASSUME Types, NEW p \in Procs, Dispatches(p) \/ Refuse(p)
    PROVE  Types'
<1>0. Idle \in Dispatch
  BY DEF Idle, Dispatch
<1>1. CASE Look(p)
  <2>1. CASE NeedsTask
    <3>1. [pc |-> "create", seen |-> item, got |-> {}] \in Dispatch
      BY DEF Types, Dispatch
    <3> QED BY <1>1, <2>1, <3>1 DEF Look, Types
  <2>2. CASE ~NeedsTask
    <3>1. task' \in [Tasks -> TaskRow] /\ disp' \in [Procs -> Dispatch]
      BY <1>1, <2>2, LeaseTypes DEF Look, Types
    <3> QED BY <1>1, <3>1 DEF Look, Types
  <2> QED BY <2>1, <2>2
<1>2. CASE MakeTask(p)
  <2> DEFINE f == [t \in Tasks |-> IF t \in FreeTasks /\ t = Min(FreeTasks)
                                   THEN NewTask("queued", {}) ELSE task[t]]
  <2>1. f \in [Tasks -> TaskRow]
    BY NewRow DEF Types
  <2>2. LeasesAll(p, disp[p].seen, f)
    BY <1>2 DEF MakeTask
  <2>3. disp[p].seen \in Statuses \cup {"none"}
    BY DEF Types, Dispatch
  <2> HIDE DEF f
  <2>4. task' \in [Tasks -> TaskRow] /\ disp' \in [Procs -> Dispatch]
    BY <2>1, <2>2, <2>3, LeaseTypes
  <2> QED BY <1>2, <2>4 DEF MakeTask, Types
<1>3. CASE Refuse(p)
  <2>1. PICK S \in SUBSET disp[p].got :
          /\ task' = Requeued(S, p)
          /\ \/ disp' = [disp EXCEPT ![p] = Idle]
             \/ disp' = [disp EXCEPT ![p].got = @ \ S]
    BY <1>3 DEF Refuse
  <2>2. task' \in [Tasks -> TaskRow]
    BY <2>1, TableTypes
  <2>3. [disp[p] EXCEPT !.got = @ \ S] \in Dispatch
    BY DEF Types, Dispatch
  <2>4. disp' = [disp EXCEPT ![p].got = @ \ S]
            => disp' = [disp EXCEPT ![p] = [disp[p] EXCEPT !.got = @ \ S]]
    BY DEF Types
  <2>6. disp' \in [Procs -> Dispatch]
    BY <1>0, <2>1, <2>3, <2>4 DEF Types
  <2> QED BY <1>3, <2>2, <2>6 DEF Refuse, Counts, Types
<1>4. CASE Begin(p)
  <2>1. disp' \in [Procs -> Dispatch] /\ item' \in Statuses
    BY <1>0, <1>4 DEF Begin, Types, Statuses, WORK_ITEM_TRANSITIONS
  <2>2. task' \in [Tasks -> TaskRow]
    BY <1>4, TableTypes DEF Begin, Types
  <2>3. [NoLaunch EXCEPT !.pc = "new"] \in Launch
    BY DEF NoLaunch, Launch
  <2>4. launch' \in [Launches -> Launch]
    BY <1>4, <2>3 DEF Begin, Start, Types
  <2> QED BY <1>4, <2>1, <2>2, <2>4 DEF Begin, Types
<1> QED BY <1>1, <1>2, <1>3, <1>4 DEF Dispatches

LEMMA GoesTypes ==
    ASSUME Types, NEW l \in Launches,
           NEW pc \in {"new", "create", "start", "turn", "catch", "finally"}, Goes(l, pc)
    PROVE  launch' \in [Launches -> Launch]
BY DEF Goes, Types, Launch

LEMMA LaunchTypes ==
    ASSUME Types, NEW l \in Launches, Launched(l)
    PROVE  Types'
<1>0. /\ l[1] \in Procs /\ l[2] \in Tasks
      /\ task[l[2]] \in TaskRow
      /\ \A pc \in {"new", "create", "start", "turn", "catch", "finally"} :
             Goes(l, pc) => launch' \in [Launches -> Launch]
  BY GoesTypes DEF Launches, Types
<1>a. \A st \in {"completed", "failed", "paused"} :
          Records(l, st) => task' \in [Tasks -> TaskRow]
  <2> SUFFICES ASSUME NEW st \in {"completed", "failed", "paused"}, Records(l, st)
               PROVE  task' \in [Tasks -> TaskRow]
    OBVIOUS
  <2>1. Put(task[l[2]], st) \in TaskRow
    BY <1>0, PutRow
  <2>2. task' = [task EXCEPT ![l[2]] = Put(task[l[2]], st)]
    BY DEF Records
  <2> QED BY <2>1, <2>2 DEF Types
<1>1. CASE Check(l)
  <2>1. launch' \in [Launches -> Launch] /\ sub' \in [Launches -> SubSt]
    <3>1. ASSUME NEW s \in PausedSubs(l[2]), sub' = [sub EXCEPT ![s] = "running"],
                 launch' = [launch EXCEPT ![l].by = s[1], ![l].pc = "start"]
          PROVE  launch' \in [Launches -> Launch] /\ sub' \in [Launches -> SubSt]
      <4>1. s[1] \in Procs
        BY DEF PausedSubs, Launches
      <4>2. launch' \in [Launches -> Launch]
        BY <3>1, <4>1 DEF Types, Launch
      <4>3. sub' \in [Launches -> SubSt]
        BY <3>1 DEF Types, SubSt
      <4> QED BY <4>2, <4>3
    <3>2. CASE item \notin {"ready", "doing"} \/ Task(l).st \in Ended
      BY <1>1, <1>0, <3>2 DEF Check, Types, SubSt
    <3>3. CASE ~(item \notin {"ready", "doing"} \/ Task(l).st \in Ended) /\ PausedSubs(l[2]) = {}
      BY <1>1, <1>0, <3>3 DEF Check, Types, SubSt
    <3>4. CASE \E s \in PausedSubs(l[2]) :
                 /\ sub' = [sub EXCEPT ![s] = "running"]
                 /\ launch' = [launch EXCEPT ![l].by = s[1], ![l].pc = "start"]
      BY <3>1, <3>4
    <3> QED BY <1>1, <3>2, <3>3, <3>4 DEF Check
  <2> QED BY <1>1, <2>1 DEF Check, Types, SubSt
<1>2. CASE Create(l)
  <2>1. launch' \in [Launches -> Launch]
    BY <1>0, <1>2 DEF Create, Types, Launch
  <2> QED BY <1>2, <2>1 DEF Create, Types
<1>3. CASE StartTask(l)
  <2>0. 0 \in 0..1
    OBVIOUS
  <2>1. [Put(task[l[2]], "running") EXCEPT !.retry = 0] \in TaskRow
    BY <1>0, <2>0, PutRow
  <2>2. launch' \in [Launches -> Launch] /\ task' \in [Tasks -> TaskRow]
    BY <1>0, <1>3, <2>1 DEF StartTask, Types
  <2> QED BY <1>3, <2>2 DEF StartTask, Types
<1>4. CASE Complete(l)
  <2>1. launch' \in [Launches -> Launch] /\ task' \in [Tasks -> TaskRow]
    BY <1>0, <1>a, <1>4 DEF Complete, Types
  <2>2. sub' \in [Launches -> SubSt]
    BY <1>4 DEF Complete, Settles, Types, SubSt
  <2> QED BY <1>4, <2>1, <2>2 DEF Complete, Types, SubSt
<1>5. CASE Fail(l)
  <2>1. launch' \in [Launches -> Launch] /\ task' \in [Tasks -> TaskRow]
    BY <1>0, <1>a, <1>5 DEF Fail, Types
  <2>2. sub' \in [Launches -> SubSt]
    BY <1>5 DEF Fail, Settles, Types, SubSt
  <2>3. item' \in Statuses
    BY <1>5 DEF Fail, Moved, Types, Statuses, WORK_ITEM_TRANSITIONS
  <2> QED BY <1>5, <2>1, <2>2, <2>3 DEF Fail, Types, SubSt
<1>6. CASE Interrupt(l)
  <2>1. launch' \in [Launches -> Launch] /\ task' \in [Tasks -> TaskRow]
    BY <1>0, <1>a, <1>6 DEF Interrupt, Types
  <2>2. sub' \in [Launches -> SubSt] /\ signal' \subseteq Launches
    BY <1>6 DEF Interrupt, Types, SubSt
  <2>3. item' \in Statuses
    BY <1>6 DEF Interrupt, Types, Statuses, WORK_ITEM_TRANSITIONS
  <2> QED BY <1>6, <2>1, <2>2, <2>3 DEF Interrupt, Types, SubSt
<1>7. CASE Finally(l)
  <2>1. NoLaunch \in Launch
    BY DEF NoLaunch, Launch
  <2>2. launch' \in [Launches -> Launch]
    BY <1>7, <2>1 DEF Finally, Types
  <2>3. sub' \in [Launches -> SubSt]
    BY <1>7, TableTypes DEF Finally, Types, SubSt
  <2>4. item' \in Statuses
    BY <1>7 DEF Finally, StatusAfterLaunch, Moved, Types, Statuses, WORK_ITEM_TRANSITIONS
  <2>5. signal' \subseteq Launches
    BY <1>7 DEF Finally
  <2> QED BY <1>7, <2>2, <2>3, <2>4, <2>5 DEF Finally, Types, SubSt
<1> QED BY <1>1, <1>2, <1>3, <1>4, <1>5, <1>6, <1>7 DEF Launched

LEMMA ReconcileTypes ==
    ASSUME Types, Reconcile
    PROVE  Types'
<1>1. CASE ReconcileEnded
  <2>1. \E to : MoveItem(to)
    BY <1>1 DEF ReconcileEnded
  <2> QED BY <1>1, <2>1, MoveTypes DEF Reconcile, ReconcileEnded, Types, SubSt
<1>2. CASE ReconcileOrphans
  <2>1. CASE Some("failed")
    <3>1. MoveItem("blocked") /\ UNCHANGED <<events, raced>>
      BY <1>2, <2>1 DEF ReconcileOrphans
    <3> QED BY <3>1, MoveTypes DEF Reconcile, Types, SubSt
  <2>2. CASE ~Some("failed")
    <3>1. events' \in Nat /\ raced' \in BOOLEAN
      BY <1>2, <2>2, Taken DEF ReconcileOrphans
    <3>2. item' \in Statuses
      BY <1>2, <2>2 DEF ReconcileOrphans, Statuses, WORK_ITEM_TRANSITIONS
    <3>3. \A x \in TaskRow : /\ Put(x, "queued") \in TaskRow /\ Put(x, "paused") \in TaskRow
                             /\ [Put(x, "queued") EXCEPT !.retry = 1] \in TaskRow
      <4>1. 1 \in 0..1
        OBVIOUS
      <4> QED BY <4>1, PutRow
    <3>4. task' \in [Tasks -> TaskRow]
      <4>1. \A t \in Tasks : task[t] \in TaskRow
        BY DEF Types
      <4>2. CASE task[Candidate].retry >= 1
        BY <1>2, <2>2, <3>3, <4>1, <4>2 DEF ReconcileOrphans
      <4>3. CASE ~(task[Candidate].retry >= 1)
        BY <1>2, <2>2, <3>3, <4>1, <4>3 DEF ReconcileOrphans
      <4> QED BY <4>2, <4>3
    <3>5. UNCHANGED <<live, disp, launch, sub, signal>>
      BY <1>2, <2>2 DEF Reconcile, ReconcileOrphans
    <3> QED BY <3>1, <3>2, <3>4, <3>5 DEF Types
  <2> QED BY <2>1, <2>2
<1> QED BY <1>1, <1>2 DEF Reconcile

LEMMA FreeTaskTypes ==
    ASSUME Types, FreeTasks # {}
    PROVE  /\ Min(FreeTasks) \in Tasks
           /\ task[Min(FreeTasks)].st = "none"
<1>1. FreeTasks \in SUBSET Nat
  BY TasksAreNat DEF FreeTasks
<1>2. Min(FreeTasks) \in FreeTasks
  BY <1>1, MinIsOne
<1> QED BY <1>2 DEF FreeTasks

LEMMA OperatorTypes ==
    ASSUME Types, Pause \/ Resume \/ Cancel \/ \E to \in Statuses : Move(to)
    PROVE  Types'
<1>1. CASE Pause
  <2>1. task' \in [Tasks -> TaskRow]
    BY <1>1, PutRow DEF Pause, Types
  <2>2. item' \in Statuses
    BY <1>1 DEF Pause, Types, Statuses, WORK_ITEM_TRANSITIONS
  <2>3. sub' \in [Launches -> SubSt] /\ signal' \subseteq Launches
    BY <1>1 DEF Pause, Types, SubSt, RunningSubs
  <2> QED BY <1>1, <2>1, <2>2, <2>3 DEF Pause, Counts, Types, SubSt
<1>2. CASE Resume
  <2>1. task' \in [Tasks -> TaskRow]
    <3>1. CASE PausedTasks # {}
      BY <1>2, <3>1, PutRow DEF Resume, Types
    <3>2. CASE PausedTasks = {}
      BY <1>2, <3>2, NewRow, FreeTaskTypes DEF Resume, Types
    <3> QED BY <3>1, <3>2
  <2>2. item' \in Statuses
    BY <1>2 DEF Resume, Types, Statuses, WORK_ITEM_TRANSITIONS
  <2>3. sub' \in [Launches -> SubSt] /\ signal' \subseteq Launches
    BY <1>2, TableTypes DEF Resume, CloseSubs, Types
  <2>4. events' \in Nat /\ raced' \in BOOLEAN
    BY <1>2, Taken DEF Resume
  <2> QED BY <1>2, <2>1, <2>2, <2>3, <2>4 DEF Resume, Types, SubSt
<1>3. CASE Cancel
  <2>1. item' \in Statuses
    BY <1>3 DEF Cancel, Statuses, WORK_ITEM_TRANSITIONS
  <2>2. sub' \in [Launches -> SubSt] /\ signal' \subseteq Launches
    BY <1>3, TableTypes DEF Cancel, CloseSubs, Types
  <2> QED BY <1>3, <2>1, <2>2, TableTypes DEF Cancel, Counts, Types, SubSt
<1>4. ASSUME NEW to \in Statuses, Move(to)
      PROVE  Types'
  <2>1. MoveItem(to)
    BY <1>4 DEF Move
  <2> QED BY <1>4, <2>1, MoveTypes DEF Move, Counts, Types, SubSt
<1> QED BY <1>1, <1>2, <1>3, <1>4

LEMMA FaultTypes ==
    ASSUME Types, (\E t \in Tasks : LeaseLapses(t)) \/ (\E p \in Procs : Crash(p))
    PROVE  Types'
<1>1. ASSUME NEW t \in Tasks, LeaseLapses(t)
      PROVE  Types'
  <2>0. task[t] \in TaskRow
    BY DEF Types
  <2>1. [task[t] EXCEPT !.lapsed = TRUE] \in TaskRow
    BY <2>0 DEF TaskRow
  <2>2. task' = [task EXCEPT ![t] = [task[t] EXCEPT !.lapsed = TRUE]]
    BY <1>1 DEF LeaseLapses, Types
  <2>3. task' \in [Tasks -> TaskRow]
    BY <2>1, <2>2 DEF Types
  <2>4. events' \in Nat /\ raced' \in BOOLEAN
    BY <1>1, Taken DEF LeaseLapses
  <2> QED BY <1>1, <2>3, <2>4 DEF LeaseLapses, Types
<1>2. ASSUME NEW p \in Procs, Crash(p)
      PROVE  Types'
  <2>1. Idle \in Dispatch /\ NoLaunch \in Launch
    BY DEF Idle, Dispatch, NoLaunch, Launch
  <2>2. launch' \in [Launches -> Launch]
    BY <1>2, <2>1 DEF Crash, Types
  <2>3. sub' \in [Launches -> SubSt]
    BY <1>2, TableTypes DEF Crash, Types, SubSt
  <2>4. disp' \in [Procs -> Dispatch]
    BY <1>2, <2>1 DEF Crash, Types
  <2> QED BY <1>2, <2>2, <2>3, <2>4 DEF Crash, Counts, Types, SubSt
<1> QED BY <1>1, <1>2

LEMMA InitTypes == Init => Types /\ Holders
<1> SUFFICES ASSUME Init PROVE Types /\ Holders
  OBVIOUS
<1>1. task \in [Tasks -> TaskRow]
  <2> DEFINE none == [t \in Tasks |-> NewTask("none", {})]
             plan(n, chain) == [t \in Tasks |->
                IF t <= n THEN NewTask("queued", {u \in 1..(t-1) : chain})
                ELSE NewTask("none", {})]
  <2>1. none \in [Tasks -> TaskRow]
    BY NewRow
  <2>2. ASSUME NEW n \in Tasks, NEW chain \in BOOLEAN
        PROVE  plan(n, chain) \in [Tasks -> TaskRow]
    <3>1. ASSUME NEW t \in Tasks
          PROVE  {u \in 1..(t-1) : chain} \in SUBSET Tasks
      BY WorkAssumption DEF Tasks
    <3> QED BY <3>1, NewRow
  <2>3. Plans = {none} \cup {plan(n, chain) : n \in Tasks, chain \in BOOLEAN}
    BY DEF Plans
  <2>4. task \in Plans
    BY DEF Init
  <2> HIDE DEF none, plan
  <2> QED BY <2>1, <2>2, <2>3, <2>4
<1>2. Idle \in Dispatch /\ NoLaunch \in Launch /\ Idle.got = {}
  BY DEF Idle, Dispatch, NoLaunch, Launch
<1>3. events \in Nat
  <2> DEFINE S == {t \in Tasks : task[t].st # "none"}
  <2>1. /\ IsFiniteSet(Tasks)
        /\ Cardinality(Tasks) = NTasks
    BY WorkAssumption, FS_Interval DEF Tasks
  <2>2. IsFiniteSet(S) /\ Cardinality(S) <= NTasks
    BY <2>1, FS_Subset
  <2>3. Cardinality(S) \in Nat
    BY <2>2, FS_CardinalityType
  <2>4. Cardinality(S) \in 0..NTasks
    BY <2>2, <2>3, WorkAssumption
  <2>5. events = MaxEvents[Cardinality(S)]
    BY DEF Init
  <2> HIDE DEF S
  <2> QED BY <2>4, <2>5, WorkAssumption
<1>4. item \in Statuses
  BY DEF Init, Statuses, WORK_ITEM_TRANSITIONS
<1>5. disp \in [Procs -> Dispatch] /\ launch \in [Launches -> Launch]
  BY <1>2 DEF Init
<1>6. Holders
  BY <1>2 DEF Init, Holders
<1> QED BY <1>1, <1>3, <1>4, <1>5, <1>6 DEF Init, Types

LEMMA TypesKept ==
    ASSUME Types, [Next]_vars
    PROVE  Types'
<1>1. CASE UNCHANGED vars
  BY <1>1 DEF vars, Types
<1>2. CASE Next
  BY <1>2, DispatchTypes, LaunchTypes, ReconcileTypes, OperatorTypes, FaultTypes
     DEF Next, Statuses
<1> QED BY <1>1, <1>2

-----------------------------------------------------------------------------
(* Hands *)

(* An item that is over is so for good. *)
LEMMA OverKept ==
    ASSUME Types, [Next]_vars, Over(item)
    PROVE  item' = item
<1>0. /\ WORK_ITEM_TRANSITIONS[item] = {}
      /\ item \notin {"ready", "doing", "blocked"}
      /\ \A to : Moved(item, to) = item
  BY Transitions DEF Types, Moved, Over
<1>1. ASSUME NEW p \in Procs, Dispatches(p) \/ Refuse(p) \/ Crash(p)
      PROVE  item' = item
  BY <1>0, <1>1 DEF Dispatches, Look, MakeTask, Begin, Refuse, Crash
<1>2. ASSUME NEW l \in Launches, Launched(l)
      PROVE  item' = item
  BY <1>0, <1>2 DEF Launched, Check, Create, StartTask, Complete, Fail, Interrupt, Finally, Over
<1>3. CASE Reconcile \/ Pause \/ Resume \/ Cancel
  BY <1>0, <1>3 DEF Reconcile, Pause, Resume, Cancel
<1>4. CASE (\E to \in Statuses : Move(to)) \/ \E t \in Tasks : LeaseLapses(t)
  BY <1>0, <1>4 DEF Move, MoveItem, LeaseLapses
<1>5. CASE UNCHANGED vars
  BY <1>5 DEF vars
<1> QED BY <1>1, <1>2, <1>3, <1>4, <1>5 DEF Next, Statuses

Shrinks == \A t \in Tasks : Holds(t)' \subseteq Holds(t) /\ Runs(t)' \subseteq Runs(t)

(* What a step that gives nobody a task may do to task t. *)
Change(t) ==
    \/ task'[t] = task[t]
    \/ InHand(t) /\ ~InHand(t)'
    \/ ~InHand(t) /\ (task[t].st \in Ended => task'[t].st \in Ended)
    \/ InHand(t) /\ task'[t].deps = task[t].deps /\ Untouched(t)'

Hands == OnePair /\ KeptInHand /\ DepsSettled

LEMMA ShrinkKeeps ==
    ASSUME Types, Hands, Shrinks, \A t \in Tasks : Change(t), Over(item) => Over(item)'
    PROVE  Hands'
<1>1. \A t \in Tasks : InHand(t)' => InHand(t)
  BY DEF Shrinks, InHand
<1>2. OnePair'
  BY DEF Hands, OnePair, Shrinks
<1>3. ASSUME NEW t \in Tasks, InHand(t)'
      PROVE  Untouched(t)' /\ task'[t].deps = task[t].deps
  <2>1. InHand(t) /\ Untouched(t)
    BY <1>1, <1>3 DEF Hands, KeptInHand
  <2>2. CASE task'[t] = task[t]
    BY <2>1, <2>2 DEF Untouched
  <2> QED BY <1>3, <2>1, <2>2 DEF Change
<1>4. KeptInHand'
  BY <1>3 DEF KeptInHand
<1>5. ASSUME NEW t \in Tasks, InHand(t)', NEW d \in task'[t].deps
      PROVE  task'[d].st \in Ended /\ ~InHand(d)'
  <2>1. d \in task[t].deps /\ d \in Tasks
    BY <1>3, <1>5 DEF Types, TaskRow
  <2>2. task[d].st \in Ended /\ ~InHand(d)
    BY <1>1, <1>5, <2>1 DEF Hands, DepsSettled
  <2> QED BY <1>1, <2>1, <2>2 DEF Change
<1>6. DepsSettled'
  BY <1>5 DEF DepsSettled
<1> QED BY <1>2, <1>4, <1>6 DEF Hands

(* Steps that leave the dispatchers and the launches alone. *)
LEMMA SameHands ==
    ASSUME disp' = disp, launch' = launch
    PROVE  Shrinks /\ \A t \in Tasks : InHand(t)' <=> InHand(t)
BY DEF Shrinks, InHand, Holds, Runs, Executes, At

(* A launch that was running its task goes on, or ends. *)
LEMMA LaunchHands ==
    ASSUME Types, NEW l \in Launches, disp' = disp, Executes(l, l[2]),
           \A k \in Launches \ {l} : launch'[k] = launch[k]
    PROVE  Shrinks
BY DEF Shrinks, Holds, Runs, Executes, At

LEMMA GoesTo ==
    ASSUME Types, NEW l \in Launches, NEW pc, Goes(l, pc)
    PROVE  /\ \A k \in Launches \ {l} : launch'[k] = launch[k]
           /\ launch'[l].pc = pc
BY DEF Goes, Types, Launch

(* A task whose only holder lets go of it is in no hands. *)
LEMMA LetGo ==
    ASSUME Types, Hands, NEW l \in Launches, disp' = disp, Executes(l, l[2]), Goes(l, "finally")
    PROVE  InHand(l[2]) /\ ~InHand(l[2])'
<1>1. l[2] \in Tasks
  BY DEF Launches
<1>2. l \in Runs(l[2])
  BY DEF Runs
<1>3. Runs(l[2]) = {l} /\ Holds(l[2]) = {}
  BY <1>1, <1>2 DEF Hands, OnePair
<1>4. Shrinks
  BY LaunchHands, GoesTo
<1>5. l \notin Runs(l[2])'
  BY GoesTo DEF Runs, Executes, At
<1> QED BY <1>1, <1>2, <1>3, <1>4, <1>5 DEF Shrinks, InHand

LEMMA LaunchedKeeps ==
    ASSUME Types, Hands, NEW l \in Launches, Launched(l), Over(item) => Over(item)'
    PROVE  Hands'
<1>0. disp' = disp /\ l[2] \in Tasks
  BY DEF Launched, Check, Create, StartTask, Complete, Fail, Interrupt, Finally, Launches
<1>1. CASE Check(l) \/ Create(l)
  <2>1. Executes(l, l[2]) /\ task' = task
    BY <1>1 DEF Check, Create, Executes, At
  <2>2. \A k \in Launches \ {l} : launch'[k] = launch[k]
    BY <1>1, GoesTo DEF Check, Create, Types
  <2> QED BY <1>0, <2>1, <2>2, LaunchHands, ShrinkKeeps DEF Change
<1>2. CASE StartTask(l)
  <2>1. Executes(l, l[2])
    BY <1>2 DEF StartTask, Executes, At
  <2>2. Shrinks
    BY <1>0, <1>2, <2>1, GoesTo, LaunchHands DEF StartTask
  <2>3. CASE MayRecord(l)
    <3>1. task' = [task EXCEPT ![l[2]] = [Put(task[l[2]], "running") EXCEPT !.retry = 0]]
      BY <1>2, <2>3 DEF StartTask
    <3>2. 0 \in 0..1 /\ task[l[2]] \in TaskRow
      BY <1>0 DEF Types
    <3>3. /\ task'[l[2]].st = "running" /\ ~task'[l[2]].lapsed
          /\ task'[l[2]].deps = task[l[2]].deps
      <4> DEFINE r == [Put(task[l[2]], "running") EXCEPT !.retry = 0]
      <4>1. task'[l[2]] = r
        BY <1>0, <3>1 DEF Types
      <4>2. r.st = "running" /\ ~r.lapsed /\ r.deps = task[l[2]].deps
        BY <3>2 DEF Put, TaskRow
      <4> HIDE DEF r
      <4> QED BY <4>1, <4>2
    <3>4. InHand(l[2])
      BY <2>1 DEF InHand, Runs
    <3>5. \A t \in Tasks : Change(t)
      BY <1>0, <3>1, <3>3, <3>4 DEF Change, Types, Untouched, Ended
    <3> QED BY <2>2, <3>5, ShrinkKeeps
  <2>4. CASE ~MayRecord(l)
    BY <1>2, <2>2, <2>4, ShrinkKeeps DEF StartTask, Change
  <2> QED BY <2>3, <2>4
<1>3. CASE (Complete(l) /\ MayRecord(l)) \/ Fail(l) \/ Interrupt(l)
  <2>1. Executes(l, l[2]) /\ Goes(l, "finally")
    BY <1>3 DEF Complete, Fail, Interrupt, Executes, At
  <2>2. Shrinks
    BY <1>0, <2>1, GoesTo, LaunchHands
  <2>3. \A t \in Tasks \ {l[2]} : task'[t] = task[t]
    BY <1>3 DEF Complete, Fail, Interrupt, Records, Types
  <2>4. InHand(l[2]) /\ ~InHand(l[2])'
    BY <1>0, <2>1, LetGo
  <2> QED BY <2>2, <2>3, <2>4, ShrinkKeeps DEF Change
<1>4. CASE Finally(l)
  <2>1. task' = task /\ launch' = [launch EXCEPT ![l] = NoLaunch]
    BY <1>4 DEF Finally
  <2>2. Shrinks
    BY <1>0, <2>1 DEF Shrinks, Holds, Runs, Executes, At, Types, NoLaunch
  <2> QED BY <2>1, <2>2, ShrinkKeeps DEF Change
<1>5. CASE Complete(l) /\ ~MayRecord(l)
  <2>1. Executes(l, l[2]) /\ Goes(l, "catch") /\ task' = task
    BY <1>5 DEF Complete, Executes, At
  <2>2. Shrinks
    BY <1>0, <2>1, GoesTo, LaunchHands
  <2> QED BY <2>1, <2>2, ShrinkKeeps DEF Change
<1> QED BY <1>1, <1>2, <1>3, <1>4, <1>5 DEF Launched

(* Ending an item cancels its open tasks, in hand or not. *)
LEMMA CancelChange ==
    ASSUME Types, Hands, \A t \in Tasks : InHand(t)' <=> InHand(t),
           task' = OpenTasksCancelled(task), Over(item)', NEW t \in Tasks
    PROVE  Change(t)
<1>1. CASE task[t].st \in Open
  <2>1. task'[t] = Put(task[t], "cancelled") /\ task[t] \in TaskRow
    BY <1>1 DEF OpenTasksCancelled, Types
  <2>2. task'[t].st = "cancelled" /\ ~task'[t].lapsed /\ task'[t].deps = task[t].deps
    <3> DEFINE r == Put(task[t], "cancelled")
    <3>1. r.st = "cancelled" /\ ~r.lapsed /\ r.deps = task[t].deps
      BY <2>1, PutRow
    <3> HIDE DEF r
    <3> QED BY <2>1, <3>1 DEF r
  <2> QED BY <2>2 DEF Change, Untouched, Ended
<1>2. CASE task[t].st \notin Open
  BY <1>2 DEF OpenTasksCancelled, Change
<1> QED BY <1>1, <1>2

LEMMA MoveKeeps ==
    ASSUME Types, Hands, NEW to, MoveItem(to), UNCHANGED <<disp, launch>>,
           Over(item) => Over(item)'
    PROVE  Hands'
<1>1. Shrinks /\ \A t \in Tasks : InHand(t)' <=> InHand(t)
  BY SameHands
<1>2. CASE Over(to)
  <2>1. task' = OpenTasksCancelled(task) /\ item' = to
    BY <1>2 DEF MoveItem
  <2> QED BY <1>1, <1>2, <2>1, CancelChange, ShrinkKeeps
<1>3. CASE ~Over(to)
  <2>1. task' = task
    BY <1>3 DEF MoveItem
  <2> QED BY <1>1, <2>1, ShrinkKeeps DEF Change
<1> QED BY <1>2, <1>3

LEMMA ReconcileKeeps ==
    ASSUME Types, Holders, Hands, Reconcile, ~raced', Over(item) => Over(item)'
    PROVE  Hands'
<1>1. Shrinks /\ \A t \in Tasks : InHand(t)' <=> InHand(t)
  BY SameHands DEF Reconcile
<1>2. CASE \E to : MoveItem(to)
  BY <1>2, MoveKeeps DEF Reconcile
<1>3. CASE ~ \E to : MoveItem(to)
  <2>1. ReconcileOrphans /\ ~Some("failed")
    BY <1>3 DEF Reconcile, ReconcileEnded, ReconcileOrphans
  <2>2. \A t \in Orphans : ~InHand(t)
    BY <2>1, Taken, AttendedInHand DEF ReconcileOrphans, Orphans
  <2>3. Candidate \in Orphans
    BY <2>1, TasksAreNat, MinIsOne DEF ReconcileOrphans, Orphans, Candidate
  <2>4. \A t \in Tasks \ Orphans : task'[t] = task[t]
    BY <2>1, <2>3 DEF ReconcileOrphans
  <2>5. \A t \in Tasks : Change(t)
    BY <2>2, <2>4 DEF Change, Orphans, Ended
  <2> QED BY <1>1, <2>5, ShrinkKeeps
<1> QED BY <1>2, <1>3

LEMMA OperatorKeeps ==
    ASSUME Types, Holders, Hands, Pause \/ Resume \/ Cancel \/ \E to \in Statuses : Move(to),
           ~raced', Over(item) => Over(item)'
    PROVE  Hands'
<1>0. UNCHANGED <<disp, launch>>
  BY DEF Pause, Resume, Cancel, Move
<1>1. Shrinks /\ \A t \in Tasks : InHand(t)' <=> InHand(t)
  BY <1>0, SameHands
<1>2. CASE Pause
  <2>1. ASSUME NEW t \in Active
        PROVE  task'[t].st = "paused" /\ ~task'[t].lapsed /\ task'[t].deps = task[t].deps
    <3> DEFINE r == Put(task[t], "paused")
    <3>1. task[t] \in TaskRow
      BY DEF Active, Types
    <3>2. r.st = "paused" /\ ~r.lapsed /\ r.deps = task[t].deps
      BY <3>1, PutRow
    <3>3. task'[t] = r
      BY <1>2 DEF Pause, Active
    <3> HIDE DEF r
    <3> QED BY <3>2, <3>3
  <2>2. \A t \in Tasks \ Active : task'[t] = task[t]
    BY <1>2 DEF Pause
  <2>3. \A t \in Tasks : Change(t)
    BY <2>1, <2>2 DEF Change, Untouched, Active, Ended
  <2> QED BY <1>1, <2>3, ShrinkKeeps
<1>3. CASE Resume
  <2>1. \A t \in PausedTasks : ~InHand(t)
    BY <1>3, Taken, AttendedInHand DEF Resume, PausedTasks
  <2>2. \A t \in FreeTasks : ~InHand(t)
    BY DEF Hands, KeptInHand, Untouched, FreeTasks
  <2>3. \A t \in Tasks \ (PausedTasks \cup FreeTasks) : task'[t] = task[t]
    <3>1. CASE PausedTasks # {}
      BY <1>3, <3>1 DEF Resume
    <3>2. CASE PausedTasks = {}
      <4>1. Min(FreeTasks) \in FreeTasks
        BY <1>3, <3>2, FreeTaskTypes DEF Resume, FreeTasks
      <4> QED BY <1>3, <3>2, <4>1 DEF Resume, Types
    <3> QED BY <3>1, <3>2
  <2>4. \A t \in Tasks : Change(t)
    BY <2>1, <2>2, <2>3 DEF Change, PausedTasks, FreeTasks, Ended
  <2> QED BY <1>1, <2>4, ShrinkKeeps
<1>4. CASE Cancel
  <2>1. task' = OpenTasksCancelled(task) /\ Over(item)'
    BY <1>4 DEF Cancel, Over
  <2> QED BY <1>1, <2>1, CancelChange, ShrinkKeeps
<1>5. CASE \E to \in Statuses : Move(to)
  BY <1>0, <1>5, MoveKeeps DEF Move
<1> QED BY <1>2, <1>3, <1>4, <1>5

LEMMA FaultKeeps ==
    ASSUME Types, Holders, Hands, (\E t \in Tasks : LeaseLapses(t)) \/ (\E p \in Procs : Crash(p)),
           ~raced', Over(item) => Over(item)'
    PROVE  Hands'
<1>1. ASSUME NEW t \in Tasks, LeaseLapses(t)
      PROVE  Hands'
  <2>1. Shrinks /\ \A u \in Tasks : InHand(u)' <=> InHand(u)
    BY <1>1, SameHands DEF LeaseLapses
  <2>2. ~InHand(t)
    BY <1>1, Taken, AttendedInHand DEF LeaseLapses
  <2>3. \A u \in Tasks \ {t} : task'[u] = task[u]
    BY <1>1 DEF LeaseLapses, Types
  <2>4. task[t].st \notin Ended
    BY <1>1 DEF LeaseLapses, Ended
  <2> QED BY <2>1, <2>2, <2>3, <2>4, ShrinkKeeps DEF Change
<1>2. ASSUME NEW p \in Procs, Crash(p)
      PROVE  Hands'
  <2>1. \A t \in Tasks : Holds(t)' \subseteq Holds(t)
    BY <1>2 DEF Crash, Holds, Idle, Types
  <2>2. launch' = [l \in Launches |-> IF l[1] = p THEN NoLaunch ELSE launch[l]]
    BY <1>2 DEF Crash
  <2>3. \A t \in Tasks : Runs(t)' \subseteq Runs(t)
    BY <2>2 DEF Runs, Executes, At, NoLaunch
  <2>4. task' = task
    BY <1>2 DEF Crash
  <2> QED BY <2>1, <2>3, <2>4, ShrinkKeeps DEF Shrinks, Change
<1> QED BY <1>1, <1>2

(* The tasks a dispatcher leases were in no hands, and those they depend   *)
(* on have ended and are in none.                                          *)
LEMMA LeaseKeeps ==
    ASSUME Types, Hands, NEW p \in Procs, disp[p].got = {}, NEW seen, NEW f \in [Tasks -> TaskRow],
           \A t \in Tasks : f[t] = task[t]
                            \/ (task[t].st = "none" /\ f[t].st = "queued" /\ f[t].deps = {}),
           LeasesAll(p, seen, f), UNCHANGED <<item, launch>>
    PROVE  Hands'
<1> DEFINE got == IF Over(item) THEN {} ELSE Runnable(f)
<1>0. disp'[p].got = got /\ \A q \in Procs \ {p} : disp'[q] = disp[q]
  BY DEF LeasesAll, Types, Idle
<1>1. /\ \A t \in Tasks \ got : task'[t] = f[t]
      /\ \A t \in got : /\ task'[t].st = "leased" /\ ~task'[t].lapsed
                        /\ task'[t].deps = f[t].deps
  <2>1. task' = [t \in Tasks |-> IF t \in got
                     THEN [f[t] EXCEPT !.st = "leased", !.owner = p, !.lapsed = FALSE] ELSE f[t]]
    BY DEF LeasesAll
  <2>2. got \subseteq Tasks
    BY DEF Runnable
  <2>3. ASSUME NEW x \in TaskRow
        PROVE  LET r == [x EXCEPT !.st = "leased", !.owner = p, !.lapsed = FALSE]
               IN  r.st = "leased" /\ ~r.lapsed /\ r.deps = x.deps
    BY DEF TaskRow
  <2> HIDE DEF got
  <2>4. ASSUME NEW t \in got
        PROVE  /\ task'[t].st = "leased" /\ ~task'[t].lapsed
               /\ task'[t].deps = f[t].deps
    <3> DEFINE r == [f[t] EXCEPT !.st = "leased", !.owner = p, !.lapsed = FALSE]
    <3>1. r.st = "leased" /\ ~r.lapsed /\ r.deps = f[t].deps
      BY <2>2, <2>3
    <3>2. task'[t] = r
      BY <2>1, <2>2
    <3> HIDE DEF r
    <3> QED BY <3>1, <3>2
  <2> QED BY <2>1, <2>4
<1>2. \A t \in got : ~InHand(t) /\ t \in Tasks
  BY DEF Runnable, MayLease, Hands, KeptInHand, Untouched
<1>3. \A t \in Tasks : Runs(t)' = Runs(t)
  BY DEF Runs, Executes, At
<1>4. /\ \A t \in Tasks \ got : Holds(t)' = Holds(t)
      /\ \A t \in got : Holds(t)' = {p}
  <2> HIDE DEF got
  <2> QED BY <1>0, <1>2 DEF Holds, InHand
<1>5. \A t \in Tasks : f[t].st \in Ended => t \notin got /\ f[t] = task[t]
  BY DEF Runnable, MayLease, Ended
<1>6. \A t \in got : ~Over(item) /\ DepsEnded(f, t)
  BY DEF Runnable
<1> HIDE DEF got
<1>7. \A t \in Tasks \ got : InHand(t)' => InHand(t) /\ f[t] = task[t]
  BY <1>3, <1>4 DEF InHand, Hands, KeptInHand, Untouched
<1>8. OnePair'
  <2>1. ASSUME NEW t \in got
        PROVE  Holds(t)' = {p} /\ Runs(t)' = {}
    BY <1>2, <1>3, <1>4, <2>1 DEF InHand
  <2>2. ASSUME NEW t \in Tasks \ got
        PROVE  Holds(t)' = Holds(t) /\ Runs(t)' = Runs(t)
    BY <1>3, <1>4
  <2> QED BY <2>1, <2>2 DEF Hands, OnePair
<1>9. KeptInHand'
  <2>1. ASSUME NEW t \in got
        PROVE  Untouched(t)'
    BY <1>1, <2>1 DEF Untouched, Ended
  <2>2. ASSUME NEW t \in Tasks \ got, InHand(t)'
        PROVE  Untouched(t)'
    <3>1. Untouched(t) /\ task'[t] = task[t]
      BY <1>1, <1>7, <2>2 DEF Hands, KeptInHand
    <3> QED BY <3>1 DEF Untouched
  <2> QED BY <2>1, <2>2 DEF KeptInHand
<1>10. ASSUME NEW t \in Tasks, InHand(t)', NEW d \in task'[t].deps
       PROVE  task'[d].st \in Ended /\ ~InHand(d)'
  <2>1. d \in Tasks /\ d \in f[t].deps
    BY <1>1, <1>10 DEF TaskRow
  <2>2. CASE t \in got
    <3>1. f[d].st \in Ended /\ ~Over(item)
      BY <1>6, <2>1, <2>2 DEF DepsEnded
    <3>2. d \notin got /\ f[d] = task[d]
      BY <1>5, <2>1, <3>1
    <3>3. ~InHand(d)
      BY <2>1, <3>1, <3>2 DEF Hands, KeptInHand, Untouched
    <3> QED BY <1>1, <1>7, <2>1, <3>1, <3>2, <3>3
  <2>3. CASE t \notin got
    <3>1. InHand(t) /\ f[t] = task[t]
      BY <1>7, <1>10, <2>3
    <3>2. task[d].st \in Ended /\ ~InHand(d)
      BY <2>1, <3>1 DEF Hands, DepsSettled
    <3>3. f[d] = task[d]
      BY <2>1, <3>2 DEF Ended
    <3>4. d \notin got
      BY <1>5, <2>1, <3>2, <3>3
    <3> QED BY <1>1, <1>7, <2>1, <3>2, <3>3, <3>4
  <2> QED BY <2>2, <2>3
<1> QED BY <1>8, <1>9, <1>10 DEF Hands, DepsSettled

LEMMA BeginKeeps ==
    ASSUME Types, Holders, Hands, NEW p \in Procs, Begin(p), Over(item) => Over(item)'
    PROVE  Hands'
<1> DEFINE S == disp[p].got
<1>0. S \subseteq Tasks /\ disp'[p].got = {} /\ \A q \in Procs \ {p} : disp'[q] = disp[q]
  BY DEF Begin, Types, Dispatch, Idle
<1>1. /\ \A t \in S : Holds(t) = {p} /\ Holds(t)' = {} /\ Runs(t) = {}
      /\ \A t \in Tasks \ S : Holds(t)' = Holds(t)
  <2>1. ASSUME NEW t \in S
        PROVE  Holds(t) = {p} /\ Runs(t) = {}
    <3>1. p \in Holds(t) /\ t \in Tasks
      BY <1>0, <2>1 DEF Holds
    <3> QED BY <3>1 DEF Hands, OnePair
  <2>2. ASSUME NEW t \in Tasks
        PROVE  Holds(t)' = Holds(t) \ {p} /\ (t \notin S => p \notin Holds(t))
    BY <1>0 DEF Holds
  <2> QED BY <1>0, <2>1, <2>2
<1>2. CASE launch' = launch
  <2>1. \A t \in Tasks : Runs(t)' = Runs(t)
    BY <1>2 DEF Runs, Executes, At
  <2>2. Shrinks /\ \A t \in S : InHand(t) /\ ~InHand(t)'
    BY <1>0, <1>1, <2>1 DEF Shrinks, InHand
  <2>3. \A t \in Tasks \ S : task'[t] = task[t]
    BY DEF Begin, Requeued, Until, Types
  <2> QED BY <2>2, <2>3, ShrinkKeeps DEF Change
<1>3. CASE Start(p, S) /\ UNCHANGED task
  <2>1. launch' = [l \in Launches |-> IF l[1] = p /\ l[2] \in S THEN [NoLaunch EXCEPT !.pc = "new"]
                                      ELSE launch[l]]
    BY <1>3 DEF Start
  <2>2. /\ \A t \in S : Runs(t)' = {<<p, t>>}
        /\ \A t \in Tasks \ S : Runs(t)' = Runs(t)
    <3>1. ASSUME NEW l \in Launches
          PROVE  l = <<l[1], l[2]>> /\ l[1] \in Procs /\ l[2] \in Tasks
      BY DEF Launches
    <3>2. ASSUME NEW t \in S, NEW l \in Launches, l[2] = t
          PROVE  l \in Runs(t)' <=> l = <<p, t>>
      <4>1. l \notin Runs(t)
        BY <1>1, <3>2
      <4>2. CASE l[1] = p
        BY <2>1, <3>1, <3>2, <4>2 DEF Runs, Executes, At, NoLaunch
      <4>3. CASE l[1] # p
        BY <2>1, <3>1, <3>2, <4>1, <4>3 DEF Runs, Executes, At
      <4> QED BY <4>2, <4>3
    <3>3. \A t \in S : Runs(t)' = {<<p, t>>}
      <4> SUFFICES ASSUME NEW t \in S PROVE Runs(t)' = {<<p, t>>}
        OBVIOUS
      <4>1. <<p, t>> \in Launches /\ <<p, t>>[2] = t
        BY <1>0 DEF Launches
      <4>2. Runs(t)' \subseteq {l \in Launches : l[2] = t}
        BY DEF Runs, Executes
      <4> QED BY <3>2, <4>1, <4>2
    <3>4. \A t \in Tasks \ S : Runs(t)' = Runs(t)
      BY <2>1 DEF Runs, Executes, At
    <3> QED BY <3>3, <3>4
  <2>3. \A t \in Tasks : InHand(t)' <=> InHand(t)
    BY <1>0, <1>1, <2>2 DEF InHand
  <2>4. OnePair'
    <3>1. ASSUME NEW t \in S
          PROVE  Holds(t)' = {} /\ Runs(t)' = {<<p, t>>}
      BY <1>1, <2>2
    <3>2. ASSUME NEW t \in Tasks \ S
          PROVE  Holds(t)' = Holds(t) /\ Runs(t)' = Runs(t)
      BY <1>1, <2>2
    <3> QED BY <3>1, <3>2 DEF Hands, OnePair
  <2>5. KeptInHand'
    BY <1>3, <2>3 DEF Hands, KeptInHand, Untouched
  <2>6. DepsSettled'
    <3> SUFFICES ASSUME NEW t \in Tasks, InHand(t)', NEW d \in task[t].deps
                 PROVE  task[d].st \in Ended /\ ~InHand(d)'
      BY <1>3 DEF DepsSettled
    <3>1. d \in Tasks
      BY DEF Types, TaskRow
    <3> QED BY <2>3, <3>1 DEF Hands, DepsSettled
  <2> QED BY <2>4, <2>5, <2>6 DEF Hands
<1> QED BY <1>2, <1>3 DEF Begin

LEMMA RefuseKeeps ==
    ASSUME Types, Holders, Hands, NEW p \in Procs, Refuse(p)
    PROVE  Hands'
<1>1. PICK S \in SUBSET disp[p].got :
          /\ task' = Requeued(S, p)
          /\ \/ disp' = [disp EXCEPT ![p] = Idle]
             \/ disp' = [disp EXCEPT ![p].got = @ \ S]
  BY DEF Refuse
<1>2. /\ disp'[p].got \subseteq disp[p].got \ S
      /\ \A q \in Procs \ {p} : disp'[q] = disp[q]
  BY <1>1 DEF Types, Dispatch, Idle
<1>3. Shrinks
  BY <1>2 DEF Refuse, Shrinks, Holds, Runs, Executes, At
<1>4. S \subseteq Tasks
  BY DEF Types, Dispatch
<1>5. ASSUME NEW t \in S
      PROVE  InHand(t) /\ ~InHand(t)'
  <2>1. p \in Holds(t) /\ p \notin Holds(t)'
    BY <1>2, <1>5 DEF Holds
  <2>2. Holds(t) = {p} /\ Runs(t) = {}
    BY <1>4, <1>5, <2>1 DEF Hands, OnePair
  <2> QED BY <1>3, <1>4, <1>5, <2>1, <2>2 DEF InHand, Shrinks
<1>6. \A t \in Tasks \ S : task'[t] = task[t]
  BY <1>1 DEF Requeued, Until
<1>7. Over(item)' <=> Over(item)
  BY DEF Refuse, Over
<1> QED BY <1>3, <1>5, <1>6, <1>7, ShrinkKeeps DEF Change

LEMMA DispatchKeeps ==
    ASSUME Types, Holders, Hands, NEW p \in Procs, Dispatches(p) \/ Refuse(p),
           Over(item) => Over(item)'
    PROVE  Hands'
<1>0. disp[p].pc # "begin" => disp[p].got = {}
  BY DEF Holders
<1>1. CASE Look(p)
  <2>1. CASE NeedsTask
    <3>1. disp' = [disp EXCEPT ![p] = [pc |-> "create", seen |-> item, got |-> {}]]
          /\ UNCHANGED <<item, task, launch>>
      BY <1>1, <2>1 DEF Look
    <3>2. Shrinks
      BY <3>1 DEF Shrinks, Holds, Runs, Executes, At, Types
    <3> QED BY <3>1, <3>2, ShrinkKeeps DEF Change
  <2>2. CASE ~NeedsTask
    <3>1. LeasesAll(p, item, task) /\ UNCHANGED <<item, launch>> /\ disp[p].got = {}
      BY <1>0, <1>1, <2>2 DEF Look
    <3>2. \A t \in Tasks : task[t] = task[t]
                           \/ (task[t].st = "none" /\ task[t].st = "queued" /\ task[t].deps = {})
      OBVIOUS
    <3>3. task \in [Tasks -> TaskRow]
      BY DEF Types
    <3> QED BY <3>1, <3>2, <3>3, LeaseKeeps
  <2> QED BY <2>1, <2>2
<1>2. CASE MakeTask(p)
  <2> DEFINE f == [t \in Tasks |-> IF t \in FreeTasks /\ t = Min(FreeTasks)
                                   THEN NewTask("queued", {}) ELSE task[t]]
  <2>1. f \in [Tasks -> TaskRow]
    BY NewRow DEF Types
  <2>2. /\ LeasesAll(p, disp[p].seen, f) /\ UNCHANGED <<item, launch>>
        /\ disp[p].got = {}
    BY <1>0, <1>2 DEF MakeTask
  <2>3. \A t \in Tasks : f[t] = task[t]
                         \/ (task[t].st = "none" /\ f[t].st = "queued" /\ f[t].deps = {})
    BY NewRow DEF FreeTasks
  <2> HIDE DEF f
  <2> QED BY <2>1, <2>2, <2>3, LeaseKeeps
<1> QED BY <1>1, <1>2, BeginKeeps, RefuseKeeps DEF Dispatches

(* A race stays one. *)
LEMMA RacedKept ==
    ASSUME Types, [Next]_vars, raced
    PROVE  raced'
<1>1. CASE UNCHANGED raced
  BY <1>1
<1>2. CASE \E S : TakesFrom(S)
  BY <1>2, Taken
<1> QED BY <1>1, <1>2 DEF Next, vars, Dispatches, Look, MakeTask, Begin, Refuse, Crash, Launched,
     Check, Create, StartTask, Complete, Fail, Interrupt, Finally, Reconcile, ReconcileEnded,
     ReconcileOrphans, Pause, Resume, Cancel, Move, LeaseLapses

LEMMA HoldersKept ==
    ASSUME Types, Holders, [Next]_vars
    PROVE  Holders'
<1>1. CASE UNCHANGED <<disp, live>>
  BY <1>1 DEF Holders
<1>2. ASSUME NEW p \in Procs, Dispatches(p) \/ Refuse(p)
      PROVE  Holders'
  <2>1. live' = live /\ p \in live
    BY <1>2 DEF Dispatches, Look, MakeTask, Begin, Refuse
  <2>2. \A q \in Procs \ {p} : disp'[q] = disp[q]
    BY <1>2 DEF Dispatches, Look, MakeTask, LeasesAll, Begin, Refuse, Types
  <2>3. disp'[p].got # {} => disp'[p].pc = "begin"
    <3>0. Idle.got = {} /\ [pc |-> "create", seen |-> item, got |-> {}].got = {}
      BY DEF Idle
    <3>1. CASE \E seen, f : LeasesAll(p, seen, f)
      <4>1. PICK seen, f : LeasesAll(p, seen, f)
        BY <3>1
      <4> DEFINE got == IF Over(item) THEN {} ELSE Runnable(f)
      <4>2. disp' = [disp EXCEPT ![p] = IF got = {} THEN Idle
                                        ELSE [pc |-> "begin", seen |-> seen, got |-> got]]
        BY <4>1 DEF LeasesAll
      <4> HIDE DEF got
      <4> QED BY <3>0, <4>2 DEF Types
    <3>2. CASE Begin(p)
      BY <3>0, <3>2 DEF Begin, Types
    <3>3. CASE Refuse(p)
      BY <3>0, <3>3 DEF Refuse, Types, Dispatch
    <3>4. CASE Look(p) /\ NeedsTask
      BY <3>0, <3>4 DEF Look, Types
    <3> QED BY <1>2, <3>1, <3>2, <3>3, <3>4 DEF Dispatches, Look, MakeTask
  <2> QED BY <2>1, <2>2, <2>3 DEF Holders
<1>3. ASSUME NEW p \in Procs, Crash(p)
      PROVE  Holders'
  BY <1>3 DEF Crash, Holders, Idle, Types
<1> QED BY <1>1, <1>2, <1>3 DEF Next, vars, Launched, Check, Create, StartTask, Complete, Fail,
     Interrupt, Finally, Reconcile, Pause, Resume, Cancel, Move, LeaseLapses

LEMMA NothingInHand ==
    Init => Hands
<1>1. Idle.got = {} /\ NoLaunch.pc = "idle"
  BY DEF Idle, NoLaunch
<1>2. Init => \A t \in Tasks : Holds(t) = {} /\ Runs(t) = {}
  BY <1>1 DEF Init, Holds, Runs, Executes, At
<1> QED BY <1>2 DEF Hands, OnePair, KeptInHand, DepsSettled, InHand

LEMMA HandsInvHolds == Spec => []HandsInv
<1>1. Init => HandsInv
  BY InitTypes, NothingInHand DEF HandsInv, Hands
<1>2. HandsInv /\ [Next]_vars => HandsInv'
  <2> SUFFICES ASSUME HandsInv, [Next]_vars
               PROVE  HandsInv'
    OBVIOUS
  <2>1. Types' /\ Holders'
    BY TypesKept, HoldersKept DEF HandsInv
  <2>2. ASSUME ~raced'
        PROVE  Hands'
    <3>1. Types /\ Holders /\ Hands /\ (Over(item) => Over(item)')
      BY <2>2, RacedKept, OverKept DEF HandsInv, Hands, Over
    <3>2. CASE UNCHANGED vars
      <4>1. Shrinks
        BY <3>2, SameHands DEF vars
      <4> QED BY <3>1, <3>2, <4>1, ShrinkKeeps DEF vars, Change
    <3>3. CASE Next
      BY <2>2, <3>1, <3>3, DispatchKeeps, LaunchedKeeps, ReconcileKeeps, OperatorKeeps, FaultKeeps
         DEF Next, Statuses
    <3> QED BY <3>2, <3>3
  <2> QED BY <2>1, <2>2 DEF HandsInv, Hands
<1> QED BY <1>1, <1>2, PTL DEF Spec

-----------------------------------------------------------------------------
(* The theorems *)

(* Every variable of WorkItem keeps its type, and a dead process holds no  *)
(* task: a dispatcher's list of leased tasks is empty outside of the tick  *)
(* that leased them (dispatcher.ts:107).                                   *)
THEOREM WorkTypeCorrect == Spec => [](Types /\ Holders)
<1>1. HandsInv => Types /\ Holders
  BY DEF HandsInv
<1> QED BY <1>1, HandsInvHolds, PTL

(* Two launches never run one task at once unless it was put back, or its  *)
(* lease lapsed, while executed (dispatcher.ts:107, leaseRunnableTasks):   *)
(* for any number of processes and tasks.                                  *)
THEOREM OneExecutorAtATime == Spec => []OneExecutor
<1>1. HandsInv => OneExecutor
  <2> SUFFICES ASSUME HandsInv, ~raced, NEW t \in Tasks
               PROVE  Cardinality(InTurn(t)) <= 1
    BY DEF OneExecutor
  <2>1. \A k, l \in InTurn(t) : k = l
    BY DEF HandsInv, OnePair, InTurn, Runs, Executes, At
  <2>2. InTurn(t) = {} \/ \E l : InTurn(t) = {l}
    BY <2>1
  <2>3. CASE InTurn(t) = {}
    BY <2>3, FS_EmptySet
  <2>4. ASSUME NEW l, InTurn(t) = {l}
        PROVE  Cardinality(InTurn(t)) <= 1
    <3>1. Cardinality({l}) = 1
      BY FS_Singleton
    <3> QED BY <2>4, <3>1
  <2> QED BY <2>2, <2>3, <2>4
<1> QED BY <1>1, HandsInvHolds, PTL

(* With the same exception, every task a launch runs comes after those it  *)
(* depends on (task-leasing-dal.ts:83, findRunnableTaskIds).               *)
THEOREM DependenciesComeFirst == Spec => []DependenciesFirst
<1>1. HandsInv => DependenciesFirst
  <2> SUFFICES ASSUME HandsInv, ~raced, NEW l \in Launches, At(l, "turn")
               PROVE  DepsEnded(task, l[2])
    BY DEF DependenciesFirst
  <2>1. l[2] \in Tasks /\ l \in Runs(l[2])
    BY DEF Launches, Runs, Executes, At
  <2> QED BY <2>1 DEF HandsInv, DepsSettled, InHand, DepsEnded
<1> QED BY <1>1, HandsInvHolds, PTL

(* A work item that is done, failed or cancelled keeps that status: no     *)
(* dispatcher, launch, reconciler or operator step moves it again          *)
(* (the table of status-transitions.ts, and each writer's own check).      *)
THEOREM OverIsFinal == Spec => [][Over(item) => item' = item]_vars
<1>1. HandsInv /\ [Next]_vars => [Over(item) => item' = item]_vars
  BY OverKept DEF HandsInv
<1> QED BY <1>1, HandsInvHolds, PTL DEF Spec
=============================================================================
