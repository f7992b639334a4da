------------------------------- MODULE WorkItem -------------------------------
(***************************************************************************)
(* The execution of one work item by the gateway's processes: dispatchers  *)
(* lease its runnable tasks and run each in a subagent, a reconciler       *)
(* repairs what a lost one left behind, and an operator pauses, resumes,   *)
(* moves and cancels it (runtime-workboard/dispatcher.ts, reconciler.ts,   *)
(* workboard-service-operator-actions.ts, gateway/modules/workboard/).     *)
(*                                                                         *)
(* A dispatcher acts in up to three steps (look, create the missing task,  *)
(* lease; start), a launch in five (check, create the subagent, start, end *)
(* of the turn with the rows it writes, last look at the item); the        *)
(* reconciler's visit of the item and an operator's request are one action *)
(* each.  Refinement (planner tasks, the ready gate) is left out.          *)
(***************************************************************************)
EXTENDS Integers, FiniteSets, FiniteSetsExt

CONSTANTS Procs,      \* gateway processes
          NoProc,
          NTasks,     \* execution tasks the item may come to have
          MaxEvents   \* by the number of planned tasks: crashes, refused slots, leases that
                      \* lapse and tasks put back while executed, operator requests

ASSUME WorkAssumption ==
    NoProc \notin Procs /\ NTasks \in Nat /\ MaxEvents \in [0..NTasks -> Nat]

Tasks == 1..NTasks
(* A process runs a task at most once at a time here; launch <<p, t>> may   *)
(* create the subagent <<p, t>>.                                           *)
Launches == Procs \X Tasks

VARIABLES
    live,    \* processes that have not crashed
    item,    \* work_items.status
    task,    \* work_item_tasks; retry is work.dispatch.orphan_retry
    disp,    \* each process's WorkboardDispatcher
    launch,  \* runExecutionTask calls: where each is, and whose subagent it uses
    sub,     \* the status of the subagents the launches created
    signal,  \* subagents with an interrupt in conversation_queue_signals
    events,  \* that may still happen
    raced    \* a task was put back, or its lease lapsed, while being executed

vars == <<live, item, task, disp, launch, sub, signal, events, raced>>

Ended == {"completed", "failed", "cancelled"}
Open == {"queued", "leased", "running", "paused"}
Existing == {t \in Tasks : task[t].st # "none"}
Over(i) == i \in {"done", "failed", "cancelled"}

WORK_ITEM_TRANSITIONS ==
    [s \in {"ready", "doing", "blocked", "done", "failed", "cancelled"} |->
       CASE s = "ready" -> {"doing", "cancelled"}
         [] s = "doing" -> {"ready", "blocked", "done", "failed", "cancelled"}
         [] s = "blocked" -> {"ready", "doing", "cancelled"}
         [] OTHER -> {}]

NewTask(st, deps) ==
    [st |-> st, owner |-> NoProc, lapsed |-> FALSE, deps |-> deps, retry |-> 0]
NoLaunch == [pc |-> "idle", by |-> NoProc]
Idle == [pc |-> "idle", seen |-> "none", got |-> {}]

(* A refined item: no task yet, or planned ones, the second perhaps after  *)
(* the first.                                                              *)
Plans == {[t \in Tasks |-> NewTask("none", {})]} \cup
         {[t \in Tasks |-> IF t <= n THEN NewTask("queued", {u \in 1..(t-1) : chain})
                           ELSE NewTask("none", {})] : n \in Tasks, chain \in BOOLEAN}

Init ==
    /\ live = Procs
    /\ item = "ready"
    /\ task \in Plans
    /\ disp = [p \in Procs |-> Idle]
    /\ launch = [l \in Launches |-> NoLaunch]
    /\ sub = [l \in Launches |-> "none"]
    /\ signal = {}
    /\ events = MaxEvents[Cardinality({t \in Tasks : task[t].st # "none"})]
    /\ raced = FALSE

(* The rare events, and a task taken from those that execute it. *)
Counts == events > 0 /\ events' = events - 1

-----------------------------------------------------------------------------
(* updateTask: a task that leaves "leased" must be its owner's to change.  *)

MaySet(t, p) == task[t].st = "leased" => task[t].owner = p /\ ~task[t].lapsed
Put(x, st) == [x EXCEPT !.st = st, !.owner = NoProc, !.lapsed = FALSE]

(* Of the tasks S updated in order, those before one that throws. *)
Until(S, p) == {t \in S : \A u \in S : u <= t => MaySet(u, p)}

(* A launch or a dispatcher is about to run the task, or runs it. *)
At(l, pc) == launch[l].pc = pc
Executes(l, t) == ~At(l, "idle") /\ ~At(l, "finally") /\ l[2] = t
Attended(t) == \/ \E l \in Launches : Executes(l, t)
               \/ \E p \in live : t \in disp[p].got
TakesFrom(S) == IF \E t \in S : Attended(t) THEN Counts /\ raced' = TRUE
                ELSE UNCHANGED <<events, raced>>

(* transitionItem: to a terminal status it also cancels the open tasks,    *)
(* signals the running subagents and closes the open ones.                 *)
OpenSub == {"running", "paused"}
OpenSubs == {s \in Launches : sub[s] \in OpenSub}
RunningSubs == {s \in Launches : sub[s] = "running"}
OpenTasksCancelled(f) == [t \in Tasks |-> IF f[t].st \in Open THEN Put(f[t], "cancelled") ELSE f[t]]

(* The subagent a launch uses, and the rows of ended subagents that no     *)
(* launch la uses any more, which are forgotten.                           *)
SubOf(l) == <<launch[l].by, l[2]>>
Kept(f, la) == [s \in Launches |->
    IF f[s] \in OpenSub \/ \E l \in Launches : la[l].by = s[1] /\ l[2] = s[2] THEN f[s]
    ELSE "none"]
(* Mutant: only paused subagents are closed. *)
ClosedIfPaused(S) == [s \in Launches |-> IF s \in S /\ sub[s] = "paused" THEN "closed" ELSE sub[s]]
Closed(S) == [s \in Launches |-> IF s \in S THEN "closed" ELSE sub[s]]
CloseSubs(S) == sub' = Kept(Closed(S), launch)

MoveItem(to) ==
    /\ to \in WORK_ITEM_TRANSITIONS[item]
    /\ item' = to
    /\ IF Over(to)
       THEN /\ task' = OpenTasksCancelled(task)
            /\ signal' = signal \cup RunningSubs
            /\ CloseSubs(OpenSubs)
       ELSE UNCHANGED <<task, signal, sub>>

(* transitionItemWithWarning, for a status that is not terminal. *)
Moved(from, to) == IF to \in WORK_ITEM_TRANSITIONS[from] THEN to ELSE from

-----------------------------------------------------------------------------
(* WorkboardDispatcher.tryDispatchItem *)

NeedsTask == \A t \in Existing : task[t].st \in {"failed", "cancelled"}

(* Mutants: a leased task is leased again; a lapsed lease is not taken over;  *)
(* a dependency need only have been started.                                *)
MayLeaseAnyLeased(x) == x.st \in {"queued", "leased"}
MayLeaseQueued(x) == x.st = "queued"
DepsStarted(f, t) == \A d \in f[t].deps : f[d].st # "queued"

(* leaseRunnableTasks *)
MayLease(x) == x.st = "queued" \/ (x.st = "leased" /\ x.lapsed)
DepsEnded(f, t) == \A d \in f[t].deps : f[d].st \in Ended
Runnable(f) == {t \in Tasks : MayLease(f[t]) /\ DepsEnded(f, t)}

LeasesAll(p, seen, f) ==
    LET got == IF Over(item) THEN {} ELSE Runnable(f)
    IN /\ task' = [t \in Tasks |-> IF t \in got
                     THEN [f[t] EXCEPT !.st = "leased", !.owner = p, !.lapsed = FALSE] ELSE f[t]]
       /\ disp' = [disp EXCEPT ![p] = IF got = {} THEN Idle
                                      ELSE [pc |-> "begin", seen |-> seen, got |-> got]]

Look(p) ==
    /\ p \in live /\ disp[p].pc = "idle"
    /\ item \in {"ready", "doing"}
    /\ IF NeedsTask
       THEN disp' = [disp EXCEPT ![p] = [pc |-> "create", seen |-> item, got |-> {}]]
            /\ UNCHANGED task
       ELSE Runnable(task) # {} /\ LeasesAll(p, item, task)
    /\ UNCHANGED <<live, item, launch, sub, signal, events, raced>>

(* ensureExecutionTask creates the task it found missing (no more than     *)
(* NTasks of them here).                                                   *)
FreeTasks == {t \in Tasks : task[t].st = "none"}
MakeTask(p) ==
    /\ p \in live /\ disp[p].pc = "create"
    /\ LeasesAll(p, disp[p].seen, [t \in Tasks |->
          IF t \in FreeTasks /\ t = Min(FreeTasks) THEN NewTask("queued", {}) ELSE task[t]])
    /\ UNCHANGED <<live, item, launch, sub, signal, events, raced>>

(* acquireExecutionSlot refuses some tasks, or the WIP limit of "doing"    *)
(* items the rest: other items hold them.  requeueLeasedTask.              *)
Requeued(S, p) == [t \in Tasks |-> IF t \in Until(S, p) THEN Put(task[t], "queued") ELSE task[t]]

Refuse(p) ==
    /\ p \in live /\ disp[p].pc = "begin"
    /\ Counts
    /\ \E S \in (SUBSET disp[p].got) \ {{}} :
          /\ task' = Requeued(S, p)
          /\ IF S = disp[p].got \/ Until(S, p) # S THEN disp' = [disp EXCEPT ![p] = Idle]
             ELSE disp' = [disp EXCEPT ![p].got = @ \ S]
    /\ UNCHANGED <<live, item, launch, sub, signal, raced>>

(* The item is moved to "doing" if it was "ready", and each task launched. *)
Start(p, S) ==
    /\ \A t \in S : At(<<p, t>>, "idle") /\ <<p, t>> \notin RunningSubs
    /\ launch' = [l \in Launches |-> IF l[1] = p /\ l[2] \in S THEN [NoLaunch EXCEPT !.pc = "new"]
                                     ELSE launch[l]]

Begin(p) ==
    LET S == disp[p].got
    IN /\ p \in live /\ disp[p].pc = "begin"
       /\ disp' = [disp EXCEPT ![p] = Idle]
       /\ IF disp[p].seen = "ready" /\ "doing" \notin WORK_ITEM_TRANSITIONS[item]
          THEN /\ task' = Requeued(S, p)
               /\ UNCHANGED <<item, launch>>
          ELSE /\ item' = IF disp[p].seen = "ready" THEN "doing" ELSE item
               /\ Start(p, S)
               /\ UNCHANGED task
       /\ UNCHANGED <<live, sub, signal, events, raced>>

-----------------------------------------------------------------------------
(* runExecutionTask *)

Goes(l, pc) == launch' = [launch EXCEPT ![l].pc = pc]
Task(l) == task[l[2]]
MayRecord(l) == MaySet(l[2], l[1])
Records(l, st) == task' = [task EXCEPT ![l[2]] = Put(@, st)]

(* prepareExecutionSubagent reuses the task's paused subagent, or, a       *)
(* desktop having been provisioned if needed, inserts a new one.           *)
PausedSubs(t) == {s \in Launches : sub[s] = "paused" /\ s[2] = t}

Check(l) ==
    /\ At(l, "new")
    /\ IF item \notin {"ready", "doing"} \/ Task(l).st \in Ended
       THEN Goes(l, "finally") /\ UNCHANGED sub
       ELSE IF PausedSubs(l[2]) = {}
       THEN Goes(l, "create") /\ UNCHANGED sub
       ELSE \E s \in PausedSubs(l[2]) :
              /\ sub' = [sub EXCEPT ![s] = "running"]
              /\ launch' = [launch EXCEPT ![l].by = s[1], ![l].pc = "start"]
    /\ UNCHANGED <<live, item, task, disp, signal, events, raced>>

(* It refuses a terminal item, unless that became so after it looked. *)
Create(l) ==
    /\ At(l, "create")
    /\ sub' = [sub EXCEPT ![l] = "running"]
    /\ launch' = [launch EXCEPT ![l].by = l[1], ![l].pc = "start"]
    /\ signal' = signal \ {l}
    /\ UNCHANGED <<live, item, task, disp, events, raced>>

(* updateTask throws if another dispatcher leased the task, or its lease   *)
(* expired; the catch block then tries an update of its own, see Fail.     *)
StartTask(l) ==
    /\ At(l, "start")
    /\ IF MayRecord(l)
       THEN /\ task' = [task EXCEPT ![l[2]] = [Put(@, "running") EXCEPT !.retry = 0]]
            /\ Goes(l, "turn")
       ELSE Goes(l, "catch") /\ UNCHANGED task
    /\ UNCHANGED <<live, item, disp, sub, signal, events, raced>>

Settles(s, st) == sub' = [sub EXCEPT ![s] = IF @ \in {"closed", "failed"} THEN @ ELSE st]

Complete(l) ==
    /\ At(l, "turn")
    /\ IF MayRecord(l)
       THEN Records(l, "completed") /\ Settles(SubOf(l), "closed") /\ Goes(l, "finally")
       ELSE Goes(l, "catch") /\ UNCHANGED <<task, sub>>
    /\ UNCHANGED <<live, item, disp, signal, events, raced>>

(* The turn, the preparation or an update of the task threw: the catch     *)
(* block marks the task failed, if it may by now.                          *)
Fail(l) ==
    /\ At(l, "turn") \/ At(l, "create") \/ At(l, "catch")
    /\ Goes(l, "finally")
    /\ IF MayRecord(l)
       THEN /\ Records(l, "failed")
            /\ IF launch[l].by = NoProc THEN UNCHANGED sub ELSE Settles(SubOf(l), "failed")
            /\ item' = Moved(item, "blocked")
       ELSE UNCHANGED <<task, sub, item>>
    /\ UNCHANGED <<live, disp, signal, events, raced>>

(* The turn ends on a ConversationQueueInterruptError. *)
Interrupt(l) ==
    /\ At(l, "turn") /\ SubOf(l) \in signal
    /\ signal' = signal \ {SubOf(l)}
    /\ Goes(l, "finally")
    /\ IF Task(l).st \in {"paused", "cancelled"} \/ item = "cancelled"
          \/ (Task(l).st \notin Ended /\ ~MayRecord(l))
       THEN UNCHANGED <<item, task, sub>>
       ELSE /\ IF Task(l).st \in Ended THEN UNCHANGED task ELSE Records(l, "paused")
            /\ sub' = [sub EXCEPT ![SubOf(l)] = "paused"]
            /\ item' = IF item = "doing" THEN "blocked" ELSE item
    /\ UNCHANGED <<live, disp, events, raced>>

(* reconcileItemDispatchState, in the finally block. *)
Some(st) == \E t \in Existing : task[t].st = st
All(st) == \A t \in Existing : task[t].st = st

StatusAfterLaunch ==
    CASE Some("failed") \/ Some("paused") -> IF item = "doing" THEN "blocked" ELSE item
      [] Some("running") -> item
      [] Some("queued") \/ Some("leased") -> Moved(item, "ready")
      [] OTHER -> item

Finally(l) ==
    LET done == item = "doing" /\ All("completed")
        la == [launch EXCEPT ![l] = NoLaunch]
    IN /\ At(l, "finally")
       /\ launch' = la
       /\ sub' = Kept(IF done THEN Closed(OpenSubs) ELSE sub, la)
       /\ signal' = {s \in Launches : sub'[s] # "none"} \cap
                     (IF done THEN signal \cup RunningSubs ELSE signal)
       /\ item' = IF done THEN "done" ELSE IF Over(item) THEN item ELSE StatusAfterLaunch
       /\ UNCHANGED <<live, task, disp, events, raced>>

-----------------------------------------------------------------------------
(* WorkboardReconciler.reconcileDoingItem *)

Orphans == {t \in Tasks : task[t].st \in {"leased", "running", "paused"}}
Candidate == Min(Orphans)

ReconcileEnded ==
    /\ Orphans = {}
    /\ IF Some("failed") \/ (Existing # {} /\ All("cancelled"))
       THEN MoveItem("blocked")
       ELSE IF Existing # {} /\ All("completed") THEN MoveItem("done")
       ELSE (Existing = {} \/ Some("queued")) /\ MoveItem("ready")
    /\ UNCHANGED <<events, raced>>

(* handleOrphanedTasks: put them all back once; the second time the first  *)
(* is paused for an operator.                                              *)
ReconcileOrphans ==
    /\ Orphans # {}
    /\ IF Some("failed") THEN MoveItem("blocked") /\ UNCHANGED <<events, raced>>
       ELSE /\ TakesFrom(Orphans)
            /\ IF task[Candidate].retry >= 1
               THEN /\ item' = "blocked"
                    /\ task' = [t \in Tasks |->
                         IF t = Candidate THEN Put(task[t], "paused")
                         ELSE IF t \in Orphans THEN Put(task[t], "queued") ELSE task[t]]
               ELSE /\ item' = "ready"
                    /\ task' = [t \in Tasks |-> IF t \in Orphans
                         THEN [Put(task[t], "queued") EXCEPT !.retry = 1] ELSE task[t]]
            /\ UNCHANGED <<sub, signal>>

Reconcile ==
    /\ live # {} /\ item = "doing" /\ OpenSubs = {}
    /\ ReconcileEnded \/ ReconcileOrphans
    /\ UNCHANGED <<live, disp, launch>>

-----------------------------------------------------------------------------
(* Operator requests *)

Active == {t \in Tasks : task[t].st \in {"leased", "running"}}

(* assertItemMutable *)
Mutable == Active = {} /\ RunningSubs = {}

(* pauseWorkItem; it throws on a task whose lease has lapsed. *)
Pause ==
    /\ Counts
    /\ Active # {} \/ RunningSubs # {}
    /\ \A t \in Active : ~task[t].lapsed
    /\ signal' = signal \cup RunningSubs
    /\ sub' = [s \in Launches |-> IF s \in RunningSubs THEN "paused" ELSE sub[s]]
    /\ task' = [t \in Tasks |-> IF t \in Active THEN Put(task[t], "paused") ELSE task[t]]
    /\ item' = IF item = "doing" THEN "blocked" ELSE item
    /\ UNCHANGED <<live, disp, launch, raced>>

(* resumeWorkItem *)
PausedTasks == {t \in Tasks : task[t].st = "paused"}
Resume ==
    LET subs == {s \in Launches : sub[s] = "paused"}
    IN /\ PausedTasks # {} \/ subs # {}
       /\ PausedTasks = {} => FreeTasks # {}
       /\ signal' = signal \ subs
       /\ CloseSubs(subs)
       /\ task' = IF PausedTasks # {}
                  THEN [t \in Tasks |-> IF t \in PausedTasks THEN Put(task[t], "queued")
                                        ELSE task[t]]
                  ELSE [task EXCEPT ![Min(FreeTasks)] = NewTask("queued", {})]
       /\ item' = IF item = "blocked" /\ Mutable THEN "ready" ELSE item
       /\ TakesFrom(PausedTasks)
       /\ UNCHANGED <<live, disp, launch>>

(* transitionWorkItem; a denied intervention has the effect of a cancel. *)
Move(to) ==
    /\ Counts
    /\ to # "cancelled" /\ Mutable
    /\ NeedsTask => FreeTasks # {}
    /\ MoveItem(to)
    /\ UNCHANGED <<live, disp, launch, raced>>

Cancel ==
    /\ Counts
    /\ "cancelled" \in WORK_ITEM_TRANSITIONS[item]
    /\ item' = "cancelled"
    /\ task' = OpenTasksCancelled(task)
    /\ signal' = (signal \ {s \in Launches : sub[s] = "paused"}) \cup RunningSubs
    /\ CloseSubs(OpenSubs)
    /\ UNCHANGED <<live, disp, launch, raced>>

-----------------------------------------------------------------------------
(* Time and faults *)

(* A lease expires after 60 s. *)
LeaseLapses(t) ==
    /\ task[t].st = "leased" /\ ~task[t].lapsed
    /\ task' = [task EXCEPT ![t].lapsed = TRUE]
    /\ TakesFrom({t})
    /\ UNCHANGED <<live, item, disp, launch, sub, signal>>

Crash(p) ==
    /\ p \in live /\ live # {p}
    /\ Counts
    /\ live' = live \ {p}
    /\ disp' = [disp EXCEPT ![p] = Idle]
    /\ LET la == [l \in Launches |-> IF l[1] = p THEN NoLaunch ELSE launch[l]]
       IN launch' = la /\ sub' = Kept(sub, la)
    /\ UNCHANGED <<item, task, signal, raced>>

Dispatches(p) == Look(p) \/ MakeTask(p) \/ Begin(p)
Launched(l) == Check(l) \/ Create(l) \/ StartTask(l)
               \/ Complete(l) \/ Fail(l) \/ Interrupt(l) \/ Finally(l)

Next ==
    \/ \E p \in Procs : Dispatches(p) \/ Refuse(p) \/ Crash(p)
    \/ \E l \in Launches : Launched(l)
    \/ Reconcile
    \/ Pause \/ Resume \/ Cancel
    \/ \E to \in DOMAIN WORK_ITEM_TRANSITIONS : Move(to)
    \/ \E t \in Tasks : LeaseLapses(t)

Spec == Init /\ [][Next]_vars

(* The interval schedulers keep ticking, a started call goes on and its    *)
(* turn ends, and a lease whose holder is gone expires.                    *)
FairSpec ==
    /\ Spec
    /\ \A p \in Procs : WF_vars(Dispatches(p))
    /\ \A l \in Launches : WF_vars(Launched(l))
    /\ WF_vars(Reconcile)
    /\ \A t \in Tasks : WF_vars(LeaseLapses(t) /\ ~Attended(t))

-----------------------------------------------------------------------------
(* Two launches never run the same task at once, unless it was put back or *)
(* its lease lapsed while one of them was under way (dispatcher.ts:107,    *)
(* leaseRunnableTasks).                                                    *)
InTurn(t) == {l \in Launches : At(l, "turn") /\ l[2] = t}
OneExecutor == ~raced => \A t \in Tasks : Cardinality(InTurn(t)) <= 1

(* A task is only worked on after the tasks it depends on have ended, with *)
(* the same exception (task-leasing-dal.ts:83, findRunnableTaskIds).       *)
DependenciesFirst ==
    ~raced => \A l \in Launches : At(l, "turn") => DepsEnded(task, l[2])

(* An open subagent that no launch uses any more, of a task that is not    *)
(* paused: the process died, and nothing closes it.                        *)
Abandoned == \E s \in OpenSubs : task[s[2]].st # "paused" /\ \A l \in Launches : SubOf(l) # s

(* Every task has ended and one succeeded, and the item is "ready": the    *)
(* dispatcher finds nothing to do and the reconciler does not look.        *)
Stranded == item = "ready" /\ \A t \in Existing : task[t].st \in Ended

(* Work that was dispatched comes to rest: the item is done, stopped, or   *)
(* waits for an operator, or is one of the two cases above (dispatcher.ts: *)
(* 47, reconciler.ts:25).                                                  *)
WorkSettles ==
    item \in {"ready", "doing"} ~>
        item \notin {"ready", "doing"} \/ Some("paused") \/ Stranded \/ Abandoned

(* When the item is over its subagents stop running, the one a launch was  *)
(* creating meanwhile too, unless a process crashed or a task was executed *)
(* twice (item-transitions-dal.ts:271, applyTerminalCleanup).              *)
SubagentsStop == Over(item) ~> RunningSubs = {} \/ live # Procs \/ raced

(* The state of an item is derived from its tasks: a "ready" item whose    *)
(* tasks all completed becomes done or is moved by an operator.            *)
CompletedWorkIsDone ==
    (item = "ready" /\ Existing # {} /\ All("completed"))
        ~> ~(item = "ready" /\ Existing # {} /\ All("completed"))
=============================================================================
