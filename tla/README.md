# TLA+ models of the Tyrum gateway

Tyrum is a self-hosted agent platform. Its gateway (`packages/gateway`) keeps all
durable state in one SQL database (SQLite in a single process, Postgres when several
gateway processes share it) and drives long-running work from it: several processes
poll the same rows, take leases on them, execute outside of any transaction and record
the outcome in a second transaction. Work pauses for approvals, approvals are decided by
people or by a reviewing model, and the decision resumes or cancels the work. Messages of chat
channels come in and go out through leased queues, the processes of a cluster talk through a
shared outbox, and work items are executed by dispatchers that lease their tasks. The
modules here model that core, statement by statement where statements of two
transactions may interleave, and one transaction at a time elsewhere. Paths are relative
to `src/`; `G` stands for `packages/gateway/src`.

## 1. Inventory

The parts that keep state and act on it concurrently. `PROJECT.json` lists every part of
the repository, the ones that are not modelled too, with the reason.

| Part | State | Operations | Interacts with | Hard behaviour | What makes it correct |
|---|---|---|---|---|---|
| Workflow runs (`G/modules/workflow-run`) | `workflow_runs`, `workflow_run_steps`, lease columns of the run | create, claim (with recovery, budget, policy), execute and record, resume, cancel | approvals (pauses), engine actions (resume, cancel), workspace leases, step executors | a lease is never renewed during an execution; a worker dies between claim and outcome; tokens presented twice; late outcomes | one executor per run; steps in order, once; nothing moves while an approval is undecided; a finished run stays finished; crashed work is taken over |
| Approvals (`G/modules/approval`) | `approvals`, `approval_reviews`, `policy_overrides` | create, guardian and human decision, expiry | whoever they block; the policy store | several deciders read the same status; expiry against decision; retries of the creation | one decision, a trail that agrees with it |
| Guardian review (`G/modules/review`) | reviewer subagents of a loop, running reviews | claim, decide, escalate, fail, recover stale reviews | approvals, subagents | two processes pick the same approval; the process dies while it reviews; answers that come too late | one reviewer; every review ends |
| Engine actions (`G/modules/approval/engine-action-*`) | `approval_engine_actions` with lease and attempts | enqueue, claim, execute, settle, requeue | runs and turns, whose resume and cancel it calls | leases that lapse during an execution; a failure between the effect and its record; the attempt limit | done at least once, settled once, retries end |
| Conversation turns (`G/modules/agent/runtime/turn-*`, `conversation-turn-loop.ts`) | `turns`, `conversation_leases`, `resume_tokens`, checkpoints | create, claim, heartbeat, pause, complete, fail, resume, cancel | requests, turn loops, approvals, engine actions, channels | cancellation during an execution; a decision between the creation of an approval and the pause; heartbeats that fail | one turn of a conversation at a time; late outcomes ignored; every turn settles |
| Workspace leases, concurrency slots (`G/modules/execution/engine`, `G/modules/workspace`) | `workspace_leases`, `concurrency_slots` | acquire, renew, release | runs, turns | expiry against renewal | at most one holder, at most `max` slots |
| Channel inbox (`G/modules/channels`, `conversation-queue`) | `channel_inbox`, `channel_inbound_dedupe`, `conversation_queue_signals`, the conversation's lease | receive and deduplicate, overflow, claim, batch, steer, interrupt, settle, take over | turns, conversation leases, chat services | redelivery; a full queue; a dead processor with a batch and the lease; a signal that comes late | nothing taken in is forgotten; one turn at a time; each message settled once, in the end |
| Channel outbox (`G/modules/channels`, retention in `statestore/lifecycle.ts`) | `channel_outbox`, the approval of a send, the send policy override | store chunks, gate, release, refuse, send, mark, clean up, prune | approvals, chat services, retention | a send that was not recorded; chunks stored before they are gated; a process that dies between two statements | no duplicate without a fault; a gated chunk is in nobody's hands; rows leave |
| Telegram polling (`G/modules/channels/telegram-polling-*`) | `telegram_polling_state` (lease, cursor, bot), monitors and workers of each process | reconcile, acquire, renew, poll, store, move the cursor, give up, release | the inbox, Telegram, the operator's settings | an offset makes Telegram forget; replaced workers of one owner; a lease that runs out during a poll | no update forgotten before it was handled; each handled in the end |
| Backplane (`G/modules/backplane`) | `outbox`, `outbox_consumers`, each poller's batch | enqueue, poll, process, acknowledge, compact | websocket clients of other processes, node dispatch | ids visible out of order; ticks that stop halfway; idle consumers pruned | a cursor passes only processed rows; no row processed twice |
| Node dispatch (`G/ws/protocol`, `packages/runtime-node-control`, `runtime-execution/task-result-registry.ts`, SDKs) | connections, task result registries, routes of relayed results, `dispatch_records` | dispatch here or to another edge, wait, answer, relay, resolve, close, time out | backplane, nodes, turns that wait | answers before the wait; sockets that close between two steps; edges that die; lost relays | the answer is the node's and is recorded; a call ends without its timer |
| Workboard (`G/modules/workboard`, `packages/runtime-workboard`) | `work_items`, `work_item_tasks` with leases, `subagents`, interrupt signals | dispatch, lease, run, settle, reconcile, pause, resume, move, cancel | turns of subagents, approvals, operators | leases of tasks that lapse during a preparation; a process that dies; tasks that end together; a cancellation while a subagent is created | one executor of a task; dependencies first; work comes to rest; subagents stop |
| Schedules (`G/modules/watcher`, `automation`) | `watchers`, `watcher_firings` | fire, lease, enqueue the work | runs, turns | two schedulers, missed ticks | one firing per due time |
| Node pairing (`G/modules/node`) | pairings, scoped tokens | request, review, approve, revoke | guardian, websocket protocol | reviewers that race | only paired nodes act |
| Everything else | requests, files, configuration | | | policy evaluation, model calls, storage, user interfaces, SDKs: pure, I/O or without shared mutable state | |

How they interact:

```
 request ──creates──▶ turn ──asks──▶ approval ◀──decides── people, guardian loops
 workflow client ──▶ run ──pauses──▶    │  └─expires─▶ (turn loops resolve the turn)
                      ▲                 ▼
 worker loops ─claim──┘        engine action ──resume / cancel──▶ run or turn

 Telegram ─▶ polling worker ─▶ inbox ─▶ processor ─(conversation lease)─▶ turn
                                            └─▶ outbox ─(approval)─▶ sender ─▶ channel

 caller ─▶ edge ─(backplane)─▶ edge ─▶ node ─▶ edge ─(backplane)─▶ edge ─▶ caller

 operator ─▶ work item ◀─ reconciler      dispatcher ─lease─▶ task ─▶ subagent's turns
```

## 2. The modules

| Module | What it is |
|---|---|
| `WorkflowRun` | one run, its steps, approvals and workers |
| `RunPromise` | what a run promises to who started it: steps in order, once, by one executor, nothing during a wait; and what a fault leaves of that |
| `MCWorkflowRun` | instances of `WorkflowRun`: policies |
| `WorkflowRunProofs` | what holds under every fault, what holds until the first one, and the refinement of `RunPromise`, which says both |
| `EngineActionQueue` | the leased queue of engine actions, for one approval |
| `ApprovalReview` | extends it with the approval, its reviewers, deciders and waiters |
| `ApprovalPromise` | what an approval promises to the work it blocks, in three actions |
| `MCApprovalReview` | instances of `ApprovalReview` |
| `ApprovalReviewProofs` | safety, races and refinement of `ApprovalPromise` |
| `TurnRunner` | the turns of one conversation, its lease, requests and turn loops |
| `MCTurnRunner` | instances of it |
| `TurnRunnerProofs` | theorems about it |
| `ChannelInbox`, `MCChannelInbox` | the inbound queue of one conversation |
| `ChannelInboxProofs` | nothing lost, each message settled for good, one turn at a time |
| `ChannelOutbox`, `MCChannelOutbox` | the reply to one message, in chunks |
| `ChannelOutboxProofs` | no duplicate without a fault, gated chunks are not sent |
| `TelegramPolling`, `MCTelegramPolling` | long polling of one account by several processes |
| `TelegramPollingProofs` | an account that keeps its bot loses no update |
| `Backplane` | the outbox between the edges, whatever its rows hold |
| `NodeDispatch`, `MCNodeDispatch` | extends it with calls to a node, here or on another edge |
| `NodeDispatchProofs` | what a consumer's cursor may skip, no replays, answers are the node's |
| `WorkItem`, `MCWorkItem` | the execution of one work item |
| `WorkItemProofs` | one executor of a task, dependencies first, final statuses |

### WorkflowRun

The variables are the columns of the run's row (`runStatus`, `leaseOwner`,
`leaseExpired`, `blockedReason`, `budgetOverridden`), of its steps (`stepStatus`,
`attemptCount`), the approvals with the key `workflow:<run>:step:<s>:<kind>`, and what
each worker executes (`claim`). `claimNextWorkflowRunStep` is one transaction with seven
ways out, each an action: `ClaimNothingLeft`, `RecoverExhausted`, `RecoverNeedsApproval`,
`ClaimBudgetPause`, `ClaimPolicyDenied`, `ClaimPolicyPause`, `ClaimWorkspaceBusy` and, if
none of them, `StartStep`. The transaction that records an outcome
(`executeWorkflowRunClaim`) is `FinishDiscarded`, `FinishSucceeded`, `FinishRetry`,
`FinishFailed`, `FinishPaused`. `PresentToken` is `resumeWorkflowRun`, which a client calls as
often as it likes (`ClientResume`) and the engine at least once: the action's effect and its mark
are two statements, so `EngineApplies` may leave the action to be executed again. `ClientCancel` is
`cancelWorkflowRun`. `LoseClaim` (the outcome cannot be recorded), `Crash`, `LeaseExpires`,
`BudgetElapses`, `Decide` and `Expire` are the environment. Decisions are a summary of what
`ApprovalReview` models in detail, the retries of the action of what `EngineActionQueue` does.

Two things break the order of a run, and nothing in the code prevents either: a decision is applied
again to a run that is not over (the step is queued whatever its status), and the lease runs out on
a worker that executes a step with attempts left (the next claim starts that step again beside it).
The model lets both happen at any time and counts them in the history variable `faults`; `applied`
is the history of what was applied. So the properties say what holds until the first fault, and
what each fault may cost: `ActivityNeedsFaults` (executors and open questions of a live run together
are at most `1 + faults`), `LeaseIffRunning`, `TerminalRunIsFinal`, `RunSettles`.

`RunPromise` is what the run looks like from outside: `state`, the set of `finished` steps, what
each worker is `executing`, and the `answer` the run waits for. The mapping (`stateBar`,
`finishedBar`, `executingBar`, `answerBar`) takes queued and running to going; the claims that put
a recovered step back and the passing of time are steps the promise does not see. `Kept` is the
promise of a run without a fault; from the first fault on only `Voided` is left of it: the plan
stays, a success still needs the last step, there are at most `1 + faults` executors, and a run that
has ended stays as it ended, whatever happens (`Kept` again). A run may wait
with no question open (`Ask` with `answer' = "none"`), because the second pause of a step for one
kind finds the approval of the first (section 4).

The policy a step is under is a set of decisions (`PolicyOf`), because the evaluation
depends on the step's action and the snapshot; the results, costs and artifacts of steps
are left out.

### ApprovalReview and EngineActionQueue

`transitionWithReviewTx` reads the approval's status, compares it with the allowed ones and
updates `WHERE status = <what was read>`. Between the two, other READ COMMITTED
transactions may commit; so where several statuses are allowed, the read and the update
are actions of their own (`HumanReads`, `HumanWrites`; `WaiterTimesOut`, `WaiterExpires`).
The guardian loop is `GuardianPick`, `GuardianClaim` (which creates the reviewer and may
lose the race), `GuardianApproves`, `GuardianEscalates`, `GuardianFails` and
`RecoverStale`, its ticks may be lost (`GuardianTickLost`) and its process may die
(`Crash`). The approval blocks one of three kinds of work (`origin`): a paused run, a paused
tool call, or an agent that polls for the decision. `EngineActionQueue` is one row of
`approval_engine_actions` with its processors: `ClaimAction`, `ExecuteAction` or
`ExecuteThrows`, then `MarkSucceeded`, `RequeueWithError` or `MarkFailed`, with lapsing
leases and lost ticks. `ApprovalReview` enqueues the action in the step that decides, as
`resolveWithEngineActionTx` does.

### TurnRunner

The variables are the columns of `turns` (`status`, `turnOwner`, `turnLapsed`, `checkpoint`)
and of the conversation's row in `conversation_leases` (`convOwner`, `convLapsed`), the
approvals and resume tokens of each turn, and the actors: the request that created a turn
(`turnViaTurnRunner`, under an owner name of its own, for which the turn's number stands) and
the conversation turn loops. `Claim`, `Heartbeat`, `PauseTurn` and `Finish` are the
transactions of `TurnRunner`, `ResumeTurn` and `CancelTurn` those of `NativeTurnController`,
`ResolvePaused` is `maybeResolvePausedTurn`. A loop lists the runnable turns and tries one
after the other, each try in a transaction of its own (`LoopScans`, `LoopClaims`,
`LoopSkips`). The creation of the approval and the pause are two transactions
(`AskApproval`, `PauseTurn`), so a decision may come between them. `convTurn`, `lastClaim` and
`disturbed` are history variables. One conversation is modelled: the claims of turns of
different conversations share no row.

### ChannelInbox

`queue` is the set of the conversation's rows of `channel_inbox`; a row's `at` is its place in the
order of `(received_at_ms, inbox_id)`, and a summary takes that of the newest row it replaces.
`seen` is the dedupe rows. A delivery is `Receive` (`executeEnqueueTransaction`, with
the overflow policy), then, for a message with a steering or interrupting mode, a look at the
lease (`LooksForActiveTurn`) and a second transaction (`RaiseSignal`). A processor's tick is
`ClaimNext`, `AcquireConversation` or `Requeue`, `ListBatch` and `ClaimBatch` (between which
another processor may act), the turn with `ClaimSignal` at its tool boundaries and `EndTurn`,
`MarkRow` for each row and `EndTick`. `TickThrows` gives the lease back and leaves the rows to
their own leases, `Crash` leaves both; a process that restarts has a new owner name
(`bootstrap/runtime.ts:136`), so a crashed one stays dead. A summary row stands for the messages it names. `fate` is
history.

### ChannelOutbox

One message, its row of `channel_inbox` and its chunks. The turn stores chunk after chunk
(`Enqueue`, `ON CONFLICT DO NOTHING`), gates them by a second statement (`Gate`), completes the
message (`Complete`), and a further statement deletes it when no chunk is left (`CleanUp`). A
sender resolves a gate (`ResolveGate`: the operator's override first, then the approval), claims
(`ClaimChunk`), sends (`Deliver`) and records (`MarkSent`, `MarkFailed`). A process may die
between any two (`Fails`). Retention is `PruneChunk` and `PruneMessage`. Here leases outlive the
work they are for (ten minutes for a message, one for a chunk); the conversation lease is in
`ChannelInbox`.

### TelegramPolling

Each process has a monitor (`Start`, `Remove`: the two outcomes of `reconcile` that change
something) and its workers, which share its owner name, also with the worker they replace and
which is not waited for. A worker's `pollOnce` is `LoadAccount`, `ReadState`, `MarkPolling`, the
request (`Poll`, `PollFails`), then `EmptyPoll`, or `Handle` and `MoveCursor` for each update;
the heartbeat runs beside it. `confirmed` is the number below which Telegram has forgotten a
bot's updates, which a request's offset moves; it answers with the first of those left.

### Backplane and NodeDispatch

`Backplane` knows rows with an id, a sender and a receiver; what they hold and what their
processing does is said by the module that extends it. An insert takes its id before it commits
(`Put`, `Commit`), so a poll may see a higher id first; `overtaken` records which. A tick polls
once and processes and acknowledges row by row (`Poll`, `Processes`, `Ack`), and stops when an
acknowledgement fails. `Prune` is a compaction: rows and idle consumers by one cutoff.
`NodeDispatch` has one node, whose client reconnects with a new connection id, and the calls of
`dispatchAndWait`: `Dispatch` chooses a connection, `SendLocal` sends and waits in one synchronous
stretch, `SendRemote` inserts a row and `StartWait` waits when the insert has returned.
`Associated`, `Resolved`, `Disconnected`, `Waited` are the methods of `TaskResultRegistry`. `Reply`
(which completes the record) and `Relay` or `ResolveHere` are the two halves of
`handleTaskExecuteResponse`. `wired` says whether the poller was given the registry.

### WorkItem

The item's status, its tasks with their leases, what each dispatcher and each launch is doing,
the subagents and the interrupt signals for them. A dispatcher acts in up to three steps (`Look`,
`MakeTask`, `Begin`), a launch in five (`Check`, `Create`, `StartTask`, the end of the turn as
`Complete`, `Fail` or `Interrupt`, `Finally`), and when an update of the task throws, a sixth: the
catch block's own update (`Fail` at `"catch"`), which succeeds if another dispatcher has the task
running by then. The reconciler's visit and an operator's request
(`Pause`, `Resume`, `Move`, `Cancel`) are one action each, although they are several transactions
in the code; `Check` joins the check of the item with the reuse of a paused subagent. Merged like
that, a second reconciler never sees half of a first one's writes (a retry counted, the item not yet
moved). `Look` joins the read of the item with the leases when no task has to be created, so the
item never moves between the two there; where one is created, it may (`Look`, `MakeTask`). Apart,
the steps have several times as many states, more than can be explored with the events below. A
process runs a task at most once at a time. Other items appear as refusals of a slot (`Refuse`).

## 3. The runs

All passing runs exhaust their state space. `CHECK_DEADLOCK FALSE` is in every cfg, since each
system stops when the run, the approval, the turns, the message, the updates, the calls or the
item are over.

| Run | Asks | Bounds | States |
|---|---|---|---|
| `workflow_run` | whether crashed work is taken over (`RunSettles`) and done right: until the first fault one executor, steps in order, the budget lifted by approvals only; under a fault how much is going on at once, leases, final runs; and `KeepsRunPromise`, which speaks of both | 2 workers, 0 or 2 steps, 2 attempts, a budget, a policy gate and tool approvals on the second step, 1 fault (a lease that lapses on an executor or a decision applied again) | 286,110 |
| `workflow_replay` | *violation*: a decision applied again re-queues a step that succeeded | 2 steps, 1 attempt, 1 fault | |
| `approval_race` | deciders, reviewers, expiry and waiter race for one approval, processors for its action: eight properties, among them the refinement `KeepsPromise`, and that reviews end (`ReviewEnds`) and actions are retried (`ActionIsRetried`) | 2 gateway processes, 1 person, 1 creating call, 2 attempts of the action, 3 origins | 265,915 |
| `turns` | serialized, late outcomes ignored, final statuses, and liveness of the turns of a conversation: six properties | 2 turns with a request each, a loop and its replacement, 1 approval per turn, 1 fault | 204,096 |
| `turns_serialized` | *violation*: two turns of a conversation execute at once | as `turns` | |
| `channel_inbox` | one turn at a time, nothing forgotten, each message settled, and once | 2 messages, delivered any number of times, 3 modes, a cap of 1, 3 overflow policies, 2 processors, 1 fault | 521,999 |
| `channel_outbox` | duplicates only after faults, gated chunks not sent, all rows leave | 2 processors, 1 or 2 chunks, 1 fault, any number of changes of the override | 545,163 |
| `telegram_polling` | no update forgotten, each handled | 2 processes, one with a worker and a replacement, 2 updates, 2 settings with one bot and webhook mode, 1 change, crash or lapse | 58,409 |
| `node_dispatch` | cursors, records, replays, and that local and relayed calls end | 2 edges, 1 call, 2 connections of the node, 1 fault, compaction, broadcast or broken socket; poller with and without registry | 81,462 |
| `node_dispatch_relay` | *violation*: a relayed result never reaches its caller | no faults, 1 connection | |
| `workboard` | one executor, dependencies first, work settles, subagents stop | 2 processes; no planned task, one with 2 rare events, or two, chained or not, with 1 | 239,991 |
| `workboard_completed` | *violation*: an item stays `ready` when its tasks have completed | 2 processes, 2 tasks, no faults | |

Why the bounds are enough. The hazards are races of pairs: a stale and a new executor, two
deciders, a cancellation and a claim, a worker and its replacement, two edges, two tasks of an
item; so two of each actor, and two steps, turns, messages, chunks or tasks (the last one and one
that is not the last) reach them. Two attempts distinguish the last from another. With a cap of
one, the second message overflows under each policy. `AttemptBound`, `MaxFaults`, `MaxEvents`,
`MaxExtra` and `NTasks` cut the unbounded repetition of resumes, crashes, changes of settings,
operators' requests and replacements of tasks; in `workflow_run` `AttemptBound` is beyond what the
other bounds let happen. That run has no pauses for a takeover (`PostSteps`): with the budget they
exceed the time a run may take. `workflow_replay` and the theorems have them. What the bounds may hide is covered by
the theorems, which have none of them, for the safety properties listed in section 5.

In `WorkItem` a crash, a refused slot, an operator's pause, move or cancellation, and a lease that
lapses or a task that is put back while somebody attends to it cost one of `MaxEvents`; the resume
of work nobody attends to, and an abandoned lease that lapses, are free. `OneExecutor` and
`DependenciesFirst` except the histories in which a task was put back or its lease lapsed under an
executor (`raced`): then the code does let two launches run it. `WorkSettles` names two cases that
do not come to rest by themselves: `Stranded`, which `workboard_completed` shows without any
fault, and `Abandoned`, a subagent whose process died, which keeps the reconciler away.
`SubagentsStop` excepts crashes and `raced` for the same reason.

Every property of a passing run has a mutant in `PROJECT.json`: a definition of the model
changed as a plausible bug would, under which TLC finds the property violated in the same
run. The mutated forms are in the modules, before the definition they replace.

**Fairness.** Weak fairness of the steps of a live worker, guardian, processor, request, turn
loop, poller or dispatcher: each is an endless `for` loop or an interval timer that survives thrown
errors (`conversation-turn-loop.ts`, `approval/engine-action-processor.ts`,
`telegram-processor.ts`, `outbox-poller.ts`), and executions are bounded by timeouts. Weak fairness
of time: leases, reviews and pending approvals that nobody ends run out, and retention runs. In
`TelegramPolling` strong fairness of a request that succeeds with updates, of the storing of an
update and of the move of the cursor: each is tried again and again, and may fail any finite
number of times. In `NodeDispatch` messages on an open socket are delivered, a closed one is
noticed and inserts commit. Faults, operators, cancellations, connections and the callers' own
timers have no fairness: `LocalCallEnds` and `WiredRemoteCallEnds` do not use the timeout. In
`turns`, `channel_inbox` and `channel_outbox` a lease does not lapse under a live executor;
`workflow_run`, `approval_race`, `telegram_polling` and `workboard` let it. In `workflow_run` time
has no fairness beyond `MaxFaults`, which cuts further lapses on executors; an execution ends, or
its worker dies and the lease lapses freely.

## 4. Findings

Disagreements of the code with its documentation or tests, each shown by a violation run (the
quotes are in `PROJECT.json`):

1. A decision applied a second time, because the engine executes the action again (its effect and
   its mark are two statements) or a client presents the token again, puts a step that succeeded
   back to the queue: its side effects are done again (`workflow_replay`).
2. `cancelTurn` deletes the conversation lease whoever holds it, while executors are not
   stopped: the next turn of the conversation executes beside the cancelled one
   (`turns_serialized`).
3. The gateway's bootstrap constructs the backplane's poller without the task result registry, so
   a result relayed to the originating edge is dropped, and a call to a node of another edge ends
   by its timeout only (`node_dispatch_relay`).
4. The first of two parallel tasks ends while the second is leased: the item goes back to `ready`,
   and when the second completes `maybeFinalizeWorkItem` does nothing, since the item is not
   `doing`; nobody completes it later (`workboard_completed`).

**Disagreements without a run.** The modules state these too, as the definitions named here; TLC
finds each violated when it is checked, where constants are given with these values.

| Code | Property | What happens |
|---|---|---|
| `workflow-run/runner-execution.ts:285` | `WorkflowRun.PausedRunHasDecisionAhead` | a second pause of a step for the same kind is tied to the resolved approval of the first; nobody will resume the run |
| `workflow-run/runner-claim.ts:355` | `WorkflowRun.PolicyGatedStepIsApproved` | the policy gate accepts the step's latest approval of any kind |
| `approval/engine-action-dal.ts:248` | `EngineActionQueue.ActionSettles` | an action whose processor dies in the last attempt stays in `processing` |
| `agent/runtime/tool-set-builder-helpers.ts:285` | `ApprovalReview.WaiterReportsOutcome` | an agent that waited reports `expired` for an approval that was approved at the deadline |
| `channels/telegram-queue.ts:141` | `ChannelInbox.SignalsComeFromOthers` | a signal raised after the active turn ended cuts short the turn of its own message |
| `channels/telegram-batch-processor.ts:470` | `ChannelOutbox.RiskySendIsApproved` | chunks are stored before they are gated; a sender of another process may send one in between (`flow-control-delivery.md:74`, "risky sends remain approval-gated") |
| `backplane/outbox-dal.ts:129` | `Backplane.NothingSkipped` | a poll passes the id of an insert that has not committed yet, and never returns to it (Postgres) |
| `channels/telegram-polling-state-dal.ts:98` | `TelegramPolling.NothingForgotten`, with `Settings = {s1, s3}` | after a change of the bot the old worker, of the same owner, stores its cursor between the new one's read, which found no bot yet, and its `markRunning`, which keeps the number: the next offset makes Telegram forget updates of the new bot |
| `channels/telegram-polling-monitor.ts:125` | `TelegramPolling.EveryUpdateHandled`, with `MaxEvents = 2` | an account that leaves polling and comes back with the same settings before the monitor looks has a worker that stopped itself, and the monitor takes it for the one to keep |

## 5. The proofs

All theorems hold for every value of the constants that satisfies the named assumption
of the module (`WorkflowAssumption`, `QueueAssumption`, `ReviewAssumption`, `TurnAssumption`,
`ChannelInboxAssumption`, `OutboxAssumption`, `PollingAssumption`, `BackplaneAssumption`,
`DispatchAssumption`, `WorkAssumption`: numbers are naturals, owner names are distinct from "no
owner", workers are finitely many). The bounds `AttemptBound` and `MaxFaults` are any naturals, so
what is proved of a workflow run holds for every number of faults. One theorem assumes more, in its
statement: `~LeaseMayLapse` in `OneTurn`, the conversation lease outlives the tick that holds it.

| Module | Theorem | States |
|---|---|---|
| `WorkflowRunProofs` | `TypeCorrect`, `FaultSafety`, `TerminalIsFinal`, `ActivityIsBounded` | under every fault: types; lease exactly while running, no open step in a closed run, last step open in a live run; a finished run never changes; executors and open questions are at most one more than the faults |
| | `StrictSafety`, `StepsDoneInOrder`, `SuccessIsComplete`, `BudgetLiftIsApproved`, `SuccessIsFinal` | until the first fault: only the lease holder executes and nothing moves during an open approval; steps in order; success only when all is done; budget lifted only by approval; success of a step never taken back |
| | `RunKeepsPromise` | refinement of `RunPromise`, before and after faults |
| `ApprovalReviewProofs` | `ReviewSafety`, `PromiseKept`, `SettledIsFinal` | the trail and the action agree with the status; refinement of `ApprovalPromise`; a settled action stays settled |
| | `OneReviewerAtATime`, `OverridesFollowApproval`, `SuccessMeansApplied` | one guardian loop reviews at a time; overrides only of an approved approval; an action reported as succeeded was executed |
| `TurnRunnerProofs` | `TurnSafety`, `PausedTurnsResume`, `LateIgnored`, `TerminalIsFinal` | execution is serialized while no cancellation and no lapse takes a lease from an executor; a paused turn has a working token; late outcomes and tokens change nothing |
| `ChannelInboxProofs` | `InboxTypeCorrect`, `NothingLost`, `SettledForGood`, `OneTurn` | types; a message taken in is in the queue or settled; settled once; with `~LeaseMayLapse`, one turn of the conversation at a time |
| `ChannelOutboxProofs` | `GateSafety`, `SendsAreCounted` | types, and a gated chunk is not being sent; a chunk reaches the channel at most once more often than something failed |
| `TelegramPollingProofs` | `PollingTypeCorrect`, `OneBotLosesNothing` | types; an account with one bot, whatever happens to its leases and workers, never has Telegram forget an update that was not handled |
| `NodeDispatchProofs` | `DispatchTypeSafety`, `CursorSafety`, `ReplaySafety`, `AnswerSafety` | types; a cursor passes an unprocessed row only if the row became visible after a higher id; without a fault no row is processed twice, also after a compaction; an answer is the node's, and recorded unless a write failed |
| `WorkItemProofs` | `WorkTypeCorrect`, `OneExecutorAtATime`, `DependenciesComeFirst`, `OverIsFinal` | types, a dead process holds no task; one launch runs a task, after those it depends on, unless it was taken from under an executor; an item that is over stays over |

The invariants that make them inductive:

* `FaultInv`: the three workflow invariants with types and the shape of the plan. It assumes
  nothing about leases and tokens.
* `ActivityInv`: `ActivityNeedsFaults` is not inductive, because a claim or a pause adds an executor
  or a question. `Spare` says when one may: the run is claimable and its holder is not at work on
  the step a claim would pick (`HolderWorks`); then what is going on is at most `faults`. A lapse
  on an executor and a repeated resume make room for one more and pay for it; a lapse on a step
  without attempts left makes none, since whoever takes over can only fail the run. That a decision
  that is applied for the first time takes its own question away rests on `ApprovalShape`.
* `StrictInv`, which holds as long as `faults = 0`: `SucceededRunIsComplete` is not inductive,
  because the step that completes a run does not look at the ones before it; it needs
  `StepsInOrder`, which needs that an executor's step is the one that is running
  (`ExecutorOwnsRun`), which survives a takeover only if the taken-over step has no attempt left.
  Approvals are tied in by `OutstandingBlocks`: an open or unapplied decision is the only one of its
  run, which is paused for it.
* For the refinement, until the first fault: `AnswerRule` is the mapping of the answer without the
  order of its cases; because an outstanding approval is the only one, each step sees just the
  approval it changes. That a claim finds nobody executing is `ClaimExcludesExecution`. After it
  (`VoidedNext`), `ActivityInv` bounds the executors and `LastStepOpen` gives the last step of a
  success; of an ended run only executors change (`EndedNext`).
* `ReviewInv`: a terminal review and an engine action come into being in the transaction
  that decides; `LinkInv` ties the action's kind, attempts and effects to the decision, which the
  refinement mapping (`outcome`, `effect`) rests on.
* `RaceInv`: a loop reviews only what it moved out of the queue, where nothing returns (`OneLoop`); a
  call that still has overrides to create won the race (`AlwaysApproves`); a processor that is about
  to record a success has executed the action (`AppliedFirst`).
* `TurnInv`: an executor that asked for an approval and still has its turn's lease has a
  token that was not used (`AskedHasToken`), because every use of a token clears the turn
  lease; hence a pause that succeeds leaves a token that works. `HolderUndisturbed` says who
  has the conversation lease; `LeaseOfLastClaim` why a late outcome is ignored.
* `ChannelOutboxProofs!OutboxInv`: "at most once more than faults" is not inductive, because what
  was delivered does not say what is still to come. `Bounded` counts a send that is ahead
  (`SendAhead`) and a turn that may store the chunk again (`TurnAhead`) like a delivery; a fault
  pays for the one it brings back. That at most one is ahead rests on the owners of rows
  (`AnswererOwns`, `SenderOwns`, `OneSender`).
* `PollInv`: the lease plays no part in it. The cursor, every offset a worker has read and what
  Telegram was told are all numbers below which everything was handled (`CursorIsBelow`,
  `OffsetIsBelow`, `ConfirmedIsBelow`), a worker's batch is the first of what is left
  (`BatchIsNext`) and its first update is stored before the cursor moves (`FirstIsHandled`). With a
  second bot the offset of one would speak about the updates of the other; hence `OneBot`.
* `InboxInv`: `RowsInv` says of each message where it is: in one row at most, and in none once it is
  settled, so that marking a row settles messages nobody settled before; row ids and places are
  used once, so that the summary of an overflow replaces the rows it covers and nothing else.
  `TickInv` ties a processor's rows to its state, `HolderWorks` the conversation lease to the
  processor at work.
* `NodeDispatchProofs!OutboxInv`: an id belongs to one row (`OneRowPerId`); a row an edge has not
  processed is above its cursor, and in its batch unless the batch is below it
  (`UnprocessedIsAhead`); the row to be acknowledged is processed (`DoneIsProcessed`). Every action
  of `NodeDispatch` is one of eight kinds of steps of the outbox, each a lemma.
* `ReplayInv`: a processed row that is still there is behind the cursor or about to be acknowledged
  (`ProcessedIsDealtWith`). Compaction keeps it, because it forgets the cursor of a consumer
  only together with all rows that were older than its last poll.
* `AnswerInv`: wherever a result is (a frame, a row, a buffer of a registry, a caller) it is the one
  the node gave, and its record was written before it left the receiving edge.
* `HandsInv`: a task in somebody's hands (leased by a dispatcher that lists it, or run by a launch)
  is in one pair of hands (`OnePair`), was not put back and its lease has not lapsed
  (`KeptInHand`), and its dependencies have ended and are in nobody's hands (`DepsSettled`), as long
  as nothing `raced`. `OneExecutor` alone
  says nothing of the launch that is about to begin a turn.

Only model-checked: liveness (`RunSettles`, `ReviewEnds`, `ActionIsRetried`, `TurnSettles`,
`DecidedTurnMovesOn`, `EveryMessageSettles`, `MessageLeaves`, `EveryUpdateHandled`,
`LocalCallEnds`, `WiredRemoteCallEnds`, `WorkSettles`, `SubagentsStop`), which needs fairness and
ENABLED, and what the violation runs show. Every safety property of the passing runs is the
statement of a theorem.

## 6. Not modelled, and the plan

Left out of the modelled parts: approvals of kind `work.intervention`, the pairing half of
the guardian loop, the events that are broadcast after a commit, the cancellation of a turn
whose approved approval carries no token, progress records, list limits, streams; formatting,
typing indicators and delivery receipts of the channels; policy, capabilities and authorization of
a dispatch, the limits of the registry's buffers, the clients that backplane broadcasts are for;
refinement of work items by planners, the gate to `ready`, several items at once (they appear as
refused slots), the state and evidence kept with an item, the janitor of subagents.
Transactions are atomic, as they are on SQLite; on Postgres statements of two claims of runs or
turns may interleave. The execution slot of a work item, whose 60 s are not renewed, is an input.

Not modelled at all, because there is no shared mutable state for a model to say something about:
policy evaluation, formatting and parsing, storage behind interfaces, schemas, user interfaces,
SDKs other than the answering of a node, drivers of devices. They are most of the repository's
lines, which bounds the share of it that models can stand for.

What is left, in this order:

1. The statements of claim, cancel and heartbeat of turns and runs under READ COMMITTED; the
   claim whose leases outlive a lost race (`turn-runner.ts:129`), and two claims of one expired run
   (`runner-claim.ts:246`). Worth proving: no two owners.
2. Workspace leases and concurrency slots, composed with `WorkflowRun` for the lease a CLI step
   keeps after its end.
3. Schedules: several schedulers, one firing per due time. The row of a firing is inserted `ON
   CONFLICT DO NOTHING` and `last_fired_at` updated by a second statement, and every process has
   the same owner name, so the hazards are a crash between the two and leases that exclude nobody.
4. Pairing of nodes as a second client of the guardian protocol; two conversations' signals in
   `WorkItem`; two approvals of one turn.
5. More abstract specifications, with proofs that the components implement them: a turn, in the
   manner of `RunPromise`; a call to a node; a message from its arrival to the last chunk of its
   reply, over `ChannelInbox` and `ChannelOutbox`.
