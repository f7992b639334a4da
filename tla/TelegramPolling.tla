--------------------------- MODULE TelegramPolling ---------------------------
(***************************************************************************)
(* Long polling of one Telegram account (telegram-polling-monitor.ts,      *)
(* -worker.ts, -lease-heartbeat.ts, -state-dal.ts).  Each gateway process  *)
(* has a monitor that runs a worker; the row of the account in             *)
(* telegram_polling_state holds the lease and the cursor.  Telegram hands  *)
(* out the updates of a bot from an offset on and forgets those below it.  *)
(*                                                                         *)
(* Workers of one monitor have its owner name, also the worker that a      *)
(* change of the account's settings replaces and that is still running.    *)
(* A monitor compares settings by their content (accountFingerprint): the  *)
(* worker it has started for them it leaves alone, running or ended.       *)
(***************************************************************************)
EXTENDS Naturals, FiniteSets

CONSTANTS Workers,       \* worker objects
          OwnerOf,       \* the lease owner of each: its process's name
          NoOwner,       \* lease_owner IS NULL
          NoWorker,      \* a monitor without a worker for the account
          Settings,      \* settings the account may be given
          BotOf,         \* the bot of their token; NoBot in webhook mode
          NoBot,         \* also: bot_user_id IS NULL
          Updates,       \* the update_ids of each bot
          MaxEvents      \* bound: changes of the settings, deaths of processes and
                         \* leases that run out under a worker

Owners == {OwnerOf[w] : w \in Workers}
Bots == {BotOf[s] : s \in Settings} \ {NoBot}

ASSUME PollingAssumption ==
    /\ NoOwner \notin Owners
    /\ NoWorker \notin Workers
    /\ \A b \in Bots : Updates[b] \subseteq Nat \ {0}
    /\ MaxEvents \in Nat

VARIABLES
    config,     \* the account's settings
    dead,       \* processes that died; the ones that replace them have other names
    managed,    \* the worker each monitor has for the account
    startedFor, \* the settings a worker was started for
    row,        \* telegram_polling_state
    st,         \* where each worker is in its loop
    stopped,    \* workers that have been stopped
    poll,       \* the locals of each worker's pollOnce
    confirmed,  \* Telegram: updates of a bot below this are forgotten
    handled,    \* updates stored in the inbox or skipped
    events      \* history: how many of those there were

monitorVars == <<dead, managed, startedFor>>
serverVars == <<confirmed, handled>>
vars == <<config, monitorVars, row, st, stopped, poll, serverVars, events>>

InPoll == {"acquired", "loaded", "read", "polling", "batch", "cursor", "empty"}

(* bot: whose updates are polled; seen: bot_user_id as read; offset: the   *)
(* next_update_id read, then the one sent, 0 for none; batch: what is left *)
(* of the updates; lost: the heartbeat has found the lease gone.           *)
AllUpdates == UNION {Updates[b] : b \in Bots}
NoPoll == [bot |-> NoBot, seen |-> NoBot, offset |-> 0, batch |-> {}, lost |-> FALSE]

Init ==
    /\ config \in Settings
    /\ dead = {}
    /\ managed = [o \in Owners |-> NoWorker]
    /\ startedFor = [w \in Workers |-> config]
    /\ row = [owner |-> NoOwner, lapsed |-> FALSE, bot |-> NoBot, next |-> 0]
    /\ st = [w \in Workers |-> "off"]
    /\ stopped = {}
    /\ poll = [w \in Workers |-> NoPoll]
    /\ confirmed = [b \in Bots |-> 0]
    /\ handled = [b \in Bots |-> {}]
    /\ events = 0

Goto(w, s) == st' = [st EXCEPT ![w] = s]
EndPoll(w) == Goto(w, "idle") /\ poll' = [poll EXCEPT ![w] = NoPoll]
Owns(w) == row.owner = OwnerOf[w]
InPolling == BotOf[config] # NoBot

-----------------------------------------------------------------------------
(* The monitor. *)

UpToDate(o) == managed[o] # NoWorker /\ startedFor[managed[o]] = config
Running(o) == {w \in {managed[o]} : w # NoWorker /\ st[w] # "off"}

(* reconcile for polling settings: a new worker, unless there is one for   *)
(* them; the one it replaces is told to stop and not waited for.           *)
Start(w) ==
    LET o == OwnerOf[w] IN
    /\ o \notin dead
    /\ InPolling /\ ~UpToDate(o)
    /\ st[w] = "off" /\ managed[o] # w
    /\ managed' = [managed EXCEPT ![o] = w]
    /\ startedFor' = [startedFor EXCEPT ![w] = config]
    /\ Goto(w, "idle")
    /\ stopped' = stopped \cup Running(o)
    /\ UNCHANGED <<config, dead, row, poll, serverVars, events>>

(* reconcile when the account has left polling. *)
Remove(o) ==
    /\ ~InPolling /\ managed[o] # NoWorker
    /\ stopped' = stopped \cup Running(o)
    /\ managed' = [managed EXCEPT ![o] = NoWorker]
    /\ UNCHANGED <<config, dead, startedFor, row, st, poll, serverVars, events>>

-----------------------------------------------------------------------------
(* The loop of a worker. *)

(* tryAcquire: free, run out, or already this owner's. *)
MayAcquire(w) == row.owner = NoOwner \/ row.lapsed \/ Owns(w)
Acquire(w) ==
    /\ st[w] = "idle" /\ w \notin stopped
    /\ MayAcquire(w)
    /\ row' = [row EXCEPT !.owner = OwnerOf[w], !.lapsed = FALSE]
    /\ Goto(w, "acquired")
    /\ UNCHANGED <<config, monitorVars, stopped, poll, serverVars, events>>

(* The account's token decides which bot is polled; a worker whose account *)
(* has left polling stops itself.                                          *)
LoadAccount(w) ==
    /\ st[w] = "acquired"
    /\ IF InPolling
       THEN /\ Goto(w, "loaded")
            /\ poll' = [poll EXCEPT ![w].bot = BotOf[config]]
            /\ UNCHANGED stopped
       ELSE EndPoll(w) /\ stopped' = stopped \cup {w}
    /\ UNCHANGED <<config, monitorVars, row, serverVars, events>>

ReadState(w) ==
    /\ st[w] = "loaded"
    /\ poll' = [poll EXCEPT ![w].seen = row.bot, ![w].offset = row.next]
    /\ Goto(w, "read")
    /\ UNCHANGED <<config, monitorVars, row, stopped, serverVars, events>>

(* resetCursorForBot when the bot is another, else markRunning. *)
IsOtherBot(w) == poll[w].seen \notin {NoBot, poll[w].bot}
Marked(w) == IF ~Owns(w) THEN row
             ELSE IF IsOtherBot(w) THEN [row EXCEPT !.bot = poll[w].bot, !.next = 0]
             ELSE [row EXCEPT !.bot = poll[w].bot]
MarkPolling(w) ==
    /\ st[w] = "read"
    /\ row' = Marked(w)
    /\ IF poll[w].lost
       THEN EndPoll(w)
       ELSE /\ Goto(w, "polling")
            /\ poll' = [poll EXCEPT ![w].offset = IF IsOtherBot(w) THEN 0 ELSE @,
                                    ![w].seen = NoBot]
    /\ UNCHANGED <<config, monitorVars, stopped, serverVars, events>>

(* getUpdates: Telegram forgets what is below the offset and answers with  *)
(* the first of the other updates that have arrived, at most `limit`.      *)
Remembered(w) ==
    {u \in Updates[poll[w].bot] : u >= poll[w].offset /\ u >= confirmed[poll[w].bot]}
FirstOf(s, of) == \A u \in s, v \in of : v < u => v \in s
Confirms(w) ==
    confirmed' = [confirmed EXCEPT ![poll[w].bot] = IF @ < poll[w].offset THEN poll[w].offset ELSE @]
Poll(w, answer) ==
    /\ st[w] = "polling"
    /\ answer \subseteq Remembered(w) /\ FirstOf(answer, Remembered(w))
    /\ Confirms(w)
    /\ IF poll[w].lost
       THEN EndPoll(w)
       ELSE /\ Goto(w, IF answer = {} THEN "empty" ELSE "batch")
            /\ poll' = [poll EXCEPT ![w].batch = answer]
    /\ UNCHANGED <<config, monitorVars, row, stopped, handled, events>>

(* The answer is lost, or a stop or the lost lease aborts the request,     *)
(* which may have reached Telegram.                                        *)
PollFails(w) ==
    /\ st[w] = "polling"
    /\ Confirms(w) \/ UNCHANGED confirmed
    /\ EndPoll(w)
    /\ UNCHANGED <<config, monitorVars, row, stopped, handled, events>>

(* No updates: markRunning once more. *)
EmptyPoll(w) ==
    /\ st[w] = "empty"
    /\ row' = IF Owns(w) THEN [row EXCEPT !.bot = poll[w].bot] ELSE row
    /\ EndPoll(w)
    /\ UNCHANGED <<config, monitorVars, stopped, serverVars, events>>

(* Each update in turn is stored (telegram-inbound.ts) or, when it cannot  *)
(* be normalized, skipped; a stop does not cut the batch short.            *)
First(w) == CHOOSE u \in poll[w].batch : \A v \in poll[w].batch : u <= v
Handle(w) ==
    /\ st[w] = "batch"
    /\ ~poll[w].lost /\ InPolling
    /\ handled' = [handled EXCEPT ![poll[w].bot] = @ \cup {First(w)}]
    /\ Goto(w, "cursor")
    /\ UNCHANGED <<config, monitorVars, row, stopped, poll, confirmed, events>>

(* Mutants: the cursor moves to the end of the batch; it does not move. *)
Last(w) == CHOOSE u \in poll[w].batch : \A v \in poll[w].batch : u >= v
CursorAfterBatch(w) == [row EXCEPT !.bot = poll[w].bot, !.next = Last(w) + 1]
CursorUnmoved(w) == [row EXCEPT !.bot = poll[w].bot, !.next = poll[w].offset]

(* updateCursor. *)
CursorAfter(w) == [row EXCEPT !.bot = poll[w].bot, !.next = First(w) + 1]
MoveCursor(w) ==
    /\ st[w] = "cursor"
    /\ ~poll[w].lost
    /\ row' = IF Owns(w) THEN CursorAfter(w) ELSE row
    /\ IF poll[w].batch = {First(w)}
       THEN EndPoll(w)
       ELSE Goto(w, "batch") /\ poll' = [poll EXCEPT ![w].batch = @ \ {First(w)}]
    /\ UNCHANGED <<config, monitorVars, stopped, serverVars, events>>

(* The lease was lost, the update or the cursor could not be stored, or    *)
(* the account left polling: the rest of the batch is left to a later poll.*)
GiveUp(w) ==
    /\ st[w] \in {"batch", "cursor"}
    /\ EndPoll(w)
    /\ stopped' = IF st[w] = "batch" /\ ~poll[w].lost /\ ~InPolling
                  THEN stopped \cup {w} ELSE stopped
    /\ UNCHANGED <<config, monitorVars, row, serverVars, events>>

(* The loop ends: release, whoever of the same owner goes on polling. *)
Release(w) ==
    /\ st[w] = "idle" /\ w \in stopped
    /\ row' = IF Owns(w) THEN [row EXCEPT !.owner = NoOwner, !.lapsed = FALSE] ELSE row
    /\ Goto(w, "off")
    /\ stopped' = stopped \ {w}
    /\ UNCHANGED <<config, monitorVars, poll, serverVars, events>>

(* The heartbeat of a poll renews the lease, run out or not, or finds that *)
(* it is not this owner's.                                                 *)
Heartbeat(w) ==
    /\ st[w] \in InPoll /\ ~poll[w].lost
    /\ IF Owns(w)
       THEN row.lapsed /\ row' = [row EXCEPT !.lapsed = FALSE] /\ UNCHANGED poll
       ELSE poll' = [poll EXCEPT ![w].lost = TRUE] /\ UNCHANGED row
    /\ UNCHANGED <<config, monitorVars, st, stopped, serverVars, events>>

-----------------------------------------------------------------------------
(* The operator, faults, time. *)

OneMoreEvent == events < MaxEvents /\ events' = events + 1

ChangeAccount ==
    /\ OneMoreEvent
    /\ config' \in Settings \ {config}
    /\ UNCHANGED <<monitorVars, row, st, stopped, poll, serverVars>>

(* A process dies with its monitor and workers, but never the last one. *)
Crash(o) ==
    /\ Owners \ dead # {o} /\ o \notin dead
    /\ OneMoreEvent
    /\ dead' = dead \cup {o}
    /\ managed' = [managed EXCEPT ![o] = NoWorker]
    /\ st' = [w \in Workers |-> IF OwnerOf[w] = o THEN "off" ELSE st[w]]
    /\ poll' = [w \in Workers |-> IF OwnerOf[w] = o THEN NoPoll ELSE poll[w]]
    /\ stopped' = {w \in stopped : OwnerOf[w] # o}
    /\ UNCHANGED <<config, startedFor, row, serverVars>>

(* The lease runs out: its holder is gone, or renews it too late. *)
HasLiveHolder == \E w \in Workers : Owns(w) /\ st[w] # "off"
RunsOut ==
    /\ row.owner # NoOwner /\ ~row.lapsed
    /\ row' = [row EXCEPT !.lapsed = TRUE]
    /\ UNCHANGED <<config, monitorVars, st, stopped, poll, serverVars>>
Expire == ~HasLiveHolder /\ RunsOut /\ UNCHANGED events
Lapse == HasLiveHolder /\ RunsOut /\ OneMoreEvent

Work(w) == \/ Acquire(w) \/ LoadAccount(w) \/ ReadState(w) \/ MarkPolling(w)
           \/ (\E answer \in SUBSET AllUpdates : Poll(w, answer))
           \/ PollFails(w) \/ EmptyPoll(w) \/ Handle(w) \/ MoveCursor(w)
           \/ GiveUp(w) \/ Release(w) \/ Heartbeat(w)

Next == \/ \E w \in Workers : Start(w) \/ Work(w)
        \/ \E o \in Owners : Remove(o) \/ Crash(o)
        \/ ChangeAccount \/ Expire \/ Lapse

Spec == Init /\ [][Next]_vars

PollSome(w) == \E answer \in SUBSET AllUpdates : answer # {} /\ Poll(w, answer)

(* A monitor reconciles and a worker loops for ever; Telegram answers in   *)
(* the end, and an update that is tried again and again is stored.         *)
Fairness ==
    /\ \A o \in Owners : WF_vars(Remove(o)) /\ WF_vars(\E w \in Workers : OwnerOf[w] = o /\ Start(w))
    /\ \A w \in Workers :
         /\ WF_vars(Acquire(w) \/ LoadAccount(w) \/ ReadState(w) \/ MarkPolling(w)
                    \/ EmptyPoll(w) \/ GiveUp(w) \/ Release(w))
         /\ SF_vars(PollSome(w)) /\ SF_vars(Handle(w)) /\ SF_vars(MoveCursor(w))
    /\ WF_vars(Expire)

FairSpec == Spec /\ Fairness

-----------------------------------------------------------------------------
(* Properties. *)

IdSets == SUBSET Nat
RowType == [owner : Owners \cup {NoOwner}, lapsed : BOOLEAN, bot : Bots \cup {NoBot}, next : Nat]
PollType == [bot : Bots \cup {NoBot}, seen : Bots \cup {NoBot}, offset : Nat,
             batch : IdSets, lost : BOOLEAN]

TypeOK ==
    /\ config \in Settings
    /\ dead \subseteq Owners
    /\ managed \in [Owners -> Workers \cup {NoWorker}]
    /\ startedFor \in [Workers -> Settings]
    /\ row \in RowType
    /\ st \in [Workers -> InPoll \cup {"off", "idle"}]
    /\ stopped \subseteq Workers
    /\ poll \in [Workers -> PollType]
    /\ confirmed \in [Bots -> Nat]
    /\ handled \in [Bots -> IdSets]
    /\ events \in Nat

(* What Telegram forgets has been stored or skipped: however leases run    *)
(* out, workers are replaced and die, no offset is sent that is beyond an  *)
(* update nobody handled (updateCursor after, never before, the enqueue).  *)
(* For an account that keeps its bot; when its bot is changed it may fail  *)
(* (README, section 4).                                                    *)
NothingForgotten ==
    \A b \in Bots : \A u \in Updates[b] : u < confirmed[b] => u \in handled[b]

(* An account that stays with a bot gets every update of the bot.  For     *)
(* settings that do not come back after a while away from polling: then it *)
(* may fail (README, section 4).                                           *)
EveryUpdateHandled ==
    \A b \in Bots : <>[](BotOf[config] = b) => <>(Updates[b] \subseteq handled[b])
=============================================================================
