----------------------------- MODULE NodeDispatch -----------------------------
(***************************************************************************)
(* Running an action on a paired node: a caller on one edge dispatches a   *)
(* task to the node's connection, there or on another edge over the        *)
(* backplane, and waits for the result (ws/protocol/dispatch.ts,           *)
(* response-handlers.ts, runtime-execution/task-result-registry.ts,        *)
(* runtime-node-control/node-dispatch-service.ts).  One node; its client   *)
(* reconnects with a new connection id and answers a repeated request from *)
(* its cache (transport-sdk/ws-client.protocol.ts).                        *)
(*                                                                         *)
(* Each action is one database statement with the synchronous code that    *)
(* follows it, or one socket message.                                      *)
(***************************************************************************)
EXTENDS Backplane

CONSTANTS Tasks,     \* calls of dispatchAndWait
          Callers,   \* the edges they are made on
          Conns,     \* connection ids of the node
          NoEdge, NoConn,
          Wirings    \* whether an edge's poller is given its TaskResultRegistry

ASSUME DispatchAssumption ==
    /\ Callers \subseteq Edges /\ Wirings \subseteq BOOLEAN
    /\ NoConn \notin Conns /\ NoEdge \notin Edges

VARIABLES
    wired,    \* OutboxPollerOptions.taskResults is set
    conn,     \* each connection as its edge's ConnectionManager has it
    socket,   \* the node's open socket
    caller,   \* each call: where it is, on which edge, to which connection
    record,   \* dispatch_records.status
    registry, \* each edge's TaskResultRegistry
    route,    \* each edge's cluster task result routes
    sent,     \* task.execute requests on the node's socket
    node,     \* what the node's client knows of each request
    replies,  \* task.execute responses on their way to an edge
    handling  \* responses an edge has recorded and not passed on

dispatchVars == <<wired, conn, socket, caller, record, registry, route,
                  sent, node, replies, handling>>
vars == <<outboxVars, dispatchVars>>

Outcomes == {"ok", "error"}
Ended == Outcomes \cup {"disconnected", "timeout", "lost"}

Init ==
    /\ BackplaneInit
    /\ wired \in Wirings
    /\ conn = [c \in Conns |-> [st |-> "new", edge |-> NoEdge]]
    /\ socket = NoConn
    /\ caller = [t \in Tasks |-> [st |-> "idle", edge |-> NoEdge, conn |-> NoConn]]
    /\ record = [t \in Tasks |-> "none"]
    /\ registry = [e \in Edges |-> [t \in Tasks |-> [st |-> "none", conn |-> NoConn]]]
    /\ route = [e \in Edges |-> {}]
    /\ sent = {} /\ replies = {} /\ handling = {}
    /\ node = [t \in Tasks |-> "none"]

-----------------------------------------------------------------------------
(* TaskResultRegistry.  An entry's st is "none", "pending" (someone waits), *)
(* an outcome (buffered until someone does), "failed" (preWaitErrors) or   *)
(* "terminal"; its conn is connectionByTask.                               *)

Over == [st |-> "terminal", conn |-> NoConn]
(* Mutants: a connection is remembered, an answer kept, only for a waiter that is there. *)
AssociatedIfWaiting(x, c) == IF x.st = "pending" THEN [x EXCEPT !.conn = c] ELSE x
Associated(x, c) == IF x.st \in {"failed", "terminal"} THEN x ELSE [x EXCEPT !.conn = c]
ResolvedIfWaiting(x, out) == IF x.st = "pending" THEN Over ELSE x
Resolved(x, out) == CASE x.st = "pending" -> Over
                      [] x.st = "none" -> [st |-> out, conn |-> NoConn]
                      [] OTHER -> x
Disconnected(x) == CASE x.st = "pending" -> Over
                     [] x.st = "none" -> [st |-> "failed", conn |-> NoConn]
                     [] OTHER -> [x EXCEPT !.conn = NoConn]
Waited(x) == IF x.st = "none" THEN [x EXCEPT !.st = "pending"] ELSE Over

(* What a caller that starts to wait meets. *)
Meets(x) == CASE x.st \in Outcomes -> x.st
              [] x.st = "failed" -> "disconnected"
              [] OTHER -> "waiting"

(* resolve(t, out) on edge e. *)
WaitsAt(e, t) == caller[t].edge = e /\ caller[t].st = "waiting"
Resolve(e, t, out) ==
    /\ registry' = [registry EXCEPT ![e][t] = Resolved(@, out)]
    /\ caller' = IF registry[e][t].st = "pending" /\ WaitsAt(e, t)
                 THEN [caller EXCEPT ![t].st = out] ELSE caller

-----------------------------------------------------------------------------
(* Connections. *)

Open(c, e) == conn[c] = [st |-> "open", edge |-> e]

Connect(c, e) ==
    /\ e \in live /\ socket = NoConn /\ conn[c].st = "new"
    /\ conn' = [conn EXCEPT ![c] = [st |-> "open", edge |-> e]]
    /\ socket' = c
    /\ UNCHANGED <<outboxVars, wired, caller, record, registry, route, sent, node, replies,
                   handling>>

(* The node loses its socket; the edge learns of it later. *)
Break ==
    /\ socket # NoConn
    /\ Spends
    /\ socket' = NoConn
    /\ sent' = {}
    /\ UNCHANGED <<live, nextId, writing, rows, pollerVars, overtaken, faults, wired, conn, caller,
                   record, registry, route, node, replies, handling>>

(* handleConnectedClose, after what the socket still carried was read or   *)
(* lost: rejectAllForConnection, removeClient, removeConnection.           *)
TasksOf(e, c) == {t \in Tasks : registry[e][t].conn = c}
CloseSeen(c) ==
    LET e == conn[c].edge
    IN /\ conn[c].st = "open" /\ socket # c
       /\ conn' = [conn EXCEPT ![c].st = "closed"]
       /\ registry' = [registry EXCEPT ![e] = [t \in Tasks |->
                         IF t \in TasksOf(e, c) THEN Disconnected(@[t]) ELSE @[t]]]
       /\ caller' = [t \in Tasks |->
                       IF t \in TasksOf(e, c) /\ WaitsAt(e, t)
                       THEN [caller[t] EXCEPT !.st = "disconnected"] ELSE caller[t]]
       /\ replies' = {m \in replies : m.conn # c}
       /\ UNCHANGED <<outboxVars, wired, socket, record, route, sent, node, handling>>

Crash(e) ==
    /\ Stops(e)
    /\ conn' = [c \in Conns |-> IF Open(c, e) THEN [conn[c] EXCEPT !.st = "closed"] ELSE conn[c]]
    /\ IF socket # NoConn /\ conn[socket].edge = e
       THEN socket' = NoConn /\ sent' = {} ELSE UNCHANGED <<socket, sent>>
    /\ replies' = {m \in replies : conn[m.conn].edge # e}
    /\ handling' = {h \in handling : h.edge # e}
    /\ caller' = [t \in Tasks |-> IF caller[t].edge = e /\ caller[t].st \notin Ended
                                  THEN [caller[t] EXCEPT !.st = "lost"] ELSE caller[t]]
    /\ registry' = [registry EXCEPT ![e] = [t \in Tasks |-> [st |-> "none", conn |-> NoConn]]]
    /\ route' = [route EXCEPT ![e] = {}]
    /\ UNCHANGED <<wired, record, node>>

-----------------------------------------------------------------------------
(* Dispatching. *)

Local(t) == caller[t].conn # NoConn /\ conn[caller[t].conn].edge = caller[t].edge

(* dispatchTask: a connection of this edge, or else one the directory      *)
(* lists for another, whose row outlives a crashed edge or a failed delete *)
(* by its ttl; prepareDispatch inserts the record.                         *)
Listed(c) == conn[c].st # "new"
MayTarget(c, e) ==
    \/ Open(c, e)
    \/ Listed(c) /\ conn[c].edge # e /\ \A d \in Conns : ~Open(d, e)
Dispatch(t, e, c) ==
    /\ caller[t].st = "idle" /\ e \in live \cap Callers
    /\ MayTarget(c, e)
    /\ caller' = [caller EXCEPT ![t] = [st |-> "chosen", edge |-> e, conn |-> c]]
    /\ record' = [record EXCEPT ![t] = "dispatched"]
    /\ UNCHANGED <<outboxVars, wired, conn, socket, registry, route, sent, node, replies,
                   handling>>

(* A socket that is closed by now drops the message. *)
OnSocket(t, c) == IF socket = c THEN {[task |-> t, conn |-> c]} ELSE {}

SendLocal(t) ==
    LET e == caller[t].edge
        c == caller[t].conn
        x == Associated(registry[e][t], c)
    IN /\ caller[t].st = "chosen" /\ Local(t)
       /\ sent' = sent \cup OnSocket(t, c)
       /\ registry' = [registry EXCEPT ![e][t] = Waited(x)]
       /\ caller' = [caller EXCEPT ![t].st = Meets(x)]
       /\ UNCHANGED <<outboxVars, wired, conn, socket, record, route, node, replies,
                      handling>>

SendRemote(t) ==
    LET c == caller[t].conn
    IN /\ caller[t].st = "chosen" /\ ~Local(t)
       /\ Put(caller[t].edge, conn[c].edge, [kind |-> "execute", task |-> t, conn |-> c, out |-> "none"])
       /\ caller' = [caller EXCEPT ![t].st = "sending"]
       /\ UNCHANGED <<live, rows, pollerVars, overtaken, faults, extra, wired, conn, socket,
                      record, registry, route, sent, node, replies, handling>>

(* The insert has returned: registry.wait. *)
Inserted(t) == \A r \in writing : r.body.kind # "execute" \/ r.body.task # t
StartWait(t) ==
    LET e == caller[t].edge
        x == registry[e][t]
    IN /\ caller[t].st = "sending" /\ Inserted(t)
       /\ registry' = [registry EXCEPT ![e][t] = Waited(x)]
       /\ caller' = [caller EXCEPT ![t].st = Meets(x)]
       /\ UNCHANGED <<outboxVars, wired, conn, socket, record, route, sent, node, replies,
                      handling>>

Timeout(t) ==
    /\ caller[t].st = "waiting"
    /\ registry' = [registry EXCEPT ![caller[t].edge][t] = Over]
    /\ caller' = [caller EXCEPT ![t].st = "timeout"]
    /\ UNCHANGED <<outboxVars, wired, conn, socket, record, route, sent, node, replies,
                   handling>>

-----------------------------------------------------------------------------
(* The node's client: a request in flight is not started again, and a      *)
(* finished one is answered from the cache.                                *)

Answer(t, out) == IF socket = NoConn THEN {} ELSE {[task |-> t, conn |-> socket, out |-> out]}

Receive(m) ==
    /\ m \in sent
    /\ sent' = sent \ {m}
    /\ node' = IF node[m.task] = "none" THEN [node EXCEPT ![m.task] = "busy"] ELSE node
    /\ replies' = IF node[m.task] \in Outcomes
                  THEN replies \cup Answer(m.task, node[m.task]) ELSE replies
    /\ UNCHANGED <<outboxVars, wired, conn, socket, caller, record, registry, route,
                   handling>>

Finish(t, out) ==
    /\ node[t] = "busy"
    /\ node' = [node EXCEPT ![t] = out]
    /\ replies' = replies \cup Answer(t, out)
    /\ UNCHANGED <<outboxVars, wired, conn, socket, caller, record, registry, route, sent,
                   handling>>

-----------------------------------------------------------------------------
(* handleTaskExecuteResponse: refuse an unexpected connection; complete    *)
(* the dispatch record (a failed write is logged); relay to the origin     *)
(* edge if a route is known, or resolve here.                              *)

Expected(e, m) == registry[e][m.task].conn \in {NoConn, m.conn}
(* Mutant: only an answer that ends here is recorded. *)
CompletedIfLocal(e, m) == IF m.task \in route[e] THEN record ELSE [record EXCEPT ![m.task] = m.out]
Completed(e, m) == [record EXCEPT ![m.task] = m.out]

Reply(e, m) ==
    /\ m \in replies /\ Open(m.conn, e)
    /\ Expected(e, m)
    /\ replies' = replies \ {m}
    /\ handling' = handling \cup {[edge |-> e, task |-> m.task, out |-> m.out]}
    /\ \/ record' = Completed(e, m) /\ UNCHANGED outboxVars
       \/ /\ Fails
          /\ UNCHANGED <<record, live, nextId, writing, rows, pollerVars, overtaken>>
    /\ UNCHANGED <<wired, conn, socket, caller, registry, route, sent, node>>

Refuse(e, m) ==
    /\ m \in replies /\ Open(m.conn, e)
    /\ ~Expected(e, m)
    /\ replies' = replies \ {m}
    /\ UNCHANGED <<outboxVars, wired, conn, socket, caller, record, registry, route, sent,
                   node, handling>>

Relay(h) ==
    /\ h \in handling /\ h.task \in route[h.edge]
    /\ Put(h.edge, caller[h.task].edge,
           [kind |-> "relay", task |-> h.task, conn |-> NoConn, out |-> h.out])
    /\ handling' = handling \ {h}
    /\ route' = [route EXCEPT ![h.edge] = @ \ {h.task}]
    /\ UNCHANGED <<live, rows, pollerVars, overtaken, faults, extra, wired, conn, socket, caller,
                   record, registry, sent, node, replies>>

(* The route is kept for a second response. *)
RelayFails(h) ==
    /\ h \in handling /\ h.task \in route[h.edge]
    /\ Fails
    /\ handling' = handling \ {h}
    /\ UNCHANGED <<live, nextId, writing, rows, pollerVars, overtaken, wired, conn, socket,
                   caller, record, registry, route, sent, node, replies>>

ResolveHere(h) ==
    /\ h \in handling /\ h.task \notin route[h.edge]
    /\ Resolve(h.edge, h.task, h.out)
    /\ handling' = handling \ {h}
    /\ UNCHANGED <<outboxVars, wired, conn, socket, record, route, sent, node, replies>>

-----------------------------------------------------------------------------
(* processRow of the poller. *)

(* ws.direct: to a connection this edge has; with a registry, the task is  *)
(* tied to the connection.                                                 *)
ProcessExecute(e, r) ==
    LET t == r.body.task
        c == r.body.conn
    IN /\ Processes(e, r) /\ r.body.kind = "execute"
       /\ IF Open(c, e)
          THEN /\ registry' = IF wired THEN [registry EXCEPT ![e][t] = Associated(@, c)] ELSE registry
               /\ route' = [route EXCEPT ![e] = @ \cup {t}]
               /\ sent' = sent \cup OnSocket(t, c)
          ELSE UNCHANGED <<registry, route, sent>>
       /\ UNCHANGED <<wired, conn, socket, caller, record, node, replies, handling>>

(* ws.cluster.task_result: taskResults?.resolve. *)
ProcessRelay(e, r) ==
    /\ Processes(e, r) /\ r.body.kind = "relay"
    /\ IF wired THEN Resolve(e, r.body.task, r.body.out) ELSE UNCHANGED <<registry, caller>>
    /\ UNCHANGED <<wired, conn, socket, record, route, sent, node, replies, handling>>

(* ws.broadcast: to this edge's clients, which are not modelled. *)
ProcessEvent(e, r) ==
    /\ Processes(e, r) /\ r.body.kind = "event"
    /\ UNCHANGED dispatchVars

Broadcast(e) ==
    /\ e \in live
    /\ Spends
    /\ Put(e, Everyone, [kind |-> "event", task |-> NoConn, conn |-> NoConn, out |-> "none"])
    /\ UNCHANGED <<live, rows, pollerVars, overtaken, faults, dispatchVars>>

OutboxStep(A) == A /\ UNCHANGED dispatchVars

Next ==
    \/ \E c \in Conns, e \in Edges : Connect(c, e)
    \/ Break
    \/ \E c \in Conns : CloseSeen(c)
    \/ \E e \in Edges : Crash(e) \/ Broadcast(e)
    \/ \E t \in Tasks, e \in Edges, c \in Conns : Dispatch(t, e, c)
    \/ \E t \in Tasks : SendLocal(t) \/ SendRemote(t) \/ StartWait(t) \/ Timeout(t)
    \/ \E t \in Tasks, out \in Outcomes : Finish(t, out)
    \/ \E m \in sent : Receive(m)
    \/ \E e \in Edges, m \in replies : Reply(e, m) \/ Refuse(e, m)
    \/ \E h \in handling : Relay(h) \/ RelayFails(h) \/ ResolveHere(h)
    \/ \E e \in Edges : \E r \in batch[e] :
          ProcessExecute(e, r) \/ ProcessRelay(e, r) \/ ProcessEvent(e, r)
    \/ \E e \in Edges : OutboxStep(Poll(e)) \/ OutboxStep(AckFails(e))
    \/ \E e \in Edges : \E r \in batch[e] : OutboxStep(Ack(e, r))
    \/ \E r \in writing : OutboxStep(Commit(r)) \/ OutboxStep(Rollback(r))
    \/ \E cutoff \in 2..nextId, late \in BOOLEAN : OutboxStep(Prune(cutoff, late))

Spec == Init /\ [][Next]_vars

(* Handlers run, inserts commit, the poller's timer ticks, sockets deliver *)
(* and closed ones are noticed, and the node finishes what it started.     *)
(* Nothing makes a connection, a fault, a timeout or a prune happen.       *)
Moves(e) ==
    \/ OutboxStep(Poll(e))
    \/ \E r \in batch[e] :
          ProcessExecute(e, r) \/ ProcessRelay(e, r) \/ ProcessEvent(e, r) \/ OutboxStep(Ack(e, r))
FairSpec ==
    /\ Spec
    /\ \A e \in Edges : WF_vars(Moves(e))
    /\ \A t \in Tasks :
         /\ WF_vars(SendLocal(t) \/ SendRemote(t) \/ StartWait(t))
         /\ WF_vars(\E m \in sent : m.task = t /\ Receive(m))
         /\ WF_vars(\E out \in Outcomes : Finish(t, out))
         /\ WF_vars(\E e \in Edges, m \in replies : m.task = t /\ (Reply(e, m) \/ Refuse(e, m)))
         /\ WF_vars(\E h \in handling : h.task = t /\ (Relay(h) \/ ResolveHere(h)))
    /\ \A c \in Conns : WF_vars(CloseSeen(c))
    /\ WF_vars(\E r \in writing : OutboxStep(Commit(r)))

-----------------------------------------------------------------------------
TypeOK ==
    /\ BackplaneTypeOK
    /\ wired \in BOOLEAN
    /\ conn \in [Conns -> [st : {"new", "open", "closed"}, edge : Edges \cup {NoEdge}]]
    /\ socket \in Conns \cup {NoConn}
    /\ caller \in [Tasks -> [st : Ended \cup {"idle", "chosen", "sending", "waiting"},
                             edge : Edges \cup {NoEdge}, conn : Conns \cup {NoConn}]]
    /\ record \in [Tasks -> Outcomes \cup {"none", "dispatched"}]
    /\ registry \in [Edges -> [Tasks ->
                       [st : Outcomes \cup {"none", "pending", "failed", "terminal"},
                        conn : Conns \cup {NoConn}]]]
    /\ route \in [Edges -> SUBSET Tasks]
    /\ node \in [Tasks -> Outcomes \cup {"none", "busy"}]

(* A result a caller gets, here or through the backplane, is the node's    *)
(* for this task, and unless a write failed the dispatch record has it too *)
(* (completeByTaskId comes before the relay and before resolve).           *)
AnswerIsRecorded ==
    \A t \in Tasks : caller[t].st \in Outcomes =>
        /\ node[t] = caller[t].st
        /\ faults = 0 => record[t] = caller[t].st

(* A call to a node of this edge ends without its timer: by the result, or *)
(* by the connection's close (rejectAllForConnection).                     *)
LocalCallEnds ==
    \A t \in Tasks :
        (caller[t].st = "waiting" /\ Local(t) /\ conn[caller[t].conn].st = "open")
            ~> (caller[t].st \in Ended)

(* So does a call to a node of another edge while nothing fails: the task  *)
(* is relayed there and its result back (outbox-poller.ts processRow,      *)
(* response-handlers.ts).                                                  *)
Disturbed(t) == faults > 0 \/ overtaken # {} \/ socket # caller[t].conn
RemoteCallEnds ==
    \A t \in Tasks : (caller[t].st = "sending") ~> (caller[t].st \in Ended \/ Disturbed(t))

(* The same where the poller is given the registry, which the gateway's    *)
(* bootstrap does not do (outbox-poller.ts taskResults?).                  *)
WiredRemoteCallEnds ==
    \A t \in Tasks :
        (wired /\ caller[t].st = "sending") ~> (caller[t].st \in Ended \/ Disturbed(t))
=============================================================================
