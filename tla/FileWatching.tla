----------------------------- MODULE FileWatching -----------------------------
(***************************************************************************)
(* File watching from end to end: frontends that ask for watchers over      *)
(* connections that break, the backend process that keeps what each         *)
(* connection has asked for, and the watcher service behind it.             *)
(*                                                                         *)
(* A session is what the backend makes for one connection of a frontend: a  *)
(* FileSystemProviderServer with its DiskFileSystemProvider and its         *)
(* FileSystemWatcherServerClient, whose client id is the session's number.  *)
(*                                                                         *)
(* Sources: packages/filesystem/src/common/remote-file-system-provider.ts,  *)
(* node/disk-file-system-provider.ts, node/filesystem-watcher-client.ts,    *)
(* node/filesystem-watcher-dispatcher.ts, node/filesystem-backend-module.ts *)
(* and packages/core/src/common/messaging/proxy-factory.ts                  *)
(***************************************************************************)
EXTENDS WatcherService

CONSTANTS
    Frontends,
    MaxRequests  \* bound: watchers a frontend asks for

Sessions == Clients
Ids == 1 .. MaxRequests

ASSUME SessionAssumption ==
    /\ MaxRequests \in Nat
    /\ Clients = 1 .. Cardinality(Clients)
    /\ Calls = [session : Clients, id : Ids]

VARIABLES
    made,        \* watcherSequence of each frontend
    wanted,      \* watchOptions: the watchers a frontend has asked for
    link,        \* the session a frontend is connected to, or 0
    waiting,     \* calls that wait for the connectionPromise of a frontend
    owner,       \* the frontends of the sessions so far
    open,        \* sessions the backend has not closed
    up,          \* calls on their way from the frontend to a session
    grants,      \* what a session knows of the watchers it was asked for
    toService,   \* calls on their way to the watcher service
    seen,        \* history: the file changes each open session was told
    told         \* history: the watchers whose failure each open session was told

frontend == <<made, wanted, link, waiting>>
backend == <<owner, open, up, grants, toService, seen, told>>
vars == <<service, frontend, backend>>

NoGrant == [at |-> "none", watcherId |-> 0]

-----------------------------------------------------------------------------
(* The frontend: RemoteFileSystemProvider behind a JsonRpcProxyFactory. *)

\* A call waits for the connection; what is sent to a session that is closed is lost.
Call(f, call) ==
    /\ waiting' = IF link[f] = 0 THEN [waiting EXCEPT ![f] = Append(@, call)] ELSE waiting
    /\ up' = IF link[f] \in open THEN [up EXCEPT ![link[f]] = Append(@, call)] ELSE up

FrontWatch(f) ==
    /\ made[f] < MaxRequests
    /\ made' = [made EXCEPT ![f] = @ + 1]
    /\ wanted' = [wanted EXCEPT ![f] = @ \cup {made'[f]}]
    /\ Call(f, [type |-> "watch", id |-> made'[f]])
    /\ UNCHANGED <<service, link, owner, open, grants, toService, seen, told>>

FrontUnwatch(f, id) ==
    /\ id \in wanted[f]
    /\ wanted' = [wanted EXCEPT ![f] = @ \ {id}]
    /\ Call(f, [type |-> "unwatch", id |-> id])
    /\ UNCHANGED <<service, made, link, owner, open, grants, toService, seen, told>>

\* The members of a set, one after the other: the order does not matter where this is used.
Orders(S) == {order \in [1 .. Cardinality(S) -> S] : \A i, j \in DOMAIN order : order[i] = order[j] => i = j}

\* Faulty: a frontend that reconnects does not ask again.
ReconnectedNever(f) == {}

\* reconnect: every watcher is asked for again, but not on the first connection.
Reconnected(f) == IF \E s \in DOMAIN owner : owner[s] = f THEN wanted[f] ELSE {}

\* listen: the connection is there. Calls that waited for it go first.
Connect(f) ==
    /\ link[f] = 0
    /\ Len(owner) < Cardinality(Sessions)
    /\ LET s == Len(owner) + 1
       IN  /\ owner' = Append(owner, f)
           /\ open' = open \cup {s}
           /\ link' = [link EXCEPT ![f] = s]
           /\ \E order \in Orders(Reconnected(f)) :
                 up' = [up EXCEPT ![s] = waiting[f] \o
                           [i \in DOMAIN order |-> [type |-> "watch", id |-> order[i]]]]
    /\ waiting' = [waiting EXCEPT ![f] = <<>>]
    /\ UNCHANGED <<service, made, wanted, grants, toService, seen, told>>

\* The frontend notices that the connection is lost: waitForConnection.
Lose(f) ==
    /\ link[f] # 0
    /\ link' = [link EXCEPT ![f] = 0]
    /\ UNCHANGED <<service, made, wanted, waiting, backend>>

-----------------------------------------------------------------------------
(* The backend process. *)

\* Faulty: a handle that is disposed before it has an id is not remembered to be so.
LetGoForgotten(s, ids) ==
    LET held == {id \in ids : grants[s][id].at = "held"}
    IN  /\ \E order \in Orders(held) :
              toService' = toService \o
                  [i \in DOMAIN order |-> [type |-> "unwatch", watcherId |-> grants[s][order[i]].watcherId]]
        /\ grants' = [grants EXCEPT ![s] = [id \in Ids |->
               IF id \in held THEN NoGrant ELSE grants[s][id]]]

\* The handle of each of these watchers is disposed: the service is told, or will
\* be as soon as the reply with the watcher id comes.
LetGo(s, ids) ==
    LET held == {id \in ids : grants[s][id].at = "held"}
    IN  /\ \E order \in Orders(held) :
              toService' = toService \o
                  [i \in DOMAIN order |-> [type |-> "unwatch", watcherId |-> grants[s][order[i]].watcherId]]
        /\ grants' = [grants EXCEPT ![s] = [id \in Ids |->
               CASE id \in held -> NoGrant
                 [] id \in ids /\ grants[s][id].at = "pending" -> [NoGrant EXCEPT !.at = "dropped"]
                 [] OTHER -> grants[s][id]]]

\* FileSystemProviderServer.watch and unwatch. An id is not allocated twice.
ServerCall(s) ==
    LET call == Head(up[s])
        id == call.id
    IN  /\ up[s] # <<>>
        /\ up' = [up EXCEPT ![s] = Tail(@)]
        /\ CASE call.type = "watch" /\ grants[s][id].at = "none" ->
                  /\ grants' = [grants EXCEPT ![s][id].at = "pending"]
                  /\ toService' = Append(toService, [type |-> "watch", session |-> s, id |-> id])
             [] call.type = "unwatch" -> LetGo(s, {id})
             [] OTHER -> UNCHANGED <<grants, toService>>
        /\ UNCHANGED <<service, frontend, owner, open, seen, told>>

\* onDidCloseConnection: the server disposes every handle and unregisters the client.
CloseSession(s) ==
    /\ s \in open
    /\ open' = open \ {s}
    /\ up' = [up EXCEPT ![s] = <<>>]
    /\ LetGo(s, Ids)
    /\ seen' = [seen EXCEPT ![s] = <<>>]
    /\ told' = [told EXCEPT ![s] = {}]
    /\ UNCHANGED <<service, frontend, owner>>

\* The reply with a watcher id: a handle that was disposed meanwhile is unwatched at once.
Grant(msg) ==
    LET s == msg.call.session
        id == msg.call.id
    IN  /\ IF grants[s][id].at = "dropped"
           THEN /\ grants' = [grants EXCEPT ![s][id] = NoGrant]
                /\ toService' = Append(toService, [type |-> "unwatch", watcherId |-> msg.id])
           ELSE /\ grants' = [grants EXCEPT ![s][id] = [at |-> "held", watcherId |-> msg.id]]
                /\ UNCHANGED toService
        /\ UNCHANGED <<seen, told>>

\* iterRegisteredClients: no client stands for every client.
Registered(clients) == open \cap (IF clients = {} THEN Sessions ELSE clients)

\* The first message of the service: a reply, a change or an error.
Dispatch ==
    LET msg == Head(toBackend)
    IN  /\ Taken
        /\ CASE msg.type = "watched" -> Grant(msg)
             [] msg.type = "changed" ->
                  /\ seen' = [s \in Sessions |-> IF s \in Registered(msg.clients)
                                                 THEN Append(seen[s], msg.event) ELSE seen[s]]
                  /\ UNCHANGED <<grants, toService, told>>
             [] msg.type = "error" ->
                  /\ told' = [s \in Sessions |-> IF s \in Registered(msg.clients)
                                                 THEN told[s] \cup {msg.watcher} ELSE told[s]]
                  /\ UNCHANGED <<grants, toService, seen>>
        /\ UNCHANGED <<watchers, current, handles, events, failures, frontend, owner, open, up>>

\* The watcher service takes the first call.
ServiceRequest ==
    LET call == Head(toService)
    IN  /\ toService # <<>>
        /\ toService' = Tail(toService)
        /\ IF call.type = "watch"
           THEN Watch(call.session, [session |-> call.session, id |-> call.id])
           ELSE Unwatch(call.watcherId)
        /\ UNCHANGED <<frontend, owner, open, up, grants, seen, told>>

-----------------------------------------------------------------------------
Init ==
    /\ ServiceInit
    /\ made = [f \in Frontends |-> 0]
    /\ wanted = [f \in Frontends |-> {}]
    /\ link = [f \in Frontends |-> 0]
    /\ waiting = [f \in Frontends |-> <<>>]
    /\ owner = <<>>
    /\ open = {}
    /\ up = [s \in Sessions |-> <<>>]
    /\ grants = [s \in Sessions |-> [id \in Ids |-> NoGrant]]
    /\ toService = <<>>
    /\ seen = [s \in Sessions |-> <<>>]
    /\ told = [s \in Sessions |-> {}]

Frontend(f) == FrontWatch(f) \/ Connect(f) \/ Lose(f) \/ \E id \in Ids : FrontUnwatch(f, id)
Backend == ServiceRequest \/ Dispatch \/ \E s \in Sessions : ServerCall(s) \/ CloseSession(s)
Service == \E w \in DOMAIN watchers : WatcherNext(w) /\ UNCHANGED <<frontend, backend>>

Next == (\E f \in Frontends : Frontend(f)) \/ Backend \/ Service

Spec == Init /\ [][Next]_vars

\* Watchers that there can be, for the fairness conditions.
Numbers == 1 .. MaxWatches
WatcherGoesOn(w) == w \in DOMAIN watchers /\ WatcherStep(w) /\ UNCHANGED <<frontend, backend>>

\* The backend notices in the end that a frontend has gone.
Abandoned(s) == s \in DOMAIN owner /\ link[owner[s]] # s
CloseAbandoned(s) == Abandoned(s) /\ CloseSession(s)

FairSpec ==
    /\ Spec
    /\ WF_vars(ServiceRequest)
    /\ WF_vars(Dispatch)
    /\ \A s \in Sessions : WF_vars(ServerCall(s)) /\ WF_vars(CloseAbandoned(s))
    /\ \A w \in Numbers : WF_vars(WatcherGoesOn(w))

-----------------------------------------------------------------------------
EndToEnd ==
    /\ made \in [Frontends -> 0 .. MaxRequests]
    /\ wanted \in [Frontends -> SUBSET Ids]
    /\ link \in [Frontends -> 0 .. Len(owner)]
    /\ waiting \in [Frontends -> Seq([type : {"watch", "unwatch"}, id : Ids])]
    /\ owner \in Seq(Frontends)
    /\ open \subseteq DOMAIN owner
    /\ up \in [Sessions -> Seq([type : {"watch", "unwatch"}, id : Ids])]
    /\ grants \in [Sessions -> [Ids -> [at : {"none", "pending", "dropped", "held"},
                                        watcherId : 0 .. Len(handles)]]]
    /\ toService \in Seq([type : {"watch"}, session : Sessions, id : Ids]
                         \cup [type : {"unwatch"}, watcherId : DOMAIN handles])
    /\ seen \in [Sessions -> Seq(DOMAIN events)]
    /\ told \in [Sessions -> SUBSET DOMAIN watchers]

\* Every variable has its type.
TypeOK == ServiceTypeOK /\ EndToEnd

InTransit == {toBackend[i] : i \in DOMAIN toBackend}

\* A file change gets to everybody who watched when it was
\* raised and still does: it is in the queue of the watcher, on its way to the
\* backend, or told to the session, unless that is closed.
NothingLost ==
    \A n \in DOMAIN events : \A id \in events[n].ids :
        (handles[id].live /\ handles[id].client \in open)
            => \/ \E i \in DOMAIN watchers[events[n].watcher].queue : watchers[events[n].watcher].queue[i] = n
               \/ \E msg \in InTransit :
                     msg.type = "changed" /\ msg.event = n /\ handles[id].client \in msg.clients
               \/ \E i \in DOMAIN seen[handles[id].client] : seen[handles[id].client][i] = n

\* Changes of one watcher reach a session in the order they were raised, and once,
\* although the paths of several are resolved at the same time.
EventsInOrder ==
    \A s \in Sessions : \A i, j \in DOMAIN seen[s] :
        (i < j /\ events[seen[s][i]].watcher = events[seen[s][j]].watcher) => seen[s][i] < seen[s][j]

\* Whoever still refers to a watcher that has failed learns of it.
ErrorsReachTheirClients ==
    \A w \in DOMAIN watchers : \A s \in ClientIds(watchers[w]) :
        (~Live(w) /\ s \in open)
            => \/ w \in told[s]
               \/ \E msg \in InTransit : msg.type = "error" /\ msg.watcher = w /\ s \in msg.clients

\* What a connection asked for does not outlive it, even what the service had not
\* answered yet when it was closed: in the end no watcher id of a session that was
\* abandoned is left.
ClosedSessionsLetGo ==
    \A s \in Sessions :
        Abandoned(s) ~> [](\A id \in DOMAIN handles : handles[id].client = s => ~handles[id].live)

\* A watcher that nobody uses is used again, or disposed with its native watcher.
UnusedStops ==
    \A w \in Numbers :
        (w \in DOMAIN watchers /\ Unused(watchers[w]))
            ~> (w \in DOMAIN watchers =>
                   ~Unused(watchers[w]) \/ (~Live(w) /\ watchers[w].native \in {"none", "stopped"}))

\* A frontend that is connected, again or for the first time, gets the watchers it
\* wants running, or hears of a failure, as long as it stays and wants them.
Connected(f) == link[f] \in open
Serving(s, id) ==
    LET watcherId == grants[s][id].watcherId
    IN  /\ grants[s][id].at = "held"
        /\ watchers[handles[watcherId].watcher].native = "running" \/ handles[watcherId].watcher \in told[s]
WatchedAgain ==
    \A f \in Frontends, id \in Ids :
        (id \in wanted[f] /\ Connected(f))
            ~> ((id \in wanted[f] /\ Connected(f)) => Serving(link[f], id))
=============================================================================
