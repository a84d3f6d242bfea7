--------------------------- MODULE WatcherService ---------------------------
(***************************************************************************)
(* The service that watches files for all frontends, usually in a process   *)
(* of its own: NsfwFileSystemWatcherService and its NsfwWatchers.           *)
(*                                                                         *)
(* Requests for the same path and options share one watcher, which counts   *)
(* its references per client.  It starts asynchronously; without references *)
(* it is disposed after a while, unless it is revived; it disposes itself   *)
(* when it fails.  Watchers of different paths do not touch each other, so  *)
(* one path is modelled; the watchers made for it are numbered.             *)
(*                                                                         *)
(* A call, a timer or a callback of the native library is one step,         *)
(* together with the promise callbacks it sets off: these run before the    *)
(* next message or timer.                                                   *)
(*                                                                         *)
(* Source: packages/filesystem/src/node/nsfw-watcher/                       *)
(* nsfw-filesystem-service.ts                                               *)
(***************************************************************************)
EXTENDS Integers, Sequences, FiniteSets, SequencesExt

CONSTANTS
    Clients,     \* client ids
    Calls,       \* what identifies a request to watch, for its reply
    MaxWatches,  \* bound: requests to watch
    MaxEvents,   \* bound: file changes
    MaxFailures  \* bound: watchers that fail to start or crash

ASSUME WatchBoundAssumption == MaxWatches \in Nat /\ MaxEvents \in Nat /\ MaxFailures \in Nat

VARIABLES
    watchers,    \* the NsfwWatchers made so far
    current,     \* the number of the one in the map `watchers', or 0
    handles,     \* watcherHandles: the client and the watcher of each id, and whether it is there
    events,      \* history: the file changes, with the ids that were there when they were raised
    failures,    \* how many watchers have failed
    toBackend    \* replies and notifications on their way to the backend process

service == <<watchers, current, handles, events, failures, toBackend>>

NewWatcher(c) ==
    [refs |-> [d \in Clients |-> IF d = c THEN 1 ELSE 0],
     disposed |-> FALSE, timer |-> FALSE, start |-> "creating", native |-> "none", queue |-> <<>>]

Unused(watcher) == \A c \in Clients : watcher.refs[c] = 0
ClientIds(watcher) == {c \in Clients : watcher.refs[c] > 0}

\* Faulty: the disposal is not unscheduled.
AddRefNotReviving(watcher, c) == [watcher EXCEPT !.refs[c] = @ + 1]

\* addRef, onRefsRevive: the disposal is unscheduled when this is the only reference.
AddRef(watcher, c) ==
    [watcher EXCEPT !.refs[c] = @ + 1,
                    !.timer = IF Unused(watcher) THEN FALSE ELSE @]

\* removeRef, onRefsReachZero: without references disposal is scheduled.
RemoveRef(watcher, c) ==
    LET without == [watcher EXCEPT !.refs[c] = @ - 1]
    IN  [without EXCEPT !.timer = IF Unused(without) THEN TRUE ELSE @]

Send(msg) == toBackend' = Append(toBackend, msg)

\* watchFileChanges, and the reply with the new watcher id.
Watch(c, call) ==
    /\ Len(handles) < MaxWatches
    /\ IF current = 0
       THEN /\ watchers' = Append(watchers, NewWatcher(c))
            /\ current' = Len(watchers) + 1
       ELSE /\ watchers' = [watchers EXCEPT ![current] = AddRef(@, c)]
            /\ UNCHANGED current
    /\ handles' = Append(handles, [client |-> c, watcher |-> current', live |-> TRUE])
    /\ Send([type |-> "watched", call |-> call, id |-> Len(handles) + 1])
    /\ UNCHANGED <<events, failures>>

\* Faulty: the handle is kept.
UnwatchKeepingHandle(id) ==
    LET handle == handles[id]
    IN  /\ handle.live
        /\ watchers' = [watchers EXCEPT ![handle.watcher] = RemoveRef(@, handle.client)]
        /\ UNCHANGED <<current, handles, events, failures, toBackend>>

\* unwatchFileChanges; an id that is not there any more is only logged.
Unwatch(id) ==
    LET handle == handles[id]
    IN  /\ IF handle.live
           THEN /\ handles' = [handles EXCEPT ![id].live = FALSE]
                /\ watchers' = [watchers EXCEPT ![handle.watcher] = RemoveRef(@, handle.client)]
           ELSE UNCHANGED <<handles, watchers>>
        /\ UNCHANGED <<current, events, failures, toBackend>>

-----------------------------------------------------------------------------
(* A watcher's own steps. *)

\* Faulty: a watcher that is running is left to itself.
DisposedKeepingNative(watcher) == [watcher EXCEPT !.disposed = TRUE, !.start = "done"]

\* _dispose of a watcher that is not disposed: what waits with orCancel gives up,
\* and the native watcher, if it is started, is stopped.
Disposed(watcher) ==
    [watcher EXCEPT !.disposed = TRUE, !.start = "done",
                    !.native = IF @ = "running" THEN "stopping" ELSE @]

\* Faulty: the watcher stays in the map.
ForgetKeepingWatcher(w) ==
    /\ UNCHANGED current
    /\ handles' = [id \in DOMAIN handles |->
                      IF handles[id].watcher = w THEN [handles[id] EXCEPT !.live = FALSE] ELSE handles[id]]

\* whenDisposed: the service forgets the watcher and the ids that stand for it.
Forget(w) ==
    /\ current' = IF current = w THEN 0 ELSE current
    /\ handles' = [id \in DOMAIN handles |->
                      IF handles[id].watcher = w THEN [handles[id] EXCEPT !.live = FALSE] ELSE handles[id]]

\* Faulty: the clients are not told.
FireErrorLosing(w) == UNCHANGED toBackend

FireError(w) == Send([type |-> "error", clients |-> ClientIds(watchers[w]), watcher |-> w])

\* The watcher fails; `watcher' is what becomes of it, short of its disposal.
Fail(w, watcher) ==
    /\ failures < MaxFailures
    /\ failures' = failures + 1
    /\ watchers' = [watchers EXCEPT ![w] = Disposed(watcher)]
    /\ Forget(w)
    /\ FireError(w)
    /\ UNCHANGED events

\* The deferred disposal; too late for a watcher that has failed meanwhile.
DisposalTimer(w) ==
    LET watcher == [watchers[w] EXCEPT !.timer = FALSE]
    IN  /\ watchers[w].timer
        /\ IF watcher.disposed
           THEN /\ watchers' = [watchers EXCEPT ![w] = watcher]
                /\ UNCHANGED <<current, handles>>
           ELSE /\ watchers' = [watchers EXCEPT ![w] = Disposed(watcher)]
                /\ Forget(w)
        /\ UNCHANGED <<events, failures, toBackend>>

\* start, until the path exists and createNsfw has made the native watcher.
Create(w) ==
    /\ watchers[w].start = "creating"
    /\ \/ /\ watchers' = [watchers EXCEPT ![w].start = "starting", ![w].native = "starting"]
          /\ UNCHANGED <<current, handles, events, failures, toBackend>>
       \/ Fail(w, watchers[w])

\* Faulty: nobody looks whether the watcher was disposed while it was starting.
StartedUnchecked(w) ==
    /\ watchers[w].native = "starting"
    /\ watchers' = [watchers EXCEPT ![w].start = "done", ![w].native = "running"]
    /\ UNCHANGED <<current, handles, events, failures, toBackend>>

\* The native watcher has started: it is stopped at once if it comes too late.
Started(w) ==
    /\ watchers[w].native = "starting"
    /\ watchers' = [watchers EXCEPT ![w].start = "done",
                                    ![w].native = IF watchers[w].disposed THEN "stopping" ELSE "running"]
    /\ UNCHANGED <<current, handles, events, failures, toBackend>>

\* It fails to start, which start hears of unless it was cancelled.
StartFails(w) ==
    LET watcher == [watchers[w] EXCEPT !.native = "stopped"]
    IN  /\ watchers[w].native = "starting"
        /\ IF watcher.disposed
           THEN /\ watchers' = [watchers EXCEPT ![w] = watcher]
                /\ UNCHANGED <<current, handles, events, failures, toBackend>>
           ELSE Fail(w, watcher)

\* The errorCallback: the native watcher crashes while it watches.
Crash(w) ==
    /\ watchers[w].native = "running"
    /\ Fail(w, watchers[w])

\* stopNsfw has ended.
Stopped(w) ==
    /\ watchers[w].native = "stopping"
    /\ watchers' = [watchers EXCEPT ![w].native = "stopped"]
    /\ UNCHANGED <<current, handles, events, failures, toBackend>>

\* Faulty: what still waits in the queue is dropped.
EventReplacing(w) ==
    /\ watchers[w].native = "running"
    /\ Len(events) < MaxEvents
    /\ ~Unused(watchers[w])
    /\ events' = Append(events, [watcher |-> w,
                                 ids |-> {id \in DOMAIN handles : handles[id].live /\ handles[id].watcher = w}])
    /\ watchers' = [watchers EXCEPT ![w].queue = <<Len(events) + 1>>]
    /\ UNCHANGED <<current, handles, failures, toBackend>>

\* handleNsfwEvents: queued if somebody is listening.  `ids' are those that expect
\* the event.  Events of ignored files only are never sent, and are left out.
Event(w) ==
    /\ watchers[w].native = "running"
    /\ Len(events) < MaxEvents
    /\ ~Unused(watchers[w])
    /\ events' = Append(events, [watcher |-> w,
                                 ids |-> {id \in DOMAIN handles : handles[id].live /\ handles[id].watcher = w}])
    /\ watchers' = [watchers EXCEPT ![w].queue = Append(@, Len(events) + 1)]
    /\ UNCHANGED <<current, handles, failures, toBackend>>

\* Faulty: the events are not queued but sent when their paths are resolved.
ProcessAnyEvent(w) ==
    \E i \in DOMAIN watchers[w].queue :
        LET n == watchers[w].queue[i]
        IN  /\ watchers' = [watchers EXCEPT ![w].queue = RemoveAt(@, i)]
            /\ Send([type |-> "changed", clients |-> ClientIds(watchers[w]), event |-> n])
            /\ UNCHANGED <<current, handles, events, failures>>

\* The paths of the first event in the queue have been resolved: it is sent to
\* those that are clients now.
ProcessEvent(w) ==
    LET n == Head(watchers[w].queue)
    IN  /\ watchers[w].queue # <<>>
        /\ watchers' = [watchers EXCEPT ![w].queue = Tail(@)]
        /\ Send([type |-> "changed", clients |-> ClientIds(watchers[w]), event |-> n])
        /\ UNCHANGED <<current, handles, events, failures>>

-----------------------------------------------------------------------------
ServiceInit ==
    /\ watchers = <<>>
    /\ current = 0
    /\ handles = <<>>
    /\ events = <<>>
    /\ failures = 0
    /\ toBackend = <<>>

\* What goes on by itself, given that the path exists in the end.
WatcherStep(w) ==
    \/ DisposalTimer(w) \/ Create(w) \/ Started(w) \/ StartFails(w)
    \/ Stopped(w) \/ ProcessEvent(w)

WatcherNext(w) == WatcherStep(w) \/ Crash(w) \/ Event(w)

\* The backend takes the first message.
Taken == toBackend # <<>> /\ toBackend' = Tail(toBackend)

ServiceNext ==
    \/ \E c \in Clients, call \in Calls : Watch(c, call)
    \/ \E id \in DOMAIN handles : Unwatch(id)
    \/ \E w \in DOMAIN watchers : WatcherNext(w)
    \/ Taken /\ UNCHANGED <<watchers, current, handles, events, failures>>

ServiceSpec == ServiceInit /\ [][ServiceNext]_service

-----------------------------------------------------------------------------
Watchers ==
    [refs : [Clients -> Nat], disposed : BOOLEAN, timer : BOOLEAN,
     start : {"creating", "starting", "done"},
     native : {"none", "starting", "running", "stopping", "stopped"}, queue : Seq(Nat)]
Messages ==
    [type : {"watched"}, call : Calls, id : Nat]
    \cup [type : {"changed"}, clients : SUBSET Clients, event : Nat]
    \cup [type : {"error"}, clients : SUBSET Clients, watcher : Nat]

ServiceTypeOK ==
    /\ watchers \in Seq(Watchers)
    /\ current \in 0 .. Len(watchers)
    /\ handles \in Seq([client : Clients, watcher : 1 .. Len(watchers), live : BOOLEAN])
    /\ events \in Seq([watcher : Nat, ids : SUBSET Nat])
    /\ failures \in Nat
    /\ toBackend \in Seq(Messages)

Live(w) == ~watchers[w].disposed
IdsOf(w, c) == {id \in DOMAIN handles : handles[id].live /\ handles[id].watcher = w /\ handles[id].client = c}

\* References are counted exactly: a client has as many at a live watcher as it
\* has ids, and no id stands for a watcher that is disposed.
RefsMatchHandles ==
    \A w \in DOMAIN watchers : \A c \in Clients :
        IF Live(w) THEN watchers[w].refs[c] = Cardinality(IdsOf(w, c)) ELSE IdsOf(w, c) = {}

\* There is at most one watcher for the path that is not disposed, and it is the
\* one that requests find in the map.
OneLiveWatcher == \A w \in DOMAIN watchers : Live(w) <=> current = w

\* The disposal of a live watcher is scheduled exactly when nobody refers to it:
\* reviving it leaves no timer behind, and none is missing.
DisposalIfUnused == \A w \in DOMAIN watchers : Live(w) => (watchers[w].timer <=> Unused(watchers[w]))

\* A native watcher runs only for a watcher that can still stop it.
RunningIsLive == \A w \in DOMAIN watchers : watchers[w].native = "running" => Live(w)
=============================================================================
