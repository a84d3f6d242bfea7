-------------------------- MODULE FileWatchingProofs --------------------------
(***************************************************************************)
(* Theorems about FileWatching and their proofs, for any number of          *)
(* frontends, sessions, requests, events and failures.                      *)
(***************************************************************************)
EXTENDS FileWatching, WatcherServiceProofs

ServiceCall == [type : {"watch"}, session : Sessions, id : Ids]
               \cup [type : {"unwatch"}, watcherId : DOMAIN handles]
FrontCall == [type : {"watch", "unwatch"}, id : Ids]
GrantType == [at : {"none", "pending", "dropped", "held"}, watcherId : 0 .. Len(handles)]

\* Whatever a message, a queue or a handle of the backend speaks of exists.
KnownMessages ==
    [type : {"watched"}, call : Calls, id : DOMAIN handles]
    \cup [type : {"changed"}, clients : SUBSET Clients, event : DOMAIN events]
    \cup [type : {"error"}, clients : SUBSET Clients, watcher : DOMAIN watchers]
Known ==
    /\ toBackend \in Seq(KnownMessages)
    /\ \A w \in DOMAIN watchers : watchers[w].queue \in Seq(DOMAIN events)
    /\ \A s \in Sessions, id \in Ids :
          grants[s][id].at = "held" => grants[s][id].watcherId \in DOMAIN handles

SystemInv == ServiceInv /\ EndToEnd /\ Known

\* Ids, watchers and events are numbered, and none is ever taken away.
Grows ==
    /\ DOMAIN handles \subseteq DOMAIN handles' /\ 0 .. Len(handles) \subseteq 0 .. Len(handles')
    /\ DOMAIN watchers \subseteq DOMAIN watchers'
    /\ DOMAIN events \subseteq DOMAIN events'

LEMMA Domains ==
    ASSUME ServiceInv
    PROVE  /\ Len(handles) \in Nat /\ DOMAIN handles = 1 .. Len(handles)
           /\ Len(watchers) \in Nat /\ DOMAIN watchers = 1 .. Len(watchers)
           /\ Len(events) \in Nat /\ DOMAIN events = 1 .. Len(events)
           /\ Len(toBackend) \in Nat /\ DOMAIN toBackend = 1 .. Len(toBackend)
           /\ watchers \in Seq(Watchers) /\ toBackend \in Seq(Messages)
BY LenProperties DEF ServiceInv, Core, CoreType, RestType

LEMMA WatcherIsTyped ==
    ASSUME ServiceInv, NEW w, w \in DOMAIN watchers
    PROVE  watchers[w] \in Watchers
BY Domains, ElementOfSeq

-----------------------------------------------------------------------------
(* What the steps of the service do to what the backend knows. *)

LEMMA MessagesKept ==
    ASSUME Known, Grows
    PROVE  toBackend \in Seq(KnownMessages')
<1>1. KnownMessages \subseteq KnownMessages'
  BY DEF KnownMessages, Grows
<1> QED BY <1>1, SeqMonotonic DEF Known

LEMMA MessageSent ==
    ASSUME Known, Grows, NEW msg, msg \in KnownMessages', Send(msg)
    PROVE  toBackend' \in Seq(KnownMessages')
<1>1. toBackend \in Seq(KnownMessages')
  BY MessagesKept
<1> QED BY <1>1, AppendProperties DEF Send

LEMMA GrantsKept ==
    ASSUME Known, Grows, UNCHANGED grants
    PROVE  \A s \in Sessions, id \in Ids :
               grants'[s][id].at = "held" => grants'[s][id].watcherId \in DOMAIN handles'
BY DEF Known, Grows

LEMMA QueuesKept ==
    ASSUME ServiceInv, ServiceInv', Known, Grows,
           \A v \in DOMAIN watchers' : \/ v \in DOMAIN watchers /\ watchers'[v].queue = watchers[v].queue
                                      \/ watchers'[v].queue \in Seq(DOMAIN events')
    PROVE  \A v \in DOMAIN watchers' : watchers'[v].queue \in Seq(DOMAIN events')
<1> SUFFICES ASSUME NEW v \in DOMAIN watchers, watchers'[v].queue = watchers[v].queue
             PROVE  watchers'[v].queue \in Seq(DOMAIN events')
  OBVIOUS
<1>1. watchers[v].queue \in Seq(DOMAIN events)
  BY DEF Known
<1> QED BY <1>1, SeqMonotonic DEF Grows

\* A step of a watcher changes no other watcher.
LEMMA WatcherEffect ==
    ASSUME ServiceInv, NEW w, w \in DOMAIN watchers, WatcherNext(w)
    PROVE  /\ DOMAIN watchers' = DOMAIN watchers /\ Len(watchers') = Len(watchers)
           /\ DOMAIN handles' = DOMAIN handles /\ Len(handles') = Len(handles)
           /\ \A v \in DOMAIN watchers : v # w => watchers'[v] = watchers[v]
           /\ watchers'[w].refs = watchers[w].refs
<1> DEFINE old == watchers[w]
<1>1. old \in Watchers
  BY WatcherIsTyped
<1>2. ASSUME NEW x, watchers' = [watchers EXCEPT ![w] = x]
      PROVE  /\ DOMAIN watchers' = DOMAIN watchers /\ Len(watchers') = Len(watchers)
             /\ \A v \in DOMAIN watchers : v # w => watchers'[v] = watchers[v]
             /\ watchers'[w] = x
  <2>1. Len(watchers') = Len(watchers)
    BY <1>2, Domains
  <2> QED BY <1>2, <2>1
<1>3. UNCHANGED handles \/ Forget(w) => DOMAIN handles' = DOMAIN handles /\ Len(handles') = Len(handles)
  BY Domains DEF Forget
<1>4. \A x \in Watchers : Disposed(x).refs = x.refs
  BY DEF Disposed, Watchers
<1>5. CASE DisposalTimer(w)
  <2> DEFINE x == [old EXCEPT !.timer = FALSE]
  <2>1. x \in Watchers /\ x.refs = old.refs
    BY <1>1 DEF Watchers
  <2>2. (UNCHANGED handles \/ Forget(w))
        /\ (watchers' = [watchers EXCEPT ![w] = x] \/ watchers' = [watchers EXCEPT ![w] = Disposed(x)])
    BY <1>5 DEF DisposalTimer
  <2> HIDE DEF x
  <2> QED BY <1>2, <1>3, <1>4, <2>1, <2>2
<1>6. ASSUME NEW x \in Watchers, x.refs = old.refs, Fail(w, x)
      PROVE  /\ DOMAIN watchers' = DOMAIN watchers /\ Len(watchers') = Len(watchers)
             /\ DOMAIN handles' = DOMAIN handles /\ Len(handles') = Len(handles)
             /\ \A v \in DOMAIN watchers : v # w => watchers'[v] = watchers[v]
             /\ watchers'[w].refs = watchers[w].refs
  BY <1>2, <1>3, <1>4, <1>6 DEF Fail
<1>7. CASE Create(w)
  <2> DEFINE x == [old EXCEPT !.start = "starting", !.native = "starting"]
  <2>1. x.refs = old.refs
    BY <1>1 DEF Watchers
  <2>2. (watchers' = [watchers EXCEPT ![w] = x] /\ UNCHANGED handles) \/ Fail(w, old)
    BY <1>7 DEF Create
  <2> HIDE DEF x
  <2> QED BY <1>1, <1>2, <1>3, <1>6, <2>1, <2>2
<1>8. CASE Started(w)
  <2> DEFINE x == [old EXCEPT !.start = "done", !.native = IF old.disposed THEN "stopping" ELSE "running"]
  <2>1. x.refs = old.refs
    BY <1>1 DEF Watchers
  <2>2. watchers' = [watchers EXCEPT ![w] = x] /\ UNCHANGED handles
    BY <1>8 DEF Started
  <2> HIDE DEF x
  <2> QED BY <1>2, <1>3, <2>1, <2>2
<1>9. CASE StartFails(w)
  <2> DEFINE x == [old EXCEPT !.native = "stopped"]
  <2>1. x \in Watchers /\ x.refs = old.refs
    BY <1>1 DEF Watchers
  <2>2. (watchers' = [watchers EXCEPT ![w] = x] /\ UNCHANGED handles) \/ Fail(w, x)
    BY <1>9 DEF StartFails
  <2> HIDE DEF x
  <2> QED BY <1>2, <1>3, <1>6, <2>1, <2>2
<1>10. CASE Crash(w)
  BY <1>1, <1>6, <1>10 DEF Crash
<1>11. CASE Stopped(w)
  <2> DEFINE x == [old EXCEPT !.native = "stopped"]
  <2>1. x.refs = old.refs
    BY <1>1 DEF Watchers
  <2>2. watchers' = [watchers EXCEPT ![w] = x] /\ UNCHANGED handles
    BY <1>11 DEF Stopped
  <2> HIDE DEF x
  <2> QED BY <1>2, <1>3, <2>1, <2>2
<1>12. CASE Event(w)
  <2> DEFINE x == [old EXCEPT !.queue = Append(old.queue, Len(events) + 1)]
  <2>1. x.refs = old.refs
    BY <1>1 DEF Watchers
  <2>2. watchers' = [watchers EXCEPT ![w] = x] /\ UNCHANGED handles
    BY <1>12 DEF Event
  <2> HIDE DEF x
  <2> QED BY <1>2, <1>3, <2>1, <2>2
<1>13. CASE ProcessEvent(w)
  <2> DEFINE x == [old EXCEPT !.queue = Tail(old.queue)]
  <2>1. x.refs = old.refs
    BY <1>1 DEF Watchers
  <2>2. watchers' = [watchers EXCEPT ![w] = x] /\ UNCHANGED handles
    BY <1>13 DEF ProcessEvent
  <2> HIDE DEF x
  <2> QED BY <1>2, <1>3, <2>1, <2>2
<1> QED BY <1>5, <1>7, <1>8, <1>9, <1>10, <1>11, <1>12, <1>13 DEF WatcherNext, WatcherStep

\* Its queue, and the messages it sends.
LEMMA WatcherKeepsKnown ==
    ASSUME SystemInv, NEW w, w \in DOMAIN watchers, WatcherNext(w), UNCHANGED backend
    PROVE  Known' /\ Grows
<1> DEFINE old == watchers[w]
<1>1. ServiceInv /\ ServiceInv' /\ Known /\ old \in Watchers /\ w \in Nat
  BY WatcherKeepsInv, WatcherIsTyped, Domains DEF SystemInv
<1>2. /\ DOMAIN watchers' = DOMAIN watchers /\ DOMAIN handles' = DOMAIN handles
      /\ Len(handles') = Len(handles)
      /\ \A v \in DOMAIN watchers : v # w => watchers'[v] = watchers[v]
  BY <1>1, WatcherEffect
<1>3. /\ old.queue \in Seq(DOMAIN events) /\ old.queue \in Seq(Nat)
      /\ Len(events) \in Nat /\ DOMAIN events = 1 .. Len(events)
  BY <1>1, WatcherFields, Domains DEF Known
<1>4. ASSUME UNCHANGED events PROVE Grows
  BY <1>2, <1>4 DEF Grows
<1>5. ASSUME Grows, watchers'[w].queue \in Seq(DOMAIN events'),
             toBackend' \in Seq(KnownMessages')
      PROVE  Known' /\ Grows
  <2>1. \A v \in DOMAIN watchers' : watchers'[v].queue \in Seq(DOMAIN events')
    BY <1>1, <1>2, <1>5, QueuesKept
  <2>2. \A s \in Sessions, id \in Ids :
            grants'[s][id].at = "held" => grants'[s][id].watcherId \in DOMAIN handles'
    BY <1>1, <1>5, GrantsKept DEF backend
  <2> QED BY <1>5, <2>1, <2>2 DEF Known
<1>6. ASSUME NEW x \in Watchers, x.queue = old.queue, watchers' = [watchers EXCEPT ![w] = x],
             UNCHANGED <<events, toBackend>>
      PROVE  Known' /\ Grows
  <2>1. Grows /\ watchers'[w].queue \in Seq(DOMAIN events')
    BY <1>3, <1>4, <1>6
  <2> QED BY <1>1, <1>5, <1>6, <2>1, MessagesKept
<1>7. \A x \in Watchers : Disposed(x) \in Watchers /\ Disposed(x).queue = x.queue
  BY DEF Disposed, Watchers
<1>8. ASSUME NEW x \in Watchers, x.queue = old.queue, Fail(w, x)
      PROVE  Known' /\ Grows
  <2> DEFINE msg == [type |-> "error", clients |-> ClientIds(watchers[w]), watcher |-> w]
  <2>1. watchers' = [watchers EXCEPT ![w] = Disposed(x)] /\ UNCHANGED events /\ Send(msg)
    BY <1>8 DEF Fail, FireError
  <2>2. Grows /\ watchers'[w].queue \in Seq(DOMAIN events')
    BY <1>3, <1>4, <1>7, <1>8, <2>1
  <2>3. msg \in KnownMessages'
    BY <1>2 DEF KnownMessages, ClientIds
  <2> HIDE DEF msg
  <2>4. toBackend' \in Seq(KnownMessages')
    BY <1>1, <2>1, <2>2, <2>3, MessageSent
  <2> QED BY <1>5, <2>2, <2>4
<1>9. CASE DisposalTimer(w)
  <2> DEFINE x == [old EXCEPT !.timer = FALSE]
  <2>1. x \in Watchers /\ x.queue = old.queue
    BY <1>1 DEF Watchers
  <2>2. UNCHANGED <<events, toBackend>>
        /\ (watchers' = [watchers EXCEPT ![w] = x] \/ watchers' = [watchers EXCEPT ![w] = Disposed(x)])
    BY <1>9 DEF DisposalTimer
  <2> HIDE DEF x
  <2> QED BY <1>6, <1>7, <2>1, <2>2
<1>10. CASE Create(w)
  <2> DEFINE x == [old EXCEPT !.start = "starting", !.native = "starting"]
  <2>1. x \in Watchers /\ x.queue = old.queue
    BY <1>1 DEF Watchers
  <2>2. (watchers' = [watchers EXCEPT ![w] = x] /\ UNCHANGED <<events, toBackend>>) \/ Fail(w, old)
    BY <1>10 DEF Create
  <2> HIDE DEF x
  <2> QED BY <1>1, <1>6, <1>8, <2>1, <2>2
<1>11. CASE Started(w)
  <2> DEFINE x == [old EXCEPT !.start = "done", !.native = IF old.disposed THEN "stopping" ELSE "running"]
  <2>1. x \in Watchers /\ x.queue = old.queue
    BY <1>1 DEF Watchers
  <2>2. watchers' = [watchers EXCEPT ![w] = x] /\ UNCHANGED <<events, toBackend>>
    BY <1>11 DEF Started
  <2> HIDE DEF x
  <2> QED BY <1>6, <2>1, <2>2
<1>12. CASE StartFails(w) \/ Stopped(w)
  <2> DEFINE x == [old EXCEPT !.native = "stopped"]
  <2>1. x \in Watchers /\ x.queue = old.queue
    BY <1>1 DEF Watchers
  <2>2. (watchers' = [watchers EXCEPT ![w] = x] /\ UNCHANGED <<events, toBackend>>) \/ Fail(w, x)
    BY <1>12 DEF StartFails, Stopped
  <2> HIDE DEF x
  <2> QED BY <1>6, <1>8, <2>1, <2>2
<1>13. CASE Crash(w)
  BY <1>1, <1>8, <1>13 DEF Crash
<1>14. CASE Event(w)
  <2> DEFINE n == Len(events) + 1
             x == [old EXCEPT !.queue = Append(old.queue, n)]
             ev == [watcher |-> w, ids |-> {id \in DOMAIN handles : handles[id].live /\ handles[id].watcher = w}]
  <2>1. watchers' = [watchers EXCEPT ![w] = x] /\ events' = Append(events, ev) /\ UNCHANGED toBackend
    BY <1>14 DEF Event
  <2>2. DOMAIN events' = 1 .. n
    <3> HIDE DEF ev
    <3> QED BY <1>3, <2>1
  <2>3. Grows
    BY <1>2, <1>3, <2>2 DEF Grows
  <2>4. x.queue = Append(old.queue, n) /\ watchers'[w] = x
    BY <1>1, <2>1 DEF Watchers
  <2>5. old.queue \in Seq(DOMAIN events') /\ n \in DOMAIN events'
    BY <1>3, <2>2, <2>3, SeqMonotonic DEF Grows
  <2> HIDE DEF x, ev, n
  <2>6. Append(old.queue, n) \in Seq(DOMAIN events')
    <3> HIDE DEF old
    <3> QED BY <2>5, AppendProperties
  <2>7. watchers'[w].queue \in Seq(DOMAIN events')
    BY <2>4, <2>6
  <2> QED BY <1>1, <1>5, <2>1, <2>3, <2>7, MessagesKept
<1>15. CASE ProcessEvent(w)
  <2> DEFINE n == Head(old.queue)
             x == [old EXCEPT !.queue = Tail(old.queue)]
             msg == [type |-> "changed", clients |-> ClientIds(old), event |-> n]
  <2>1. watchers' = [watchers EXCEPT ![w] = x] /\ UNCHANGED events /\ Send(msg) /\ old.queue # <<>>
    BY <1>15 DEF ProcessEvent
  <2>2. n \in DOMAIN events /\ Tail(old.queue) \in Seq(DOMAIN events) /\ n \in Nat
    BY <1>3, <2>1, HeadTailProperties
  <2>3. watchers'[w].queue = Tail(old.queue)
    BY <1>1, <2>1 DEF Watchers
  <2>4. msg \in KnownMessages'
    BY <2>1, <2>2 DEF KnownMessages, ClientIds
  <2>5. Grows
    BY <1>4, <2>1
  <2> HIDE DEF msg, x
  <2>6. toBackend' \in Seq(KnownMessages')
    BY <1>1, <2>1, <2>4, <2>5, MessageSent
  <2> QED BY <1>5, <2>1, <2>2, <2>3, <2>5, <2>6
<1> QED BY <1>9, <1>10, <1>11, <1>12, <1>13, <1>14, <1>15 DEF WatcherNext, WatcherStep

LEMMA WatchKeepsKnown ==
    ASSUME SystemInv, NEW c \in Clients, NEW call \in Calls, Watch(c, call), UNCHANGED grants
    PROVE  Known' /\ Grows
<1> DEFINE n == Len(handles) + 1
           msg == [type |-> "watched", call |-> call, id |-> n]
           h == [client |-> c, watcher |-> current', live |-> TRUE]
<1>1. ServiceInv /\ ServiceInv' /\ Known
  BY RequestKeepsInv DEF SystemInv
<1>2. handles' = Append(handles, h) /\ UNCHANGED events /\ Send(msg)
  BY DEF Watch
<1>3. DOMAIN handles = 1 .. Len(handles) /\ Len(handles) \in Nat /\ DOMAIN handles' = 1 .. n /\ Len(handles') = n
  <2> HIDE DEF h
  <2> QED BY <1>1, <1>2, Domains
<1>4. DOMAIN watchers \subseteq DOMAIN watchers'
      /\ \A v \in DOMAIN watchers' : \/ v \in DOMAIN watchers /\ watchers'[v].queue = watchers[v].queue
                                     \/ watchers'[v].queue = <<>>
  <2>1. CASE current = 0
    <3>1. watchers' = Append(watchers, NewWatcher(c))
      BY <2>1 DEF Watch
    <3>2. /\ DOMAIN watchers = 1 .. Len(watchers) /\ Len(watchers) \in Nat
          /\ DOMAIN watchers' = 1 .. Len(watchers) + 1
          /\ \A v \in 1 .. Len(watchers) : watchers'[v] = watchers[v]
          /\ watchers'[Len(watchers) + 1] = NewWatcher(c)
      BY <1>1, <3>1, Domains
    <3>3. NewWatcher(c).queue = <<>>
      BY DEF NewWatcher
    <3> QED BY <3>2, <3>3
  <2>2. CASE current # 0
    <3>1. watchers' = [watchers EXCEPT ![current] = AddRef(@, c)]
      BY <2>2 DEF Watch
    <3>2. \A x \in Watchers : AddRef(x, c).queue = x.queue
      BY DEF AddRef, Watchers
    <3>3. \A v \in DOMAIN watchers : watchers[v] \in Watchers
      BY <1>1, WatcherIsTyped
    <3> QED BY <3>1, <3>2, <3>3
  <2> QED BY <2>1, <2>2
<1>5. Grows
  BY <1>2, <1>3, <1>4 DEF Grows
<1>6. msg \in KnownMessages'
  BY <1>3 DEF KnownMessages
<1> HIDE DEF msg
<1>7. toBackend' \in Seq(KnownMessages')
  BY <1>1, <1>2, <1>5, <1>6, MessageSent
<1>8. \A v \in DOMAIN watchers' : watchers'[v].queue \in Seq(DOMAIN events')
  <2>1. <<>> \in Seq(DOMAIN events')
    OBVIOUS
  <2> QED BY <1>1, <1>4, <1>5, <2>1, QueuesKept
<1> QED BY <1>1, <1>5, <1>7, <1>8, GrantsKept DEF Known

LEMMA UnwatchKeepsKnown ==
    ASSUME SystemInv, NEW id, id \in DOMAIN handles, Unwatch(id), UNCHANGED grants
    PROVE  Known' /\ Grows
<1>1. ServiceInv /\ ServiceInv' /\ Known
  BY RequestKeepsInv DEF SystemInv
<1>2. DOMAIN handles' = DOMAIN handles /\ Len(handles') = Len(handles) /\ DOMAIN watchers' = DOMAIN watchers
  <2>1. handles' = [handles EXCEPT ![id].live = FALSE] \/ UNCHANGED handles
    BY DEF Unwatch
  <2>2. (\E x : watchers' = [watchers EXCEPT ![handles[id].watcher] = x]) \/ UNCHANGED watchers
    BY DEF Unwatch
  <2>3. Len(handles') = Len(handles) /\ DOMAIN handles' = DOMAIN handles
    BY <1>1, <2>1, Domains
  <2> QED BY <2>2, <2>3
<1>3. UNCHANGED <<events, toBackend>>
  BY DEF Unwatch
<1>4. Grows
  BY <1>2, <1>3 DEF Grows
<1>5. \A v \in DOMAIN watchers : watchers'[v].queue = watchers[v].queue
  <2>1. \A x \in Watchers : \A c : RemoveRef(x, c).queue = x.queue
    BY DEF RemoveRef, Watchers
  <2>2. \A v \in DOMAIN watchers : watchers[v] \in Watchers
    BY <1>1, WatcherIsTyped
  <2>3. UNCHANGED watchers \/ watchers' = [watchers EXCEPT ![handles[id].watcher] = RemoveRef(@, handles[id].client)]
    BY DEF Unwatch
  <2> QED BY <2>1, <2>2, <2>3
<1>6. \A v \in DOMAIN watchers' : watchers'[v].queue \in Seq(DOMAIN events')
  BY <1>1, <1>2, <1>4, <1>5, QueuesKept
<1>7. toBackend' \in Seq(KnownMessages')
  BY <1>1, <1>3, <1>4, MessagesKept
<1> QED BY <1>1, <1>4, <1>6, <1>7, GrantsKept DEF Known

-----------------------------------------------------------------------------
(* The types of the frontends and the backend. *)

\* A step of the service leaves them alone.
LEMMA ServiceStepKeepsTypes ==
    ASSUME SystemInv, ServiceInv', Grows, UNCHANGED <<frontend, backend>>
    PROVE  EndToEnd'
<1> USE DEF frontend, backend, SystemInv, EndToEnd, Grows
<1>1. seen' \in [Sessions -> Seq(DOMAIN events')]
  <2>1. \A s \in Sessions : seen[s] \in Seq(DOMAIN events')
    BY SeqMonotonic
  <2> QED BY <2>1
<1>2. toService' \in Seq(ServiceCall')
  <2>1. ServiceCall \subseteq ServiceCall'
    BY DEF ServiceCall
  <2>2. toService \in Seq(ServiceCall)
    BY DEF ServiceCall
  <2> QED BY <2>1, <2>2, SeqMonotonic
<1>3. told' \in [Sessions -> SUBSET DOMAIN watchers']
  OBVIOUS
<1>4. grants' \in [Sessions -> [Ids -> GrantType']]
  <2>1. GrantType \subseteq GrantType'
    BY DEF GrantType
  <2>2. grants \in [Sessions -> [Ids -> GrantType]]
    BY DEF GrantType
  <2> QED BY <2>1, <2>2
<1> QED BY <1>1, <1>2, <1>3, <1>4 DEF ServiceCall, GrantType

\* A step of the service keeps the invariant of the system.
LEMMA ServiceStepKeepsInv ==
    ASSUME SystemInv, NEW w, w \in DOMAIN watchers, WatcherNext(w), UNCHANGED <<frontend, backend>>
    PROVE  SystemInv'
<1>1. ServiceInv'
  BY WatcherKeepsInv DEF SystemInv
<1>2. Known' /\ Grows
  BY WatcherKeepsKnown
<1> QED BY <1>1, <1>2, ServiceStepKeepsTypes DEF SystemInv

\* Steps that leave the service alone have only their own types to keep.
LEMMA ServiceUnchanged ==
    ASSUME SystemInv, UNCHANGED service,
           grants' \in [Sessions -> [Ids -> GrantType]],
           \A s \in Sessions, id \in Ids : grants'[s][id].at = "held" => grants'[s][id].watcherId \in DOMAIN handles,
           made' \in [Frontends -> 0 .. MaxRequests], wanted' \in [Frontends -> SUBSET Ids],
           link' \in [Frontends -> 0 .. Len(owner')], waiting' \in [Frontends -> Seq(FrontCall)],
           owner' \in Seq(Frontends), open' \subseteq DOMAIN owner', up' \in [Sessions -> Seq(FrontCall)],
           toService' \in Seq(ServiceCall),
           seen' \in [Sessions -> Seq(DOMAIN events)], told' \in [Sessions -> SUBSET DOMAIN watchers]
    PROVE  SystemInv'
<1>1. ServiceInv'
  BY QuietKeepsInv DEF service, SystemInv, ServiceInv, RestType
<1>2. EndToEnd'
  BY DEF service, SystemInv, EndToEnd, GrantType, FrontCall, ServiceCall
<1>3. Known'
  BY DEF service, SystemInv, Known, KnownMessages
<1> QED BY <1>1, <1>2, <1>3 DEF SystemInv

LEMMA Types ==
    ASSUME SystemInv
    PROVE  /\ ServiceInv /\ Known
           /\ grants \in [Sessions -> [Ids -> GrantType]]
           /\ made \in [Frontends -> 0 .. MaxRequests] /\ wanted \in [Frontends -> SUBSET Ids]
           /\ link \in [Frontends -> 0 .. Len(owner)] /\ waiting \in [Frontends -> Seq(FrontCall)]
           /\ owner \in Seq(Frontends) /\ open \subseteq DOMAIN owner /\ up \in [Sessions -> Seq(FrontCall)]
           /\ toService \in Seq(ServiceCall)
           /\ seen \in [Sessions -> Seq(DOMAIN events)] /\ told \in [Sessions -> SUBSET DOMAIN watchers]
           /\ \A s \in Sessions, id \in Ids : grants[s][id].at = "held" => grants[s][id].watcherId \in DOMAIN handles
           /\ Len(owner) \in Nat /\ DOMAIN owner = 1 .. Len(owner)
BY LenProperties DEF SystemInv, EndToEnd, Known, GrantType, FrontCall, ServiceCall

LEMMA CallType ==
    ASSUME SystemInv, NEW f \in Frontends, NEW call \in FrontCall, Call(f, call)
    PROVE  waiting' \in [Frontends -> Seq(FrontCall)] /\ up' \in [Sessions -> Seq(FrontCall)]
<1>1. \A q \in Seq(FrontCall) : Append(q, call) \in Seq(FrontCall)
  BY AppendProperties
<1>2. waiting \in [Frontends -> Seq(FrontCall)] /\ up \in [Sessions -> Seq(FrontCall)]
  BY Types
<1> QED BY <1>1, <1>2 DEF Call

LEMMA FrontendKeepsInv ==
    ASSUME SystemInv, NEW f \in Frontends, Frontend(f)
    PROVE  SystemInv'
<1>0. MaxRequests \in Nat /\ Clients = 1 .. Cardinality(Clients)
  BY SessionAssumption
<1>1. CASE FrontWatch(f)
  <2>1. made[f] \in 0 .. MaxRequests /\ made[f] + 1 \in Ids
    BY <1>0, <1>1, Types DEF FrontWatch, Ids
  <2>2. made' \in [Frontends -> 0 .. MaxRequests] /\ made'[f] = made[f] + 1
    BY <1>0, <1>1, <2>1, Types DEF FrontWatch, Ids
  <2>3. wanted' \in [Frontends -> SUBSET Ids]
    BY <1>1, <2>1, <2>2, Types DEF FrontWatch
  <2>4. [type |-> "watch", id |-> made'[f]] \in FrontCall
    BY <2>1, <2>2 DEF FrontCall
  <2>5. waiting' \in [Frontends -> Seq(FrontCall)] /\ up' \in [Sessions -> Seq(FrontCall)]
    BY <1>1, <2>4, CallType DEF FrontWatch
  <2> QED BY <1>1, <2>2, <2>3, <2>5, Types, ServiceUnchanged DEF FrontWatch
<1>2. ASSUME NEW id \in Ids, FrontUnwatch(f, id)
      PROVE  SystemInv'
  <2>1. wanted' \in [Frontends -> SUBSET Ids]
    BY <1>2, Types DEF FrontUnwatch
  <2>2. [type |-> "unwatch", id |-> id] \in FrontCall
    BY DEF FrontCall
  <2>3. waiting' \in [Frontends -> Seq(FrontCall)] /\ up' \in [Sessions -> Seq(FrontCall)]
    BY <1>2, <2>2, CallType DEF FrontUnwatch
  <2> QED BY <1>2, <2>1, <2>3, Types, ServiceUnchanged DEF FrontUnwatch
<1>3. CASE Lose(f)
  <2>1. link' \in [Frontends -> 0 .. Len(owner')]
    BY <1>3, Types DEF Lose, backend
  <2> QED BY <1>3, <2>1, Types, ServiceUnchanged DEF Lose, backend
<1>4. CASE Connect(f)
  <2> DEFINE s == Len(owner) + 1
  <2>1. owner' = Append(owner, f) /\ open' = open \cup {s} /\ link' = [link EXCEPT ![f] = s]
        /\ UNCHANGED <<service, made, wanted, grants, toService, seen, told>>
        /\ waiting' = [waiting EXCEPT ![f] = <<>>]
    BY <1>4 DEF Connect
  <2>2. owner' \in Seq(Frontends) /\ Len(owner') = s /\ DOMAIN owner' = 1 .. s
    BY <2>1, Types, AppendProperties
  <2>3. open' \subseteq DOMAIN owner' /\ link' \in [Frontends -> 0 .. Len(owner')]
    <3>1. link \in [Frontends -> 0 .. Len(owner)] /\ open \subseteq 1 .. Len(owner) /\ Len(owner) \in Nat
      BY Types
    <3>2. 0 .. Len(owner) \subseteq 0 .. s /\ 1 .. Len(owner) \subseteq 1 .. s /\ s \in 0 .. s /\ s \in 1 .. s
      BY <3>1
    <3>3. \A g \in Frontends : link'[g] \in 0 .. s
      BY <2>1, <3>1, <3>2
    <3> QED BY <2>1, <2>2, <3>1, <3>2, <3>3
  <2>4. waiting' \in [Frontends -> Seq(FrontCall)]
    BY <2>1, Types
  <2>5. up' \in [Sessions -> Seq(FrontCall)]
    <3>1. PICK order \in Orders(Reconnected(f)) :
              up' = [up EXCEPT ![s] = waiting[f] \o [i \in DOMAIN order |-> [type |-> "watch", id |-> order[i]]]]
      BY <1>4 DEF Connect
    <3>2. Reconnected(f) \in SUBSET Ids
      BY Types DEF Reconnected
    <3>3. Cardinality(Reconnected(f)) \in Nat
      <4>1. IsFiniteSet(Ids)
        BY <1>0, FS_Interval DEF Ids
      <4> QED BY <3>2, <4>1, FS_Subset, FS_CardinalityType
    <3>4. order \in [1 .. Cardinality(Reconnected(f)) -> Ids]
      BY <3>2 DEF Orders
    <3> DEFINE calls == [i \in DOMAIN order |-> [type |-> "watch", id |-> order[i]]]
    <3>5. calls \in Seq(FrontCall)
      <4>1. \A i \in DOMAIN order : calls[i] \in FrontCall
        BY <3>4 DEF FrontCall
      <4> QED BY <3>3, <3>4, <4>1
    <3> HIDE DEF calls
    <3>6. waiting[f] \o calls \in Seq(FrontCall)
      BY <3>5, Types, ConcatProperties
    <3>7. up' = [up EXCEPT ![s] = waiting[f] \o calls]
      BY <3>1 DEF calls
    <3> QED BY <3>6, <3>7, Types
  <2> QED BY <2>1, <2>2, <2>3, <2>4, <2>5, Types, ServiceUnchanged
<1> QED BY <1>1, <1>2, <1>3, <1>4 DEF Frontend

LEMMA LetGoTypes ==
    ASSUME SystemInv, NEW s \in Sessions, NEW ids \in SUBSET Ids, LetGo(s, ids)
    PROVE  /\ toService' \in Seq(ServiceCall) /\ grants' \in [Sessions -> [Ids -> GrantType]]
           /\ \A t \in Sessions, id \in Ids : grants'[t][id].at = "held" => grants'[t][id].watcherId \in DOMAIN handles
<1> DEFINE held == {id \in ids : grants[s][id].at = "held"}
           rest == [id \in Ids |-> CASE id \in held -> NoGrant
                                     [] id \in ids /\ grants[s][id].at = "pending" -> [NoGrant EXCEPT !.at = "dropped"]
                                     [] OTHER -> grants[s][id]]
<1>1. grants \in [Sessions -> [Ids -> GrantType]] /\ toService \in Seq(ServiceCall)
      /\ \A t \in Sessions, id \in Ids : grants[t][id].at = "held" => grants[t][id].watcherId \in DOMAIN handles
  BY Types
<1>2. toService' \in Seq(ServiceCall)
  <2>1. PICK order \in Orders(held) :
            toService' = toService \o
                [i \in DOMAIN order |-> [type |-> "unwatch", watcherId |-> grants[s][order[i]].watcherId]]
    BY DEF LetGo
  <2>2. Cardinality(held) \in Nat
    <3>1. held \in SUBSET Ids
      OBVIOUS
    <3>2. IsFiniteSet(Ids)
      <4>1. MaxRequests \in Nat
        BY SessionAssumption
      <4> HIDE DEF held
      <4> QED BY <4>1, FS_Interval DEF Ids
    <3> HIDE DEF held
    <3> QED BY <3>1, <3>2, FS_Subset, FS_CardinalityType
  <2>3. order \in [1 .. Cardinality(held) -> held]
    BY DEF Orders
  <2> DEFINE calls == [i \in DOMAIN order |-> [type |-> "unwatch", watcherId |-> grants[s][order[i]].watcherId]]
  <2>4. \A i \in DOMAIN order : calls[i] \in ServiceCall
    BY <1>1, <2>3 DEF ServiceCall
  <2>5. calls \in Seq(ServiceCall)
    <3>1. DOMAIN order = 1 .. Cardinality(held) /\ DOMAIN calls = DOMAIN order
      BY <2>3
    <3> HIDE DEF held, calls
    <3>2. calls = [i \in DOMAIN order |-> calls[i]]
      BY DEF calls
    <3> QED BY <2>2, <2>4, <3>1, <3>2
  <2> HIDE DEF calls
  <2>6. toService' = toService \o calls
    BY <2>1 DEF calls
  <2> QED BY <1>1, <2>5, <2>6, ConcatProperties
<1>3. grants' = [grants EXCEPT ![s] = rest]
  BY DEF LetGo
<1>4. \A id \in Ids : rest[id] \in GrantType /\ (rest[id].at = "held" => rest[id] = grants[s][id])
  <2>1. NoGrant \in GrantType /\ [NoGrant EXCEPT !.at = "dropped"] \in GrantType
        /\ NoGrant.at = "none" /\ [NoGrant EXCEPT !.at = "dropped"].at = "dropped"
    <3>1. 0 \in 0 .. Len(handles)
      BY Types
    <3> HIDE DEF held, rest
    <3> QED BY <3>1 DEF NoGrant, GrantType
  <2> SUFFICES ASSUME NEW id \in Ids
               PROVE  rest[id] \in GrantType /\ (rest[id].at = "held" => rest[id] = grants[s][id])
    OBVIOUS
  <2>2. rest[id] \in {NoGrant, [NoGrant EXCEPT !.at = "dropped"], grants[s][id]}
    OBVIOUS
  <2>3. grants[s][id] \in GrantType
    BY <1>1
  <2> HIDE DEF rest
  <2> QED BY <2>1, <2>2, <2>3
<1>5. rest \in [Ids -> GrantType]
  BY <1>4
<1> HIDE DEF rest
<1>6. /\ grants' \in [Sessions -> [Ids -> GrantType]]
      /\ \A t \in Sessions : grants'[t] = IF t = s THEN rest ELSE grants[t]
  BY <1>1, <1>3, <1>5
<1>7. \A t \in Sessions, id \in Ids : grants'[t][id].at = "held" => grants'[t][id].watcherId \in DOMAIN handles
  BY <1>1, <1>4, <1>6
<1> QED BY <1>2, <1>6, <1>7

\* One more grant.
LEMMA GrantTypes ==
    ASSUME SystemInv, NEW s \in Sessions, NEW id \in Ids, NEW g \in GrantType,
           g.at = "held" => g.watcherId \in DOMAIN handles, grants' = [grants EXCEPT ![s][id] = g]
    PROVE  /\ grants' \in [Sessions -> [Ids -> GrantType]]
           /\ \A t \in Sessions, i \in Ids : grants'[t][i].at = "held" => grants'[t][i].watcherId \in DOMAIN handles
<1>1. grants \in [Sessions -> [Ids -> GrantType]]
      /\ \A t \in Sessions, i \in Ids : grants[t][i].at = "held" => grants[t][i].watcherId \in DOMAIN handles
  BY Types
<1>2. \A t \in Sessions, i \in Ids : grants'[t][i] = IF t = s /\ i = id THEN g ELSE grants[t][i]
  BY <1>1
<1>3. grants' \in [Sessions -> [Ids -> GrantType]]
  BY <1>1
<1> QED BY <1>1, <1>2, <1>3

LEMMA ServerCallKeepsInv ==
    ASSUME SystemInv, NEW s \in Sessions, ServerCall(s)
    PROVE  SystemInv'
<1> DEFINE call == Head(up[s])
           id == call.id
<1>1. up[s] \in Seq(FrontCall) /\ up[s] # <<>> /\ up' = [up EXCEPT ![s] = Tail(@)]
      /\ UNCHANGED <<service, frontend, owner, open, seen, told>>
  BY Types DEF ServerCall
<1>2. call \in FrontCall /\ Tail(up[s]) \in Seq(FrontCall)
  BY <1>1, HeadTailProperties
<1>3. id \in Ids /\ up' \in [Sessions -> Seq(FrontCall)]
  BY <1>1, <1>2, Types DEF FrontCall
<1>4. /\ toService' \in Seq(ServiceCall) /\ grants' \in [Sessions -> [Ids -> GrantType]]
      /\ \A t \in Sessions, i \in Ids : grants'[t][i].at = "held" => grants'[t][i].watcherId \in DOMAIN handles
  <2>1. CASE /\ grants[s][id].at = "none"
             /\ grants' = [grants EXCEPT ![s][id].at = "pending"]
             /\ toService' = Append(toService, [type |-> "watch", session |-> s, id |-> id])
    <3>1. [type |-> "watch", session |-> s, id |-> id] \in ServiceCall
      BY <1>3 DEF ServiceCall
    <3>2. toService' \in Seq(ServiceCall)
      BY <2>1, <3>1, Types, AppendProperties
    <3> DEFINE g == [grants[s][id] EXCEPT !.at = "pending"]
    <3>3. grants[s][id] \in GrantType
      BY <1>3, Types
    <3>4. g \in GrantType /\ g.at = "pending"
      BY <3>3 DEF GrantType
    <3>5. grants' = [grants EXCEPT ![s][id] = g]
      BY <2>1
    <3> HIDE DEF g
    <3> QED BY <1>3, <3>2, <3>4, <3>5, GrantTypes
  <2>2. CASE LetGo(s, {id})
    BY <1>3, <2>2, LetGoTypes
  <2>3. CASE UNCHANGED <<grants, toService>>
    BY <2>3, Types
  <2> QED BY <2>1, <2>2, <2>3 DEF ServerCall
<1> QED BY <1>1, <1>3, <1>4, Types, ServiceUnchanged DEF frontend

LEMMA CloseSessionKeepsInv ==
    ASSUME SystemInv, NEW s \in Sessions, CloseSession(s)
    PROVE  SystemInv'
<1>1. /\ open' = open \ {s} /\ up' = [up EXCEPT ![s] = <<>>] /\ LetGo(s, Ids)
      /\ seen' = [seen EXCEPT ![s] = <<>>] /\ told' = [told EXCEPT ![s] = {}]
      /\ UNCHANGED <<service, frontend, owner>>
  BY DEF CloseSession
<1>2. up' \in [Sessions -> Seq(FrontCall)] /\ seen' \in [Sessions -> Seq(DOMAIN events)]
      /\ told' \in [Sessions -> SUBSET DOMAIN watchers]
  BY <1>1, Types
<1>3. /\ toService' \in Seq(ServiceCall) /\ grants' \in [Sessions -> [Ids -> GrantType]]
      /\ \A t \in Sessions, i \in Ids : grants'[t][i].at = "held" => grants'[t][i].watcherId \in DOMAIN handles
  BY <1>1, LetGoTypes
<1> QED BY <1>1, <1>2, <1>3, Types, ServiceUnchanged DEF frontend

LEMMA DispatchKeepsInv ==
    ASSUME SystemInv, Dispatch
    PROVE  SystemInv'
<1> DEFINE msg == Head(toBackend)
<1>1. /\ toBackend # <<>> /\ toBackend' = Tail(toBackend)
      /\ UNCHANGED <<watchers, current, handles, events, failures, frontend, owner, open, up>>
  BY DEF Dispatch, Taken
<1>2. msg \in KnownMessages /\ toBackend' \in Seq(KnownMessages) /\ toBackend' \in Seq(Messages)
  BY <1>1, Domains, Types, HeadTailProperties DEF Known
<1>3. ServiceInv'
  BY <1>1, <1>2, Types, QuietKeepsInv
<1>4. /\ toService' \in Seq(ServiceCall) /\ grants' \in [Sessions -> [Ids -> GrantType]]
      /\ seen' \in [Sessions -> Seq(DOMAIN events)] /\ told' \in [Sessions -> SUBSET DOMAIN watchers]
      /\ \A t \in Sessions, i \in Ids : grants'[t][i].at = "held" => grants'[t][i].watcherId \in DOMAIN handles
  <2>1. CASE msg.type = "watched"
    <3> DEFINE s == msg.call.session
               id == msg.call.id
    <3>1. Grant(msg)
      BY <2>1 DEF Dispatch
    <3>2. msg.id \in DOMAIN handles /\ msg.call \in Calls
      BY <1>2, <2>1 DEF KnownMessages
    <3>3. s \in Sessions /\ id \in Ids
      BY <3>2, SessionAssumption DEF Sessions
    <3>4. seen' = seen /\ told' = told
      BY <3>1 DEF Grant
    <3>5. CASE grants[s][id].at = "dropped"
      <4>1. grants' = [grants EXCEPT ![s][id] = NoGrant]
            /\ toService' = Append(toService, [type |-> "unwatch", watcherId |-> msg.id])
        BY <3>1, <3>5 DEF Grant
      <4>2. [type |-> "unwatch", watcherId |-> msg.id] \in ServiceCall
        BY <3>2 DEF ServiceCall
      <4>3. NoGrant \in GrantType /\ NoGrant.at = "none"
        BY Domains, Types DEF NoGrant, GrantType
      <4>4. toService' \in Seq(ServiceCall)
        BY <4>1, <4>2, Types, AppendProperties
      <4> QED BY <3>3, <3>4, <4>1, <4>3, <4>4, GrantTypes, Types
    <3>6. CASE grants[s][id].at # "dropped"
      <4> DEFINE g == [at |-> "held", watcherId |-> msg.id]
      <4>1. grants' = [grants EXCEPT ![s][id] = g] /\ toService' = toService
        BY <3>1, <3>6 DEF Grant
      <4>2. g \in GrantType /\ g.watcherId \in DOMAIN handles
        BY <3>2, Domains, Types DEF GrantType
      <4> HIDE DEF g
      <4> QED BY <3>3, <3>4, <4>1, <4>2, GrantTypes, Types
    <3> QED BY <3>5, <3>6
  <2>2. CASE msg.type = "changed"
    <3>1. UNCHANGED <<grants, toService, told>>
          /\ seen' = [s \in Sessions |-> IF s \in Registered(msg.clients) THEN Append(seen[s], msg.event) ELSE seen[s]]
      BY <2>2 DEF Dispatch
    <3>2. msg.event \in DOMAIN events
      BY <1>2, <2>2 DEF KnownMessages
    <3>3. \A s \in Sessions : Append(seen[s], msg.event) \in Seq(DOMAIN events)
      BY <3>2, Types, AppendProperties
    <3>4. seen' \in [Sessions -> Seq(DOMAIN events)]
      BY <3>1, <3>3, Types
    <3> QED BY <3>1, <3>4, Types
  <2>3. CASE msg.type = "error"
    <3>1. UNCHANGED <<grants, toService, seen>>
          /\ told' = [s \in Sessions |-> IF s \in Registered(msg.clients) THEN told[s] \cup {msg.watcher} ELSE told[s]]
      BY <2>3 DEF Dispatch
    <3>2. msg.watcher \in DOMAIN watchers
      BY <1>2, <2>3 DEF KnownMessages
    <3>3. told' \in [Sessions -> SUBSET DOMAIN watchers]
      BY <3>1, <3>2, Types
    <3> QED BY <3>1, <3>3, Types
  <2> QED BY <1>2, <2>1, <2>2, <2>3 DEF KnownMessages
<1>5. EndToEnd'
  BY <1>1, <1>4, Types DEF EndToEnd, GrantType, ServiceCall, FrontCall, frontend
<1>6. Known'
  BY <1>1, <1>2, <1>4, Types DEF Known, KnownMessages
<1> QED BY <1>3, <1>5, <1>6 DEF SystemInv

\* A request to the service changes the service as the service specifies it.
LEMMA RequestIsTyped ==
    ASSUME SystemInv, ServiceRequest
    PROVE  LET call == Head(toService)
           IN  /\ call.type = "watch" =>
                     /\ call.session \in Clients /\ [session |-> call.session, id |-> call.id] \in Calls
                     /\ Watch(call.session, [session |-> call.session, id |-> call.id])
               /\ call.type # "watch" => call.watcherId \in DOMAIN handles /\ Unwatch(call.watcherId)
               /\ toService' \in Seq(ServiceCall)
<1>1. toService # <<>> /\ toService' = Tail(toService)
  BY DEF ServiceRequest
<1>2. Head(toService) \in ServiceCall /\ toService' \in Seq(ServiceCall)
  BY <1>1, Types, HeadTailProperties
<1>3. Head(toService).type = "watch" =>
          /\ Head(toService).session \in Clients
          /\ [session |-> Head(toService).session, id |-> Head(toService).id] \in Calls
  BY <1>2, SessionAssumption DEF ServiceCall, Sessions
<1>4. Head(toService).type # "watch" => Head(toService).watcherId \in DOMAIN handles
  BY <1>2 DEF ServiceCall
<1> QED BY <1>2, <1>3, <1>4 DEF ServiceRequest

LEMMA ServiceRequestKeepsInv ==
    ASSUME SystemInv, ServiceRequest
    PROVE  SystemInv'
<1> DEFINE call == Head(toService)
<1>1. ServiceInv
  BY Types
<1>2. UNCHANGED <<frontend, owner, open, up, grants, seen, told>>
  BY DEF ServiceRequest
<1>3. ServiceInv' /\ Known' /\ Grows
  <2>1. CASE call.type = "watch"
    <3>1. Watch(call.session, [session |-> call.session, id |-> call.id])
          /\ call.session \in Clients /\ [session |-> call.session, id |-> call.id] \in Calls
      BY <2>1, RequestIsTyped
    <3> QED BY <1>1, <1>2, <3>1, RequestKeepsInv, WatchKeepsKnown
  <2>2. CASE call.type # "watch"
    <3>1. Unwatch(call.watcherId) /\ call.watcherId \in DOMAIN handles
      BY <2>2, RequestIsTyped
    <3> QED BY <1>1, <1>2, <3>1, RequestKeepsInv, UnwatchKeepsKnown
  <2> QED BY <2>1, <2>2
<1>4. toService' \in Seq(ServiceCall')
  <2>1. ServiceCall \subseteq ServiceCall'
    BY <1>3 DEF ServiceCall, Grows
  <2>2. toService' \in Seq(ServiceCall)
    BY RequestIsTyped
  <2> QED BY <2>1, <2>2, SeqMonotonic
<1>5. seen' \in [Sessions -> Seq(DOMAIN events')]
  <2>1. \A s \in Sessions : seen[s] \in Seq(DOMAIN events')
    BY <1>3, Types, SeqMonotonic DEF Grows
  <2> QED BY <1>2, <2>1, Types
<1>6. told' \in [Sessions -> SUBSET DOMAIN watchers']
  BY <1>2, <1>3, Types DEF Grows
<1>7. grants' \in [Sessions -> [Ids -> GrantType']]
  <2>1. GrantType \subseteq GrantType'
    BY <1>3 DEF GrantType, Grows
  <2> QED BY <1>2, <2>1, Types
<1>8. EndToEnd'
  BY <1>2, <1>4, <1>5, <1>6, <1>7, Types DEF EndToEnd, GrantType, ServiceCall, FrontCall, frontend
<1> QED BY <1>3, <1>8 DEF SystemInv

-----------------------------------------------------------------------------
LEMMA SystemInitInv == Init => SystemInv
<1> SUFFICES ASSUME Init PROVE SystemInv
  OBVIOUS
<1>1. ServiceInv
  BY ServiceInitInv DEF Init
<1>2. watchers = <<>> /\ handles = <<>> /\ toBackend = <<>> /\ owner = <<>> /\ toService = <<>> /\ open = {}
  BY DEF Init, ServiceInit
<1>3. EndToEnd
  <2>1. MaxRequests \in Nat
    BY SessionAssumption
  <2> QED BY <1>2, <2>1 DEF Init, ServiceInit, EndToEnd, NoGrant
<1>4. Known
  BY <1>2 DEF Known, Init, NoGrant
<1> QED BY <1>1, <1>3, <1>4 DEF SystemInv

LEMMA SystemNextInv == SystemInv /\ [Next]_vars => SystemInv'
<1> SUFFICES ASSUME SystemInv, [Next]_vars PROVE SystemInv'
  OBVIOUS
<1>1. CASE UNCHANGED vars
  BY <1>1, Types, ServiceUnchanged DEF vars, frontend, backend
<1>2. CASE \E f \in Frontends : Frontend(f)
  BY <1>2, FrontendKeepsInv
<1>3. CASE Backend
  BY <1>3, ServiceRequestKeepsInv, DispatchKeepsInv, ServerCallKeepsInv, CloseSessionKeepsInv DEF Backend
<1>4. CASE Service
  BY <1>4, ServiceStepKeepsInv DEF Service
<1> QED BY <1>1, <1>2, <1>3, <1>4 DEF Next

THEOREM SystemInvariant == Spec => []SystemInv
BY SystemInitInv, SystemNextInv, PTL DEF Spec

\* The variables of the whole system keep their types: no session asks for an id
\* the service has not given out, and no message speaks of what does not exist.
THEOREM TypeCorrect == Spec => []TypeOK
<1>1. SystemInv => TypeOK
  BY ServiceTypeIsSplit DEF SystemInv, ServiceInv, Core, TypeOK
<1> QED BY <1>1, SystemInvariant, PTL

\* However the connections break, what the sessions do with the service is what
\* the service expects: file watching implements the service's specification.
THEOREM UsesServiceAsSpecified == Spec => ServiceSpec
<1>1. Init => ServiceInit
  BY DEF Init
<1>2. SystemInv /\ [Next]_vars => [ServiceNext]_service
  <2> SUFFICES ASSUME SystemInv, [Next]_vars PROVE ServiceNext \/ UNCHANGED service
    OBVIOUS
  <2>1. CASE UNCHANGED vars
    BY <2>1 DEF vars
  <2>2. ASSUME NEW f \in Frontends, Frontend(f) PROVE UNCHANGED service
    BY <2>2 DEF Frontend, FrontWatch, FrontUnwatch, Connect, Lose
  <2>3. CASE ServiceRequest
    BY <2>3, RequestIsTyped DEF ServiceNext
  <2>4. CASE Dispatch
    BY <2>4 DEF Dispatch, ServiceNext
  <2>5. ASSUME NEW s \in Sessions, ServerCall(s) \/ CloseSession(s) PROVE UNCHANGED service
    BY <2>5 DEF ServerCall, CloseSession
  <2>6. CASE Service
    BY <2>6 DEF Service, ServiceNext
  <2> QED BY <2>1, <2>2, <2>3, <2>4, <2>5, <2>6 DEF Next, Backend
<1> QED BY <1>1, <1>2, SystemInvariant, PTL DEF Spec, ServiceSpec

\* So its invariants hold in the whole system.
THEOREM ServiceInvariantsHold ==
    Spec => [](RefsMatchHandles /\ OneLiveWatcher /\ DisposalIfUnused /\ RunningIsLive)
BY UsesServiceAsSpecified, ReferencesCounted, OneWatcherPerPath, DisposalScheduled, NoStrayNativeWatcher, PTL

-----------------------------------------------------------------------------
(* What the steps of a watcher have to do with events and errors. *)

\* Handles keep their client and their watcher, and none comes back.
HandlesFade ==
    /\ DOMAIN handles' = DOMAIN handles
    /\ \A id \in DOMAIN handles : /\ handles'[id].client = handles[id].client
                                  /\ handles'[id].watcher = handles[id].watcher
                                  /\ handles'[id].live => handles[id].live

\* Those that expect what watcher w tells.
Expecting(w) == {id \in DOMAIN handles : handles[id].live /\ handles[id].watcher = w}

\* The four things a watcher may do.
StaysQuiet(w) ==
    /\ watchers'[w].queue = watchers[w].queue /\ UNCHANGED <<events, toBackend>>
    /\ watchers'[w].disposed = watchers[w].disposed \/ Unused(watchers[w])
HasFailed(w) ==
    /\ watchers'[w].queue = watchers[w].queue /\ UNCHANGED events
    /\ Send([type |-> "error", clients |-> ClientIds(watchers[w]), watcher |-> w])
Raises(w) ==
    /\ watchers'[w].queue = Append(watchers[w].queue, Len(events) + 1)
    /\ events' = Append(events, [watcher |-> w, ids |-> Expecting(w)])
    /\ UNCHANGED <<toBackend, handles>> /\ watchers'[w].disposed = watchers[w].disposed
Processes(w) ==
    /\ watchers[w].queue # <<>> /\ watchers'[w].queue = Tail(watchers[w].queue)
    /\ UNCHANGED <<events, handles>> /\ watchers'[w].disposed = watchers[w].disposed
    /\ Send([type |-> "changed", clients |-> ClientIds(watchers[w]), event |-> Head(watchers[w].queue)])

Tells(w) == HandlesFade /\ (StaysQuiet(w) \/ HasFailed(w) \/ Raises(w) \/ Processes(w))

LEMMA WatcherTells ==
    ASSUME ServiceInv, NEW w, w \in DOMAIN watchers, WatcherNext(w)
    PROVE  /\ DOMAIN watchers' = DOMAIN watchers
           /\ \A v \in DOMAIN watchers : v # w => watchers'[v] = watchers[v]
           /\ watchers'[w].refs = watchers[w].refs
           /\ Tells(w)
<1> DEFINE old == watchers[w]
<1>1. old \in Watchers /\ w \in Nat
  BY WatcherIsTyped, Domains
<1>2. /\ DOMAIN watchers' = DOMAIN watchers
      /\ \A v \in DOMAIN watchers : v # w => watchers'[v] = watchers[v]
      /\ watchers'[w].refs = watchers[w].refs
  BY WatcherEffect
<1>3. ASSUME NEW x, watchers' = [watchers EXCEPT ![w] = x] PROVE watchers'[w] = x
  BY <1>3
<1>4. UNCHANGED handles \/ Forget(w) => HandlesFade
  <2>1. CASE UNCHANGED handles
    BY <2>1 DEF HandlesFade
  <2>2. CASE Forget(w)
    <3>1. \A id \in DOMAIN handles : handles[id] \in Handles
      BY Domains, ElementOfSeq DEF ServiceInv, Core, CoreType
    <3>2. DOMAIN handles' = DOMAIN handles
          /\ \A id \in DOMAIN handles : handles'[id] = IF handles[id].watcher = w THEN [handles[id] EXCEPT !.live = FALSE]
                                                       ELSE handles[id]
      BY <2>2 DEF Forget
    <3>3. \A h \in Handles : /\ [h EXCEPT !.live = FALSE].client = h.client
                             /\ [h EXCEPT !.live = FALSE].watcher = h.watcher
                             /\ [h EXCEPT !.live = FALSE].live = FALSE
      BY DEF Handles
    <3> QED BY <3>1, <3>2, <3>3 DEF HandlesFade
  <2> QED BY <2>1, <2>2
<1>5. \A x \in Watchers : Disposed(x).queue = x.queue
  BY DEF Disposed, Watchers
<1>6. ASSUME NEW x \in Watchers, x.queue = old.queue, Fail(w, x) PROVE Tells(w)
  <2>1. HandlesFade /\ UNCHANGED events /\ watchers' = [watchers EXCEPT ![w] = Disposed(x)]
        /\ Send([type |-> "error", clients |-> ClientIds(watchers[w]), watcher |-> w])
    BY <1>4, <1>6 DEF Fail, FireError
  <2>2. watchers'[w].queue = old.queue
    BY <1>3, <1>5, <1>6, <2>1
  <2> QED BY <2>1, <2>2 DEF Tells, HasFailed
<1>7. ASSUME NEW x \in Watchers, x.queue = old.queue, x.disposed = old.disposed, UNCHANGED <<handles, events, toBackend>>,
             watchers' = [watchers EXCEPT ![w] = x]
      PROVE  Tells(w)
  <2>1. HandlesFade /\ watchers'[w] = x
    BY <1>3, <1>4, <1>7
  <2> QED BY <1>7, <2>1 DEF Tells, StaysQuiet
<1> SUFFICES Tells(w)
  BY <1>2
<1>8. CASE DisposalTimer(w)
  <2> DEFINE x == [old EXCEPT !.timer = FALSE]
  <2>1. x \in Watchers /\ x.queue = old.queue /\ x.disposed = old.disposed
    BY <1>1 DEF Watchers
  <2>2. /\ old.timer /\ UNCHANGED <<events, toBackend>>
        /\ IF x.disposed THEN watchers' = [watchers EXCEPT ![w] = x] /\ UNCHANGED handles
           ELSE watchers' = [watchers EXCEPT ![w] = Disposed(x)] /\ Forget(w)
    BY <1>8 DEF DisposalTimer
  <2> HIDE DEF x
  <2>3. CASE x.disposed
    BY <1>7, <2>1, <2>2, <2>3
  <2>4. CASE ~x.disposed
    <3>1. watchers'[w].queue = old.queue
      BY <1>3, <1>5, <2>1, <2>2, <2>4
    <3>2. Unused(watchers[w])
      BY <2>1, <2>2, <2>4 DEF ServiceInv, Core, DisposalIfUnused, Live
    <3> QED BY <1>4, <2>2, <2>4, <3>1, <3>2 DEF Tells, StaysQuiet
  <2> QED BY <2>3, <2>4
<1>9. CASE Create(w)
  <2> DEFINE x == [old EXCEPT !.start = "starting", !.native = "starting"]
  <2>1. x \in Watchers /\ x.queue = old.queue /\ x.disposed = old.disposed
    BY <1>1 DEF Watchers
  <2>2. (watchers' = [watchers EXCEPT ![w] = x] /\ UNCHANGED <<handles, events, toBackend>>) \/ Fail(w, old)
    BY <1>9 DEF Create
  <2> HIDE DEF x
  <2> QED BY <1>1, <1>6, <1>7, <2>1, <2>2
<1>10. CASE Started(w)
  <2> DEFINE x == [old EXCEPT !.start = "done", !.native = IF old.disposed THEN "stopping" ELSE "running"]
  <2>1. x \in Watchers /\ x.queue = old.queue /\ x.disposed = old.disposed
    BY <1>1 DEF Watchers
  <2>2. watchers' = [watchers EXCEPT ![w] = x] /\ UNCHANGED <<handles, events, toBackend>>
    BY <1>10 DEF Started
  <2> HIDE DEF x
  <2> QED BY <1>7, <2>1, <2>2
<1>11. CASE StartFails(w) \/ Stopped(w)
  <2> DEFINE x == [old EXCEPT !.native = "stopped"]
  <2>1. x \in Watchers /\ x.queue = old.queue /\ x.disposed = old.disposed
    BY <1>1 DEF Watchers
  <2>2. (watchers' = [watchers EXCEPT ![w] = x] /\ UNCHANGED <<handles, events, toBackend>>) \/ Fail(w, x)
    BY <1>11 DEF StartFails, Stopped
  <2> HIDE DEF x
  <2> QED BY <1>6, <1>7, <2>1, <2>2
<1>12. CASE Crash(w)
  BY <1>1, <1>6, <1>12 DEF Crash
<1>13. CASE Event(w)
  <2> DEFINE x == [old EXCEPT !.queue = Append(old.queue, Len(events) + 1)]
  <2>1. x.queue = Append(old.queue, Len(events) + 1) /\ x.disposed = old.disposed
    BY <1>1 DEF Watchers
  <2>2. watchers' = [watchers EXCEPT ![w] = x] /\ UNCHANGED <<handles, toBackend>>
        /\ events' = Append(events, [watcher |-> w, ids |-> Expecting(w)])
    BY <1>13 DEF Event, Expecting
  <2> HIDE DEF x
  <2>3. watchers'[w] = x
    BY <1>3, <2>2
  <2> QED BY <1>4, <2>1, <2>2, <2>3 DEF Tells, Raises
<1>14. CASE ProcessEvent(w)
  <2> DEFINE x == [old EXCEPT !.queue = Tail(old.queue)]
  <2>1. x.queue = Tail(old.queue) /\ x.disposed = old.disposed
    BY <1>1 DEF Watchers
  <2>2. watchers' = [watchers EXCEPT ![w] = x] /\ UNCHANGED <<handles, events>> /\ old.queue # <<>>
        /\ Send([type |-> "changed", clients |-> ClientIds(old), event |-> Head(old.queue)])
    BY <1>14 DEF ProcessEvent
  <2> HIDE DEF x
  <2>3. watchers'[w] = x
    BY <1>3, <2>2
  <2> QED BY <1>4, <2>1, <2>2, <2>3 DEF Tells, Processes
<1> QED BY <1>8, <1>9, <1>10, <1>11, <1>12, <1>13, <1>14 DEF WatcherNext, WatcherStep

\* What a request of one of the clients `by' does: it only touches live watchers.
Asks(by) ==
    /\ UNCHANGED events
    /\ DOMAIN watchers \subseteq DOMAIN watchers' /\ DOMAIN handles \subseteq DOMAIN handles'
    /\ \A v \in DOMAIN watchers :
          /\ watchers'[v].queue = watchers[v].queue /\ watchers'[v].disposed = watchers[v].disposed
          /\ watchers'[v].disposed => watchers'[v].refs = watchers[v].refs
          /\ ClientIds(watchers'[v]) \subseteq ClientIds(watchers[v]) \cup by
    /\ \A v \in DOMAIN watchers' \ DOMAIN watchers :
          /\ watchers'[v].queue = <<>> /\ ~watchers'[v].disposed
          /\ ClientIds(watchers'[v]) \subseteq by
    /\ \A id \in DOMAIN handles : /\ handles'[id].client = handles[id].client
                                  /\ handles'[id].watcher = handles[id].watcher
                                  /\ handles'[id].live => handles[id].live
    /\ \A id \in DOMAIN handles' \ DOMAIN handles : handles'[id].client \in by
    /\ UNCHANGED toBackend \/ \E msg : msg.type = "watched" /\ Send(msg)

LEMMA WatchAsks ==
    ASSUME ServiceInv, NEW c \in Clients, NEW call \in Calls, Watch(c, call)
    PROVE  Asks({c})
<1> SUFFICES ASSUME NEW h, h = [client |-> c, watcher |-> current', live |-> TRUE],
                    NEW msg, msg = [type |-> "watched", call |-> call, id |-> Len(handles) + 1]
             PROVE  Asks({c})
  OBVIOUS
<1>1. handles' = Append(handles, h) /\ UNCHANGED events /\ Send(msg) /\ msg.type = "watched" /\ h.client = c
  BY DEF Watch
<1>2. /\ Len(handles) \in Nat /\ DOMAIN handles = 1 .. Len(handles)
      /\ Len(watchers) \in Nat /\ DOMAIN watchers = 1 .. Len(watchers)
      /\ \A v \in DOMAIN watchers : watchers[v] \in Watchers
  BY Domains, WatcherIsTyped
<1>3. /\ DOMAIN handles \subseteq DOMAIN handles'
      /\ \A id \in DOMAIN handles : handles'[id] = handles[id]
      /\ \A id \in DOMAIN handles' \ DOMAIN handles : handles'[id] = h
  BY <1>1, <1>2
<1>4. /\ DOMAIN watchers \subseteq DOMAIN watchers'
      /\ \A v \in DOMAIN watchers :
            /\ watchers'[v].queue = watchers[v].queue /\ watchers'[v].disposed = watchers[v].disposed
            /\ watchers'[v].disposed => watchers'[v].refs = watchers[v].refs
            /\ ClientIds(watchers'[v]) \subseteq ClientIds(watchers[v]) \cup {c}
      /\ \A v \in DOMAIN watchers' \ DOMAIN watchers :
            /\ watchers'[v].queue = <<>> /\ ~watchers'[v].disposed
            /\ ClientIds(watchers'[v]) \subseteq {c}
  <2>1. CASE current = 0
    <3>1. watchers' = Append(watchers, NewWatcher(c))
      BY <2>1 DEF Watch
    <3>2. NewWatcher(c).queue = <<>> /\ ~NewWatcher(c).disposed /\ ClientIds(NewWatcher(c)) \subseteq {c}
      BY DEF NewWatcher, ClientIds
    <3>3. /\ DOMAIN watchers \subseteq DOMAIN watchers'
          /\ \A v \in DOMAIN watchers : watchers'[v] = watchers[v]
          /\ \A v \in DOMAIN watchers' \ DOMAIN watchers : watchers'[v] = NewWatcher(c)
      BY <1>2, <3>1
    <3> QED BY <3>2, <3>3
  <2>2. CASE current # 0
    <3>1. watchers' = [watchers EXCEPT ![current] = AddRef(watchers[current], c)]
      BY <2>2 DEF Watch
    <3>2. \A x \in Watchers : /\ AddRef(x, c).queue = x.queue /\ AddRef(x, c).disposed = x.disposed
                              /\ ClientIds(AddRef(x, c)) \subseteq ClientIds(x) \cup {c}
      BY DEF AddRef, Watchers, ClientIds
    <3>3. DOMAIN watchers' = DOMAIN watchers
          /\ \A v \in DOMAIN watchers : watchers'[v] = IF v = current THEN AddRef(watchers[v], c) ELSE watchers[v]
      BY <3>1
    <3>4. \A v \in DOMAIN watchers : watchers[v].disposed => v # current
      BY DEF ServiceInv, Core, OneLiveWatcher, Live
    <3> QED BY <1>2, <3>2, <3>3, <3>4
  <2> QED BY <2>1, <2>2
<1> QED BY <1>1, <1>3, <1>4 DEF Asks

LEMMA UnwatchAsks ==
    ASSUME ServiceInv, NEW id, id \in DOMAIN handles, Unwatch(id)
    PROVE  Asks({})
<1>1. UNCHANGED <<events, toBackend>>
  BY DEF Unwatch
<1>2. /\ \A v \in DOMAIN watchers : watchers[v] \in Watchers
      /\ \A i \in DOMAIN handles : handles[i] \in Handles
  BY WatcherIsTyped, Domains, ElementOfSeq DEF ServiceInv, Core, CoreType
<1>3. CASE ~handles[id].live
  BY <1>1, <1>3 DEF Unwatch, Asks
<1>4. CASE handles[id].live
  <2> SUFFICES ASSUME NEW w, w = handles[id].watcher, NEW c, c = handles[id].client
               PROVE  Asks({})
    OBVIOUS
  <2>1. /\ handles' = [handles EXCEPT ![id].live = FALSE]
        /\ watchers' = [watchers EXCEPT ![w] = RemoveRef(watchers[w], c)]
    BY <1>4 DEF Unwatch
  <2>2. w \in DOMAIN watchers /\ c \in Clients
    BY <1>2, Domains DEF Handles
  <2>3. ~watchers[w].disposed
    <3>1. id \in IdsOf(w, c)
      BY <1>4 DEF IdsOf
    <3> QED BY <2>2, <3>1 DEF ServiceInv, Core, RefsMatchHandles, Live
  <2>4. \A x \in Watchers : /\ RemoveRef(x, c).queue = x.queue /\ RemoveRef(x, c).disposed = x.disposed
                            /\ ClientIds(RemoveRef(x, c)) \subseteq ClientIds(x)
    BY DEF RemoveRef, Watchers, ClientIds
  <2>5. DOMAIN watchers' = DOMAIN watchers
        /\ \A v \in DOMAIN watchers : watchers'[v] = IF v = w THEN RemoveRef(watchers[v], c) ELSE watchers[v]
    BY <2>1
  <2>6. DOMAIN handles' = DOMAIN handles
        /\ \A i \in DOMAIN handles : handles'[i] = IF i = id THEN [handles[i] EXCEPT !.live = FALSE] ELSE handles[i]
    BY <2>1
  <2>7. \A i \in DOMAIN handles : /\ handles'[i].client = handles[i].client
                                  /\ handles'[i].watcher = handles[i].watcher
                                  /\ handles'[i].live => handles[i].live
    BY <1>2, <1>4, <2>6 DEF Handles
  <2>8. \A v \in DOMAIN watchers :
           /\ watchers'[v].queue = watchers[v].queue /\ watchers'[v].disposed = watchers[v].disposed
           /\ watchers'[v].disposed => watchers'[v].refs = watchers[v].refs
           /\ ClientIds(watchers'[v]) \subseteq ClientIds(watchers[v]) \cup {}
    BY <1>2, <2>3, <2>4, <2>5
  <2> QED BY <1>1, <2>5, <2>6, <2>7, <2>8 DEF Asks
<1> QED BY <1>3, <1>4

\* A request of the service comes from a session whose request was on its way.
LEMMA RequestAsks ==
    ASSUME SystemInv, ServiceRequest
    PROVE  /\ toService # <<>> /\ toService' = Tail(toService)
           /\ UNCHANGED <<frontend, owner, open, up, grants, seen, told>>
           /\ Asks(IF Head(toService).type = "watch" THEN {Head(toService).session} ELSE {})
<1> DEFINE call == Head(toService)
<1>1. /\ toService # <<>> /\ toService' = Tail(toService)
      /\ UNCHANGED <<frontend, owner, open, up, grants, seen, told>>
  BY DEF ServiceRequest
<1>2. CASE call.type = "watch"
  <2>1. Watch(call.session, [session |-> call.session, id |-> call.id])
        /\ call.session \in Clients /\ [session |-> call.session, id |-> call.id] \in Calls
    BY <1>2, RequestIsTyped
  <2>2. Asks({call.session})
    BY <2>1, Types, WatchAsks
  <2> QED BY <1>1, <1>2, <2>2
<1>3. CASE call.type # "watch"
  <2>1. Unwatch(call.watcherId) /\ call.watcherId \in DOMAIN handles
    BY <1>3, RequestIsTyped
  <2> QED BY <1>1, <1>3, <2>1, Types, UnwatchAsks
<1> QED BY <1>2, <1>3

-----------------------------------------------------------------------------
(* Sequences and what is in them. *)

SetOf(s) == {s[i] : i \in DOMAIN s}

\* t is s and x behind it.
Longer(s, x, t) ==
    \E n \in Nat : /\ DOMAIN t = DOMAIN s \cup {n} /\ t[n] = x
                   /\ \A i \in DOMAIN s : i \in Nat /\ i < n /\ t[i] = s[i]

\* t is s without its first.
Shorter(s, t) ==
    /\ 1 \in DOMAIN s /\ DOMAIN s \subseteq Nat
    /\ \A i \in DOMAIN t : i \in Nat /\ i + 1 \in DOMAIN s /\ 1 < i + 1 /\ t[i] = s[i + 1]
    /\ \A i \in DOMAIN s : i # 1 => i - 1 \in DOMAIN t /\ t[i - 1] = s[i]

LEMMA AppendPlaces ==
    ASSUME NEW S, NEW s \in Seq(S), NEW x, NEW t, t = Append(s, x)
    PROVE  Longer(s, x, t) /\ SetOf(t) = SetOf(s) \cup {x}
<1>1. Len(s) \in Nat /\ DOMAIN s = 1 .. Len(s)
  BY LenProperties
<1>2. DOMAIN t = 1 .. Len(s) + 1 /\ t[Len(s) + 1] = x /\ \A i \in 1 .. Len(s) : t[i] = s[i]
  BY <1>1
<1>3. DOMAIN t = DOMAIN s \cup {Len(s) + 1} /\ \A i \in DOMAIN s : i \in Nat /\ i < Len(s) + 1
  BY <1>1, <1>2
<1>4. Longer(s, x, t)
  BY <1>1, <1>2, <1>3 DEF Longer
<1> QED BY <1>1, <1>2, <1>3, <1>4 DEF SetOf

LEMMA TailPlaces ==
    ASSUME NEW S, NEW s \in Seq(S), s # <<>>, NEW t, t = Tail(s)
    PROVE  /\ Shorter(s, t) /\ Head(s) = s[1]
           /\ SetOf(s) = SetOf(t) \cup {Head(s)}
<1>1. Len(s) \in Nat \ {0} /\ DOMAIN s = 1 .. Len(s)
  BY LenProperties, EmptySeq
<1>2. t \in Seq(S) /\ Len(t) = Len(s) - 1 /\ \A i \in 1 .. Len(t) : t[i] = s[i + 1]
  BY HeadTailProperties
<1>3. DOMAIN t = 1 .. Len(s) - 1
  BY <1>2, LenProperties
<1>4. \A i \in DOMAIN t : i \in Nat /\ i + 1 \in DOMAIN s /\ 1 < i + 1 /\ t[i] = s[i + 1]
  BY <1>1, <1>2, <1>3
<1>5. ASSUME NEW i \in DOMAIN s, i # 1 PROVE i - 1 \in DOMAIN t /\ t[i - 1] = s[i]
  <2> SUFFICES ASSUME NEW k, k = i - 1 PROVE k \in DOMAIN t /\ t[k] = s[i]
    OBVIOUS
  <2>1. k \in DOMAIN t /\ k + 1 = i
    BY <1>1, <1>3, <1>5
  <2> QED BY <2>1, <1>4
<1>6. Head(s) = s[1] /\ 1 \in DOMAIN s /\ DOMAIN s \subseteq Nat
  BY <1>1
<1>7. Shorter(s, t)
  BY <1>4, <1>5, <1>6 DEF Shorter
<1>8. \A i \in DOMAIN s : s[i] \in {t[k] : k \in DOMAIN t} \cup {s[1]}
  BY <1>5
<1>9. \A i \in DOMAIN t : t[i] \in {s[k] : k \in DOMAIN s}
  BY <1>4
<1>10. s[1] \in {s[k] : k \in DOMAIN s}
  BY <1>6
<1>11. {s[k] : k \in DOMAIN s} = {t[k] : k \in DOMAIN t} \cup {s[1]}
  BY <1>8, <1>9, <1>10
<1> QED BY <1>6, <1>7, <1>11 DEF SetOf

LEMMA ConcatSet ==
    ASSUME NEW S, NEW s \in Seq(S), NEW u \in Seq(S), NEW t, t = s \o u
    PROVE  SetOf(t) \subseteq SetOf(s) \cup SetOf(u)
<1>1. /\ Len(s) \in Nat /\ DOMAIN s = 1 .. Len(s) /\ Len(u) \in Nat /\ DOMAIN u = 1 .. Len(u)
  BY LenProperties
<1>2. /\ t \in Seq(S) /\ Len(t) = Len(s) + Len(u)
      /\ \A i \in 1 .. Len(s) + Len(u) : t[i] = IF i <= Len(s) THEN s[i] ELSE u[i - Len(s)]
  BY ConcatProperties
<1>3. DOMAIN t = 1 .. Len(s) + Len(u)
  BY <1>2, LenProperties
<1>4. ASSUME NEW i \in DOMAIN t PROVE t[i] \in SetOf(s) \cup SetOf(u)
  <2>1. CASE i <= Len(s)
    BY <1>1, <1>2, <1>3, <2>1 DEF SetOf
  <2>2. CASE ~(i <= Len(s))
    <3> SUFFICES ASSUME NEW k, k = i - Len(s) PROVE t[i] \in SetOf(s) \cup SetOf(u)
      OBVIOUS
    <3>1. k \in DOMAIN u /\ t[i] = u[k]
      BY <1>1, <1>2, <1>3, <2>2
    <3> QED BY <3>1 DEF SetOf
  <2> QED BY <2>1, <2>2
<1> QED BY <1>4 DEF SetOf

-----------------------------------------------------------------------------
(* Who is known to the backend. *)

Requested == SetOf(toService)

\* Only sessions there have been have calls on their way, ids and references.
SessionsKnown ==
    /\ \A s \in Sessions : s \notin DOMAIN owner => up[s] = <<>>
    /\ \A r \in Requested : r.type = "watch" => r.session \in DOMAIN owner
    /\ \A id \in DOMAIN handles : handles[id].client \in DOMAIN owner
    /\ \A w \in DOMAIN watchers : ClientIds(watchers[w]) \subseteq DOMAIN owner

LEMMA IsSequence ==
    ASSUME NEW S, NEW n \in Nat, NEW q \in [1 .. n -> S]
    PROVE  q \in Seq(S)
BY SeqDef

LEMMA LetGoRequests ==
    ASSUME SystemInv, NEW s \in Sessions, NEW ids \in SUBSET Ids, LetGo(s, ids)
    PROVE  \A r \in Requested' : r \in Requested \/ r.type = "unwatch"
<1> DEFINE held == {id \in ids : grants[s][id].at = "held"}
<1>1. grants \in [Sessions -> [Ids -> GrantType]] /\ toService \in Seq(ServiceCall)
      /\ \A t \in Sessions, id \in Ids : grants[t][id].at = "held" => grants[t][id].watcherId \in DOMAIN handles
  BY Types
<1>2. PICK order \in Orders(held) :
          toService' = toService \o
              [i \in DOMAIN order |-> [type |-> "unwatch", watcherId |-> grants[s][order[i]].watcherId]]
  BY DEF LetGo
<1>3. Cardinality(held) \in Nat
  <2>1. held \in SUBSET Ids
    OBVIOUS
  <2>2. IsFiniteSet(Ids)
    <3>1. MaxRequests \in Nat
      BY SessionAssumption
    <3> HIDE DEF held
    <3> QED BY <3>1, FS_Interval DEF Ids
  <2> HIDE DEF held
  <2> QED BY <2>1, <2>2, FS_Subset, FS_CardinalityType
<1>4. order \in [1 .. Cardinality(held) -> held]
  BY DEF Orders
<1> SUFFICES ASSUME NEW calls,
                    calls = [i \in DOMAIN order |-> [type |-> "unwatch", watcherId |-> grants[s][order[i]].watcherId]]
             PROVE  \A r \in Requested' : r \in Requested \/ r.type = "unwatch"
  OBVIOUS
<1>5. \A i \in DOMAIN order : calls[i] \in ServiceCall /\ calls[i].type = "unwatch"
  BY <1>1, <1>4 DEF ServiceCall
<1>6. DOMAIN order = 1 .. Cardinality(held) /\ DOMAIN calls = DOMAIN order
  BY <1>4
<1> HIDE DEF held
<1>7. calls \in Seq(ServiceCall)
  <2>1. calls \in [1 .. Cardinality(held) -> ServiceCall]
    BY <1>5, <1>6
  <2> SUFFICES ASSUME NEW n \in Nat, n = Cardinality(held) PROVE calls \in Seq(ServiceCall)
    BY <1>3
  <2>2. calls \in [1 .. n -> ServiceCall]
    BY <2>1
  <2> QED BY <2>2, IsSequence
<1>8. toService' = toService \o calls
  BY <1>2
<1>9. Requested' \subseteq Requested \cup SetOf(calls)
  BY <1>1, <1>7, <1>8, ConcatSet DEF Requested
<1>10. \A r \in SetOf(calls) : r.type = "unwatch"
  BY <1>5, <1>6 DEF SetOf
<1> QED BY <1>9, <1>10

LEMMA SessionsAtFirst == Init => SessionsKnown
BY DEF Init, ServiceInit, SessionsKnown, Requested, SetOf

\* Steps that change neither ids nor references.
LEMMA SessionsKept ==
    ASSUME SessionsKnown, UNCHANGED service, DOMAIN owner \subseteq DOMAIN owner',
           \A s \in Sessions : s \notin DOMAIN owner' => up'[s] = up[s] \/ up'[s] = <<>>,
           \A r \in Requested' : \/ r \in Requested \/ r.type = "unwatch"
                                 \/ r.session \in DOMAIN owner'
    PROVE  SessionsKnown'
<1>1. \A id \in DOMAIN handles' : handles'[id].client \in DOMAIN owner'
  BY DEF SessionsKnown, service
<1>2. \A w \in DOMAIN watchers' : ClientIds(watchers'[w]) \subseteq DOMAIN owner'
  BY DEF SessionsKnown, service, ClientIds
<1>3. \A s \in Sessions : s \notin DOMAIN owner' => up'[s] = <<>>
  BY DEF SessionsKnown
<1>4. \A r \in Requested' : r.type = "watch" => r.session \in DOMAIN owner'
  BY DEF SessionsKnown
<1> QED BY <1>1, <1>2, <1>3, <1>4 DEF SessionsKnown, ClientIds

LEMMA FrontendKeepsSessions ==
    ASSUME SystemInv, SessionsKnown, NEW f \in Frontends, Frontend(f)
    PROVE  SessionsKnown'
<1>1. ASSUME NEW call, Call(f, call), UNCHANGED <<service, owner, toService>>
      PROVE  SessionsKnown'
  <2>1. \A s \in Sessions : s \notin DOMAIN owner' => up'[s] = up[s]
    <3>1. up' = IF link[f] \in open THEN [up EXCEPT ![link[f]] = Append(@, call)] ELSE up
      BY <1>1 DEF Call
    <3> QED BY <1>1, <3>1, Types
  <2> QED BY <1>1, <2>1, SessionsKept DEF Requested
<1>2. CASE FrontWatch(f)
  BY <1>1, <1>2 DEF FrontWatch
<1>3. ASSUME NEW id, FrontUnwatch(f, id) PROVE SessionsKnown'
  BY <1>1, <1>3 DEF FrontUnwatch
<1>4. CASE Lose(f)
  BY <1>4, SessionsKept DEF Lose, backend, Requested
<1>5. CASE Connect(f)
  <2> SUFFICES ASSUME NEW s, s = Len(owner) + 1 PROVE SessionsKnown'
    OBVIOUS
  <2>1. owner' = Append(owner, f) /\ UNCHANGED <<service, toService>> /\ \E q : up' = [up EXCEPT ![s] = q]
    BY <1>5 DEF Connect
  <2>2. DOMAIN owner' = 1 .. s /\ DOMAIN owner = 1 .. Len(owner) /\ Len(owner) \in Nat
    BY <2>1, Types
  <2>3. DOMAIN owner \subseteq DOMAIN owner' /\ s \in DOMAIN owner'
    BY <2>2
  <2>4. \A t \in Sessions : t \notin DOMAIN owner' => up'[t] = up[t]
    BY <2>1, <2>3, Types
  <2> QED BY <2>1, <2>3, <2>4, SessionsKept DEF Requested
<1> QED BY <1>2, <1>3, <1>4, <1>5 DEF Frontend

LEMMA BackendKeepsSessions ==
    ASSUME SystemInv, SessionsKnown, NEW s \in Sessions, ServerCall(s) \/ CloseSession(s)
    PROVE  SessionsKnown'
<1>1. CASE CloseSession(s)
  <2>1. /\ up' = [up EXCEPT ![s] = <<>>] /\ LetGo(s, Ids)
        /\ UNCHANGED <<service, owner>>
    BY <1>1 DEF CloseSession, frontend
  <2>2. \A r \in Requested' : r \in Requested \/ r.type = "unwatch"
    BY <2>1, LetGoRequests
  <2> QED BY <2>1, <2>2, Types, SessionsKept
<1>2. CASE ServerCall(s)
  <2> SUFFICES ASSUME NEW id, id = Head(up[s]).id PROVE SessionsKnown'
    OBVIOUS
  <2>1. /\ up[s] # <<>> /\ up' = [up EXCEPT ![s] = Tail(@)]
        /\ UNCHANGED <<service, owner>>
    BY <1>2 DEF ServerCall
  <2>2. s \in DOMAIN owner
    BY <2>1 DEF SessionsKnown
  <2>3. id \in Ids
    <3>1. Head(up[s]) \in FrontCall
      BY <2>1, Types, HeadTailProperties
    <3> QED BY <3>1 DEF FrontCall
  <2>4. \A r \in Requested' : r \in Requested \/ r.type = "unwatch" \/ r.session = s
    <3>1. CASE toService' = Append(toService, [type |-> "watch", session |-> s, id |-> id])
      <4> SUFFICES ASSUME NEW x, x = [type |-> "watch", session |-> s, id |-> id]
                   PROVE  \A r \in Requested' : r \in Requested \/ r.type = "unwatch" \/ r.session = s
        OBVIOUS
      <4>1. Requested' = Requested \cup {x} /\ x.session = s
        BY <3>1, Types, AppendPlaces DEF Requested
      <4> QED BY <4>1
    <3>2. CASE LetGo(s, {id})
      BY <2>3, <3>2, LetGoRequests
    <3>3. CASE toService' = toService
      BY <3>3 DEF Requested
    <3> QED BY <1>2, <3>1, <3>2, <3>3 DEF ServerCall
  <2>5. \A t \in Sessions : t \notin DOMAIN owner' => up'[t] = up[t]
    BY <2>1, <2>2, Types
  <2> QED BY <2>1, <2>2, <2>4, <2>5, SessionsKept
<1> QED BY <1>1, <1>2

\* A message of the service that is a reply may undo a watch; others are passed on.
LEMMA DispatchKeepsSessions ==
    ASSUME SystemInv, SessionsKnown, Dispatch
    PROVE  SessionsKnown'
<1> SUFFICES ASSUME NEW msg, msg = Head(toBackend) PROVE SessionsKnown'
  OBVIOUS
<1>1. UNCHANGED <<watchers, handles, owner, up>>
  BY DEF Dispatch
<1>2. toService' = toService \/ toService' = Append(toService, [type |-> "unwatch", watcherId |-> msg.id])
  <2>1. CASE msg.type = "watched"
    BY <2>1 DEF Dispatch, Grant
  <2>2. CASE msg.type \in {"changed", "error"}
    BY <2>2 DEF Dispatch
  <2>3. msg \in KnownMessages
    BY Types, HeadTailProperties DEF Known, Dispatch, Taken
  <2> QED BY <2>1, <2>2, <2>3 DEF KnownMessages
<1>3. \A r \in Requested' : r \in Requested \/ r.type = "unwatch"
  <2>1. CASE toService' = toService
    BY <2>1 DEF Requested
  <2>2. CASE toService' = Append(toService, [type |-> "unwatch", watcherId |-> msg.id])
    <3> SUFFICES ASSUME NEW x, x = [type |-> "unwatch", watcherId |-> msg.id]
                 PROVE  \A r \in Requested' : r \in Requested \/ r.type = "unwatch"
      OBVIOUS
    <3>1. Requested' = Requested \cup {x} /\ x.type = "unwatch"
      BY <2>2, Types, AppendPlaces DEF Requested
    <3> QED BY <3>1
  <2> QED BY <1>2, <2>1, <2>2
<1> QED BY <1>1, <1>3 DEF SessionsKnown, ClientIds

LEMMA ServiceKeepsSessions ==
    ASSUME SystemInv, SessionsKnown, NEW w, w \in DOMAIN watchers, WatcherNext(w), UNCHANGED backend
    PROVE  SessionsKnown'
<1>1. /\ DOMAIN watchers' = DOMAIN watchers
      /\ \A v \in DOMAIN watchers : v # w => watchers'[v] = watchers[v]
      /\ watchers'[w].refs = watchers[w].refs
      /\ HandlesFade
  BY WatcherTells, Types DEF Tells
<1>2. \A v \in DOMAIN watchers : ClientIds(watchers'[v]) = ClientIds(watchers[v])
  BY <1>1 DEF ClientIds
<1>3. \A v \in DOMAIN watchers' : ClientIds(watchers'[v]) \subseteq DOMAIN owner'
  BY <1>1, <1>2 DEF SessionsKnown, backend
<1>4. \A id \in DOMAIN handles' : handles'[id].client \in DOMAIN owner'
  BY <1>1 DEF SessionsKnown, backend, HandlesFade
<1>5. Requested' = Requested /\ UNCHANGED <<up, owner>>
  BY DEF backend, Requested
<1> QED BY <1>3, <1>4, <1>5 DEF SessionsKnown, ClientIds

LEMMA RequestKeepsSessions ==
    ASSUME SystemInv, SessionsKnown, ServiceRequest
    PROVE  SessionsKnown'
<1> SUFFICES ASSUME NEW call, call = Head(toService),
                    NEW by, by = IF call.type = "watch" THEN {call.session} ELSE {}
             PROVE  SessionsKnown'
  OBVIOUS
<1>1. /\ toService # <<>> /\ toService' = Tail(toService)
      /\ UNCHANGED <<owner, up>> /\ Asks(by)
  BY RequestAsks
<1>2. Requested = Requested' \cup {call}
  BY <1>1, Types, TailPlaces DEF Requested
<1>3. by \subseteq DOMAIN owner
  BY <1>2 DEF SessionsKnown
<1>4. \A w \in DOMAIN watchers' : ClientIds(watchers'[w]) \subseteq DOMAIN owner'
  BY <1>1, <1>3 DEF Asks, SessionsKnown
<1>5. \A id \in DOMAIN handles' : handles'[id].client \in DOMAIN owner'
  BY <1>1, <1>3 DEF Asks, SessionsKnown
<1> QED BY <1>1, <1>2, <1>4, <1>5 DEF SessionsKnown, ClientIds

-----------------------------------------------------------------------------
(* The order of the changes of a watcher, from its queue to the sessions. *)

Queued(w) == SetOf(watchers[w].queue)
SentEvents == {m.event : m \in {x \in InTransit : x.type = "changed"}}
SeenBy(s) == SetOf(seen[s])

Before(m, n) == events[m].watcher = events[n].watcher => m < n
InOrder(s) == \A i, j \in DOMAIN s : i < j => Before(s[i], s[j])
Precede(S, T) == \A m \in S : \A n \in T : Before(m, n)

ChangesInOrder ==
    \A i, j \in DOMAIN toBackend :
        toBackend[i].type = "changed" /\ toBackend[j].type = "changed" /\ i < j
            => Before(toBackend[i].event, toBackend[j].event)

\* The changes of a watcher are in order where they wait, and those that have come
\* further are older.
Ordered ==
    /\ \A w \in DOMAIN watchers : /\ \A n \in Queued(w) : events[n].watcher = w
                                  /\ InOrder(watchers[w].queue)
                                  /\ Precede(SentEvents, Queued(w))
    /\ ChangesInOrder
    /\ \A s \in Sessions : /\ InOrder(seen[s])
                           /\ Precede(SeenBy(s), SentEvents)
                           /\ \A w \in DOMAIN watchers : Precede(SeenBy(s), Queued(w))

LEMMA NumbersKnown ==
    ASSUME SystemInv
    PROVE  /\ \A w \in DOMAIN watchers : Queued(w) \subseteq DOMAIN events
           /\ SentEvents \subseteq DOMAIN events
           /\ \A s \in Sessions : SeenBy(s) \subseteq DOMAIN events
           /\ DOMAIN events \subseteq Nat
<1>1. \A w \in DOMAIN watchers : watchers[w].queue \in Seq(DOMAIN events)
  BY Types DEF Known
<1>2. \A w \in DOMAIN watchers : Queued(w) \subseteq DOMAIN events
  BY <1>1, LenProperties, ElementOfSeq DEF Queued, SetOf
<1>3. \A s \in Sessions : SeenBy(s) \subseteq DOMAIN events
  BY Types, LenProperties, ElementOfSeq DEF SeenBy, SetOf
<1>4. \A m \in InTransit : m \in KnownMessages
  BY Types, LenProperties, ElementOfSeq DEF Known, InTransit
<1>5. \A m \in KnownMessages : m.type = "changed" => m.event \in DOMAIN events
  BY DEF KnownMessages
<1>6. SentEvents \subseteq DOMAIN events
  BY <1>4, <1>5 DEF SentEvents
<1> QED BY <1>2, <1>3, <1>6, Types, Domains

LEMMA SendsOther ==
    ASSUME NEW msg, Longer(toBackend, msg, toBackend'), msg.type # "changed", UNCHANGED events, ChangesInOrder
    PROVE  ChangesInOrder' /\ SentEvents' = SentEvents
<1>1. PICK n \in Nat : /\ DOMAIN toBackend' = DOMAIN toBackend \cup {n} /\ toBackend'[n] = msg
                       /\ \A i \in DOMAIN toBackend : i \in Nat /\ i < n /\ toBackend'[i] = toBackend[i]
  BY DEF Longer
<1>2. {x \in InTransit' : x.type = "changed"} = {x \in InTransit : x.type = "changed"}
  BY <1>1 DEF InTransit
<1>3. SentEvents' = SentEvents
  BY <1>2 DEF SentEvents
<1>4. ChangesInOrder'
  BY <1>1 DEF ChangesInOrder, Before
<1> QED BY <1>3, <1>4

LEMMA SendsChanged ==
    ASSUME NEW msg, Longer(toBackend, msg, toBackend'), msg.type = "changed", UNCHANGED events, ChangesInOrder,
           \A n \in SentEvents : Before(n, msg.event)
    PROVE  ChangesInOrder' /\ SentEvents' = SentEvents \cup {msg.event}
<1>1. PICK n \in Nat : /\ DOMAIN toBackend' = DOMAIN toBackend \cup {n} /\ toBackend'[n] = msg
                       /\ \A i \in DOMAIN toBackend : i \in Nat /\ i < n /\ toBackend'[i] = toBackend[i]
  BY DEF Longer
<1>2. {x \in InTransit' : x.type = "changed"} = {x \in InTransit : x.type = "changed"} \cup {msg}
  BY <1>1 DEF InTransit
<1>3. SentEvents' = SentEvents \cup {msg.event}
  BY <1>2 DEF SentEvents
<1>4. \A i \in DOMAIN toBackend : toBackend[i].type = "changed" => Before(toBackend[i].event, msg.event)
  BY DEF SentEvents, InTransit
<1>5. ChangesInOrder'
  <2> SUFFICES ASSUME NEW i \in DOMAIN toBackend', NEW j \in DOMAIN toBackend',
                      toBackend'[i].type = "changed", toBackend'[j].type = "changed", i < j
               PROVE  Before(toBackend'[i].event, toBackend'[j].event)
    BY DEF ChangesInOrder, Before
  <2>1. i \in DOMAIN toBackend
    BY <1>1
  <2>2. CASE j \in DOMAIN toBackend
    BY <1>1, <2>1, <2>2 DEF ChangesInOrder
  <2>3. CASE j = n
    BY <1>1, <1>4, <2>1, <2>3
  <2> QED BY <1>1, <2>2, <2>3
<1> QED BY <1>3, <1>5

LEMMA TakesFirst ==
    ASSUME Shorter(toBackend, toBackend'), UNCHANGED events, ChangesInOrder
    PROVE  /\ ChangesInOrder' /\ SentEvents' \subseteq SentEvents
           /\ toBackend[1].type = "changed" => /\ toBackend[1].event \in SentEvents
                                               /\ \A n \in SentEvents' : Before(toBackend[1].event, n)
<1>1. /\ 1 \in DOMAIN toBackend
      /\ \A i \in DOMAIN toBackend' : i \in Nat /\ i + 1 \in DOMAIN toBackend /\ 1 < i + 1
                                      /\ toBackend'[i] = toBackend[i + 1]
  BY DEF Shorter
<1>2. ChangesInOrder'
  <2> SUFFICES ASSUME NEW i \in DOMAIN toBackend', NEW j \in DOMAIN toBackend',
                      toBackend'[i].type = "changed", toBackend'[j].type = "changed", i < j
               PROVE  Before(toBackend'[i].event, toBackend'[j].event)
    BY DEF ChangesInOrder, Before
  <2>1. i + 1 < j + 1
    BY <1>1
  <2> QED BY <1>1, <2>1 DEF ChangesInOrder
<1>3. \A m \in InTransit' : m \in InTransit /\ \E i \in DOMAIN toBackend : 1 < i /\ m = toBackend[i]
  BY <1>1 DEF InTransit
<1>4. SentEvents' \subseteq SentEvents
  BY <1>3 DEF SentEvents
<1>5. ASSUME toBackend[1].type = "changed"
      PROVE  toBackend[1].event \in SentEvents /\ \A n \in SentEvents' : Before(toBackend[1].event, n)
  <2>1. toBackend[1].event \in SentEvents
    BY <1>1, <1>5 DEF SentEvents, InTransit
  <2>2. ASSUME NEW n \in SentEvents' PROVE Before(toBackend[1].event, n)
    <3>1. PICK m \in InTransit' : m.type = "changed" /\ m.event = n
      BY <2>2 DEF SentEvents
    <3>2. PICK i \in DOMAIN toBackend : 1 < i /\ m = toBackend[i]
      BY <1>3, <3>1
    <3> QED BY <1>1, <1>5, <3>1, <3>2 DEF ChangesInOrder
  <2> QED BY <2>1, <2>2
<1> QED BY <1>2, <1>4, <1>5

\* Steps that neither raise, send nor tell a change.
LEMMA OrderKept ==
    ASSUME Ordered, UNCHANGED events,
           \A w \in DOMAIN watchers' : \/ w \in DOMAIN watchers /\ watchers'[w].queue = watchers[w].queue
                                       \/ watchers'[w].queue = <<>>,
           \A s \in Sessions : seen'[s] = seen[s] \/ seen'[s] = <<>>,
           ChangesInOrder', SentEvents' \subseteq SentEvents
    PROVE  Ordered'
<1>1. \A m, n : Before(m, n)' <=> Before(m, n)
  BY DEF Before
<1>2. \A w \in DOMAIN watchers' : \/ w \in DOMAIN watchers /\ Queued(w)' = Queued(w)
                                  \/ Queued(w)' = {}
  BY DEF Queued, SetOf
<1>3. \A w \in DOMAIN watchers' : /\ \A n \in Queued(w)' : events'[n].watcher = w
                                  /\ InOrder(watchers[w].queue)'
                                  /\ Precede(SentEvents, Queued(w))'
  BY <1>1, <1>2 DEF Ordered, InOrder, Precede
<1>4. ASSUME NEW s \in Sessions PROVE SeenBy(s)' \subseteq SeenBy(s) /\ InOrder(seen[s])'
  <2>1. SetOf(<<>>) = {}
    BY DEF SetOf
  <2>2. SeenBy(s)' \subseteq SeenBy(s)
    BY <2>1 DEF SeenBy
  <2>3. \A i, j \in DOMAIN seen'[s] : i < j => Before(seen'[s][i], seen'[s][j])
    <3>1. CASE seen'[s] = seen[s]
      BY <3>1 DEF Ordered, InOrder
    <3>2. CASE seen'[s] = <<>>
      BY <3>2
    <3> QED BY <3>1, <3>2
  <2>4. InOrder(seen[s])'
    BY <1>1, <2>3 DEF InOrder
  <2> QED BY <2>2, <2>4
<1>5. \A s \in Sessions : /\ Precede(SeenBy(s), SentEvents)'
                          /\ \A w \in DOMAIN watchers' : Precede(SeenBy(s), Queued(w))'
  BY <1>1, <1>2, <1>4 DEF Ordered, Precede
<1> QED BY <1>3, <1>4, <1>5 DEF Ordered

LEMMA OrderAtFirst == Init => Ordered
BY DEF Init, ServiceInit, Ordered, ChangesInOrder, SentEvents, InTransit, SeenBy, SetOf, InOrder, Precede

LEMMA RaisesKeepsOrder ==
    ASSUME SystemInv, Ordered, NEW w, w \in DOMAIN watchers, Raises(w), UNCHANGED seen,
           DOMAIN watchers' = DOMAIN watchers,
           \A v \in DOMAIN watchers : v # w => watchers'[v] = watchers[v]
    PROVE  Ordered'
<1> SUFFICES ASSUME NEW n, n = Len(events) + 1, NEW e, e = [watcher |-> w, ids |-> Expecting(w)]
             PROVE  Ordered'
  OBVIOUS
<1>1. /\ DOMAIN events \subseteq Nat /\ DOMAIN events' = DOMAIN events \cup {n} /\ n \notin DOMAIN events
      /\ \A m \in DOMAIN events : m < n /\ events'[m] = events[m]
      /\ events'[n].watcher = w
  <2>1. events' = Append(events, e) /\ e.watcher = w
    BY DEF Raises
  <2>2. Len(events) \in Nat /\ DOMAIN events = 1 .. Len(events)
    BY Types, Domains
  <2> QED BY <2>1, <2>2
<1>2. \A k, m \in DOMAIN events : Before(k, m)' <=> Before(k, m)
  BY <1>1 DEF Before
<1>3. \A m \in DOMAIN events : Before(m, n)'
  BY <1>1 DEF Before
<1>4. Longer(watchers[w].queue, n, watchers'[w].queue) /\ Queued(w)' = Queued(w) \cup {n}
  <2>1. watchers[w].queue \in Seq(DOMAIN events)
    BY Types DEF Known
  <2>2. watchers'[w].queue = Append(watchers[w].queue, n)
    BY DEF Raises
  <2> QED BY <2>1, <2>2, AppendPlaces DEF Queued
<1>5. \A v \in DOMAIN watchers : v # w => Queued(v)' = Queued(v)
  BY DEF Queued
<1>6. SentEvents' = SentEvents /\ \A s : SeenBy(s)' = SeenBy(s)
  BY DEF Raises, SentEvents, InTransit, SeenBy
<1>7. /\ \A v \in DOMAIN watchers : Queued(v) \subseteq DOMAIN events
      /\ SentEvents \subseteq DOMAIN events
      /\ \A s \in Sessions : SeenBy(s) \subseteq DOMAIN events
  BY NumbersKnown
<1>8. ASSUME NEW S, S \subseteq DOMAIN events, NEW v \in DOMAIN watchers, Precede(S, Queued(v))
      PROVE  \A k \in S : \A m \in Queued(v)' : Before(k, m)'
  BY <1>2, <1>3, <1>4, <1>5, <1>7, <1>8 DEF Precede
<1>9. \A v \in DOMAIN watchers : Precede(SentEvents, Queued(v))'
  BY <1>6, <1>7, <1>8 DEF Ordered, Precede
<1>10. \A s \in Sessions, v \in DOMAIN watchers : Precede(SeenBy(s), Queued(v))'
  BY <1>6, <1>7, <1>8 DEF Ordered, Precede
<1>11. \A v \in DOMAIN watchers : \A m \in Queued(v)' : events'[m].watcher = v
  BY <1>1, <1>4, <1>5, <1>7 DEF Ordered
<1>12. ASSUME NEW q, SetOf(q) \subseteq DOMAIN events, InOrder(q)
       PROVE  \A i, j \in DOMAIN q : i < j => Before(q[i], q[j])'
  BY <1>2, <1>12 DEF InOrder, SetOf
<1>13. \A v \in DOMAIN watchers : InOrder(watchers[v].queue)'
  <2> SUFFICES ASSUME NEW v \in DOMAIN watchers
               PROVE  \A i, j \in DOMAIN watchers'[v].queue :
                          i < j => Before(watchers[v].queue[i], watchers[v].queue[j])'
    BY DEF InOrder
  <2>1. SetOf(watchers[v].queue) \subseteq DOMAIN events /\ InOrder(watchers[v].queue)
    BY <1>7 DEF Queued, Ordered
  <2>2. CASE v # w
    BY <1>2, <2>1, <2>2 DEF InOrder, Before, SetOf
  <2>3. CASE v = w
    <3> SUFFICES ASSUME NEW i \in DOMAIN watchers'[w].queue, NEW j \in DOMAIN watchers'[w].queue, i < j
                 PROVE  Before(watchers[w].queue[i], watchers[w].queue[j])'
      BY <2>3
    <3>1. PICK k \in Nat :
             /\ DOMAIN watchers'[w].queue = DOMAIN watchers[w].queue \cup {k} /\ watchers'[w].queue[k] = n
             /\ \A l \in DOMAIN watchers[w].queue :
                   l \in Nat /\ l < k /\ watchers'[w].queue[l] = watchers[w].queue[l]
      BY <1>4 DEF Longer
    <3>2. i \in DOMAIN watchers[w].queue
      BY <3>1
    <3>3. watchers'[w].queue[i] = watchers[w].queue[i] /\ watchers[w].queue[i] \in DOMAIN events
      BY <2>1, <2>3, <3>1, <3>2 DEF SetOf
    <3>4. CASE j = k
      BY <1>1, <3>1, <3>3, <3>4 DEF Before
    <3>5. CASE j \in DOMAIN watchers[w].queue
      <4>1. watchers'[w].queue[j] = watchers[w].queue[j] /\ watchers[w].queue[j] \in DOMAIN events
        BY <2>1, <2>3, <3>1, <3>5 DEF SetOf
      <4>2. Before(watchers[w].queue[i], watchers[w].queue[j])
        BY <2>1, <2>3, <3>2, <3>5 DEF InOrder
      <4> QED BY <1>1, <3>3, <4>1, <4>2 DEF Before
    <3> QED BY <3>1, <3>4, <3>5
  <2> QED BY <2>2, <2>3
<1>14. ChangesInOrder'
  <2>1. \A i \in DOMAIN toBackend : toBackend[i].type = "changed" => toBackend[i].event \in DOMAIN events
    BY <1>7 DEF SentEvents, InTransit
  <2>2. UNCHANGED toBackend
    BY DEF Raises
  <2> QED BY <1>1, <2>1, <2>2 DEF Ordered, ChangesInOrder, Before
<1>15. \A s \in Sessions : InOrder(seen[s])' /\ Precede(SeenBy(s), SentEvents)'
  <2> SUFFICES ASSUME NEW s \in Sessions PROVE InOrder(seen[s])' /\ Precede(SeenBy(s), SentEvents)'
    OBVIOUS
  <2>1. Precede(SeenBy(s), SentEvents)'
    BY <1>2, <1>6, <1>7 DEF Ordered, Precede
  <2>2. SetOf(seen[s]) \subseteq DOMAIN events /\ InOrder(seen[s])
    BY <1>7 DEF SeenBy, Ordered
  <2>3. InOrder(seen[s])'
    BY <1>1, <2>2 DEF InOrder, Before, SetOf
  <2> QED BY <2>1, <2>3
<1> QED BY <1>9, <1>10, <1>11, <1>13, <1>14, <1>15 DEF Ordered

LEMMA ProcessesKeepsOrder ==
    ASSUME SystemInv, Ordered, NEW w, w \in DOMAIN watchers, Processes(w), UNCHANGED seen,
           DOMAIN watchers' = DOMAIN watchers,
           \A v \in DOMAIN watchers : v # w => watchers'[v] = watchers[v]
    PROVE  Ordered'
<1> SUFFICES ASSUME NEW n, n = Head(watchers[w].queue),
                    NEW msg, msg = [type |-> "changed", clients |-> ClientIds(watchers[w]), event |-> n]
             PROVE  Ordered'
  OBVIOUS
<1>1. /\ Shorter(watchers[w].queue, watchers'[w].queue) /\ n = watchers[w].queue[1]
      /\ Queued(w) = Queued(w)' \cup {n}
  <2>1. watchers[w].queue \in Seq(DOMAIN events)
    BY Types DEF Known
  <2>2. watchers[w].queue # <<>> /\ watchers'[w].queue = Tail(watchers[w].queue)
    BY DEF Processes
  <2> QED BY <2>1, <2>2, TailPlaces DEF Queued
<1>2. Longer(toBackend, msg, toBackend') /\ msg.type = "changed" /\ msg.event = n
  <2>1. toBackend' = Append(toBackend, msg)
    BY DEF Processes, Send
  <2> QED BY <2>1, Types, Domains, AppendPlaces
<1>3. UNCHANGED events
  BY DEF Processes
<1>4. ChangesInOrder' /\ SentEvents' = SentEvents \cup {n}
  <2>1. \A m \in SentEvents : Before(m, n)
    BY <1>1 DEF Ordered, Precede
  <2>2. ChangesInOrder
    BY DEF Ordered
  <2> QED BY <1>2, <1>3, <2>1, <2>2, SendsChanged
<1>5. /\ \A v \in DOMAIN watchers : Queued(v)' \subseteq Queued(v)
      /\ \A s : SeenBy(s)' = SeenBy(s)
      /\ \A k, m : Before(k, m)' <=> Before(k, m)
  BY <1>1, <1>3 DEF Queued, SeenBy, Before
<1>6. ASSUME NEW v \in DOMAIN watchers, NEW m \in Queued(v)' PROVE Before(n, m)
  <2>1. CASE v = w
    <3>1. \A i \in DOMAIN watchers'[w].queue :
             i + 1 \in DOMAIN watchers[w].queue /\ 1 < i + 1 /\ watchers'[w].queue[i] = watchers[w].queue[i + 1]
      BY <1>1 DEF Shorter
    <3>2. 1 \in DOMAIN watchers[w].queue /\ InOrder(watchers[w].queue)
      BY <1>1 DEF Shorter, Ordered
    <3>3. \A i \in DOMAIN watchers'[w].queue : Before(n, watchers'[w].queue[i])
      BY <1>1, <3>1, <3>2 DEF InOrder
    <3> QED BY <1>6, <2>1, <3>3 DEF Queued, SetOf
  <2>2. CASE v # w
    <3>1. events[n].watcher = w /\ events[m].watcher = v
      BY <1>1, <1>5, <1>6 DEF Ordered
    <3> QED BY <2>2, <3>1 DEF Before
  <2> QED BY <2>1, <2>2
<1>7. \A v \in DOMAIN watchers : /\ \A m \in Queued(v)' : events'[m].watcher = v
                                 /\ Precede(SentEvents, Queued(v))'
  BY <1>3, <1>4, <1>5, <1>6 DEF Ordered, Precede
<1>8. \A v \in DOMAIN watchers : InOrder(watchers[v].queue)'
  <2> SUFFICES ASSUME NEW v \in DOMAIN watchers,
                      NEW i \in DOMAIN watchers'[v].queue, NEW j \in DOMAIN watchers'[v].queue, i < j
               PROVE  Before(watchers'[v].queue[i], watchers'[v].queue[j])
    BY <1>3 DEF InOrder, Before
  <2>1. InOrder(watchers[v].queue)
    BY DEF Ordered
  <2>2. CASE v # w
    BY <2>1, <2>2 DEF InOrder
  <2>3. CASE v = w
    <3>1. /\ i \in Nat /\ i + 1 \in DOMAIN watchers[w].queue /\ watchers'[w].queue[i] = watchers[w].queue[i + 1]
          /\ j \in Nat /\ j + 1 \in DOMAIN watchers[w].queue /\ watchers'[w].queue[j] = watchers[w].queue[j + 1]
      BY <1>1, <2>3 DEF Shorter
    <3>2. i + 1 < j + 1
      BY <3>1
    <3> QED BY <2>1, <2>3, <3>1, <3>2 DEF InOrder
  <2> QED BY <2>2, <2>3
<1>9. \A s \in Sessions : Precede(SeenBy(s), SentEvents)'
  <2>1. \A s \in Sessions : \A m \in SeenBy(s) : Before(m, n)
    BY <1>1 DEF Ordered, Precede
  <2> QED BY <1>4, <1>5, <2>1 DEF Ordered, Precede
<1>10. \A s \in Sessions : /\ InOrder(seen[s])'
                           /\ \A v \in DOMAIN watchers : Precede(SeenBy(s), Queued(v))'
  <2>1. \A s \in Sessions : InOrder(seen[s])'
    BY <1>3 DEF Ordered, InOrder, Before
  <2> QED BY <1>5, <2>1 DEF Ordered, Precede
<1> QED BY <1>4, <1>7, <1>8, <1>9, <1>10 DEF Ordered

LEMMA WatcherKeepsOrder ==
    ASSUME SystemInv, Ordered, NEW w, w \in DOMAIN watchers, WatcherNext(w), UNCHANGED backend
    PROVE  Ordered'
<1>1. /\ DOMAIN watchers' = DOMAIN watchers /\ UNCHANGED seen
      /\ \A v \in DOMAIN watchers : v # w => watchers'[v] = watchers[v]
      /\ Tells(w)
  BY WatcherTells, Types DEF backend
<1>2. CASE StaysQuiet(w)
  <2>1. ChangesInOrder' /\ SentEvents' = SentEvents
    BY <1>2 DEF StaysQuiet, Ordered, ChangesInOrder, Before, SentEvents, InTransit
  <2>2. UNCHANGED events /\ \A v \in DOMAIN watchers' : watchers'[v].queue = watchers[v].queue
    BY <1>1, <1>2 DEF StaysQuiet
  <2> QED BY <1>1, <2>1, <2>2, OrderKept
<1>3. CASE HasFailed(w)
  <2> SUFFICES ASSUME NEW msg, msg = [type |-> "error", clients |-> ClientIds(watchers[w]), watcher |-> w]
               PROVE  Ordered'
    OBVIOUS
  <2>1. Longer(toBackend, msg, toBackend') /\ msg.type # "changed"
    <3>1. toBackend' = Append(toBackend, msg)
      BY <1>3 DEF HasFailed, Send
    <3> QED BY <3>1, Types, Domains, AppendPlaces
  <2>2. UNCHANGED events /\ \A v \in DOMAIN watchers' : watchers'[v].queue = watchers[v].queue
    BY <1>1, <1>3 DEF HasFailed
  <2>3. ChangesInOrder' /\ SentEvents' = SentEvents
    BY <2>1, <2>2, SendsOther DEF Ordered
  <2> QED BY <1>1, <2>2, <2>3, OrderKept
<1> QED BY <1>1, <1>2, <1>3, RaisesKeepsOrder, ProcessesKeepsOrder DEF Tells

LEMMA RequestKeepsOrder ==
    ASSUME SystemInv, Ordered, ServiceRequest
    PROVE  Ordered'
<1> SUFFICES ASSUME NEW by, Asks(by), UNCHANGED seen PROVE Ordered'
  BY RequestAsks
<1>1. UNCHANGED events
  BY DEF Asks
<1>2. \A v \in DOMAIN watchers' : \/ v \in DOMAIN watchers /\ watchers'[v].queue = watchers[v].queue
                                  \/ watchers'[v].queue = <<>>
  BY DEF Asks
<1>3. ChangesInOrder' /\ SentEvents' = SentEvents
  <2>1. CASE UNCHANGED toBackend
    BY <1>1, <2>1 DEF Ordered, ChangesInOrder, Before, SentEvents, InTransit
  <2>2. ASSUME NEW msg, msg.type = "watched", Send(msg) PROVE ChangesInOrder' /\ SentEvents' = SentEvents
    <3>1. Longer(toBackend, msg, toBackend')
      BY <2>2, Types, Domains, AppendPlaces DEF Send
    <3> QED BY <1>1, <2>2, <3>1, SendsOther DEF Ordered
  <2> QED BY <2>1, <2>2 DEF Asks
<1> QED BY <1>1, <1>2, <1>3, OrderKept

\* Steps of the frontends and sessions that do not touch the service.
LEMMA OthersKeepOrder ==
    ASSUME Ordered, UNCHANGED service, \A s \in Sessions : seen'[s] = seen[s] \/ seen'[s] = <<>>
    PROVE  Ordered'
<1>1. UNCHANGED <<events, toBackend, watchers>>
  BY DEF service
<1>2. ChangesInOrder' /\ SentEvents' = SentEvents
  BY <1>1 DEF Ordered, ChangesInOrder, Before, SentEvents, InTransit
<1> QED BY <1>1, <1>2, OrderKept

\* The backend takes a message of the service.
LEMMA DispatchTells ==
    ASSUME SystemInv, Dispatch, NEW msg, msg = toBackend[1]
    PROVE  /\ Shorter(toBackend, toBackend') /\ msg \in InTransit /\ InTransit = InTransit' \cup {msg}
           /\ msg \in KnownMessages
           /\ UNCHANGED <<watchers, handles, events, owner, open, up>>
           /\ \/ msg.type = "watched" /\ UNCHANGED <<seen, told>>
              \/ /\ msg.type = "changed" /\ UNCHANGED told
                 /\ seen' = [s \in Sessions |-> IF s \in Registered(msg.clients)
                                                THEN Append(seen[s], msg.event) ELSE seen[s]]
              \/ /\ msg.type = "error" /\ UNCHANGED seen
                 /\ told' = [s \in Sessions |-> IF s \in Registered(msg.clients)
                                                THEN told[s] \cup {msg.watcher} ELSE told[s]]
<1>1. toBackend # <<>> /\ toBackend' = Tail(toBackend)
  BY DEF Dispatch, Taken
<1>2. /\ Shorter(toBackend, toBackend') /\ Head(toBackend) = msg
      /\ InTransit = InTransit' \cup {msg}
  <2>1. SetOf(toBackend) = InTransit /\ SetOf(toBackend') = InTransit'
    BY DEF SetOf, InTransit
  <2> QED BY <1>1, <2>1, Types, Domains, TailPlaces
<1>3. Head(toBackend) \in KnownMessages
  BY <1>1, Types, HeadTailProperties DEF Known
<1>4. msg.type \in {"watched", "changed", "error"}
  BY <1>2, <1>3 DEF KnownMessages
<1>5. UNCHANGED <<watchers, handles, events, owner, open, up>>
  BY DEF Dispatch
<1>6. \/ msg.type = "watched" /\ UNCHANGED <<seen, told>>
      \/ /\ msg.type = "changed" /\ UNCHANGED told
         /\ seen' = [s \in Sessions |-> IF s \in Registered(msg.clients)
                                        THEN Append(seen[s], msg.event) ELSE seen[s]]
      \/ /\ msg.type = "error" /\ UNCHANGED seen
         /\ told' = [s \in Sessions |-> IF s \in Registered(msg.clients)
                                        THEN told[s] \cup {msg.watcher} ELSE told[s]]
  BY <1>2, <1>4 DEF Dispatch, Grant
<1> QED BY <1>2, <1>3, <1>5, <1>6

LEMMA DispatchKeepsOrder ==
    ASSUME SystemInv, Ordered, Dispatch
    PROVE  Ordered'
<1> SUFFICES ASSUME NEW msg, msg = toBackend[1] PROVE Ordered'
  OBVIOUS
<1>1. /\ Shorter(toBackend, toBackend') /\ UNCHANGED <<watchers, events>>
      /\ \/ msg.type # "changed" /\ UNCHANGED seen
         \/ /\ msg.type = "changed"
            /\ seen' = [s \in Sessions |-> IF s \in Registered(msg.clients)
                                           THEN Append(seen[s], msg.event) ELSE seen[s]]
  BY DispatchTells
<1>2. /\ ChangesInOrder' /\ SentEvents' \subseteq SentEvents
      /\ msg.type = "changed" => msg.event \in SentEvents /\ \A n \in SentEvents' : Before(msg.event, n)
  BY <1>1, TakesFirst DEF Ordered
<1>3. CASE msg.type # "changed"
  BY <1>1, <1>2, <1>3, OrderKept
<1>4. CASE msg.type = "changed"
  <2> DEFINE n == msg.event
  <2>1. n \in SentEvents /\ \A m \in SentEvents' : Before(n, m)
    BY <1>2, <1>4
  <2>2. \A k, m : Before(k, m)' <=> Before(k, m)
    BY <1>1 DEF Before
  <2>3. \A s \in Sessions : seen'[s] = Append(seen[s], n) \/ seen'[s] = seen[s]
    BY <1>1, <1>4
  <2> HIDE DEF n
  <2>4. ASSUME NEW s \in Sessions
        PROVE  /\ SeenBy(s)' \subseteq SeenBy(s) \cup {n}
               /\ \A i, j \in DOMAIN seen'[s] : i < j => Before(seen'[s][i], seen'[s][j])
    <3>1. InOrder(seen[s]) /\ \A m \in SeenBy(s) : Before(m, n)
      BY <2>1 DEF Ordered, Precede
    <3>2. CASE seen'[s] = seen[s]
      BY <3>1, <3>2 DEF SeenBy, InOrder
    <3>3. CASE seen'[s] = Append(seen[s], n)
      <4>0. seen[s] \in Seq(DOMAIN events)
        BY Types
      <4>1. Longer(seen[s], n, seen'[s]) /\ SetOf(seen'[s]) = SetOf(seen[s]) \cup {n}
        BY <3>3, <4>0, AppendPlaces
      <4>2. PICK k \in Nat : /\ DOMAIN seen'[s] = DOMAIN seen[s] \cup {k} /\ seen'[s][k] = n
                             /\ \A i \in DOMAIN seen[s] : i \in Nat /\ i < k /\ seen'[s][i] = seen[s][i]
        BY <4>1 DEF Longer
      <4>3. ASSUME NEW i \in DOMAIN seen'[s], NEW j \in DOMAIN seen'[s], i < j
            PROVE  Before(seen'[s][i], seen'[s][j])
        <5>1. i \in DOMAIN seen[s]
          BY <4>2, <4>3
        <5>2. CASE j = k
          BY <3>1, <4>2, <5>1, <5>2 DEF SeenBy, SetOf
        <5>3. CASE j \in DOMAIN seen[s]
          BY <3>1, <4>2, <4>3, <5>1, <5>3 DEF InOrder
        <5> QED BY <4>2, <5>2, <5>3
      <4> QED BY <4>1, <4>3 DEF SeenBy
    <3> QED BY <2>3, <3>2, <3>3
  <2>5. \A s \in Sessions : InOrder(seen[s])' /\ Precede(SeenBy(s), SentEvents)'
    <3> SUFFICES ASSUME NEW s \in Sessions PROVE InOrder(seen[s])' /\ Precede(SeenBy(s), SentEvents)'
      OBVIOUS
    <3>1. InOrder(seen[s])'
      BY <2>2, <2>4 DEF InOrder
    <3>2. Precede(SeenBy(s), SentEvents)
      BY DEF Ordered
    <3>3. Precede(SeenBy(s), SentEvents)'
      BY <1>2, <2>1, <2>2, <2>4, <3>2 DEF Precede
    <3> QED BY <3>1, <3>3
  <2>6. \A v \in DOMAIN watchers : Queued(v)' = Queued(v)
    BY <1>1 DEF Queued
  <2>7. \A s \in Sessions, v \in DOMAIN watchers : Precede(SeenBy(s), Queued(v))'
    <3>1. \A v \in DOMAIN watchers : \A m \in Queued(v) : Before(n, m)
      BY <2>1 DEF Ordered, Precede
    <3> QED BY <2>2, <2>4, <2>6, <3>1 DEF Ordered, Precede
  <2>8. \A v \in DOMAIN watchers : /\ \A m \in Queued(v)' : events'[m].watcher = v
                                   /\ InOrder(watchers[v].queue)'
                                   /\ Precede(SentEvents, Queued(v))'
    <3>1. \A v \in DOMAIN watchers : InOrder(watchers[v].queue)'
      BY <1>1, <2>2 DEF Ordered, InOrder
    <3> QED BY <1>1, <1>2, <2>2, <2>6, <3>1 DEF Ordered, Precede
  <2> QED BY <1>1, <1>2, <2>5, <2>7, <2>8 DEF Ordered
<1> QED BY <1>3, <1>4

-----------------------------------------------------------------------------
(* That every change and every failure gets to those who wait for it. *)

\* Where change n is on its way to session c, or there, and the failure of watcher w.
Underway(n, c) ==
    \/ n \in Queued(events[n].watcher)
    \/ \E m \in InTransit : m.type = "changed" /\ m.event = n /\ c \in m.clients
    \/ n \in SeenBy(c)
Announced(w, s) ==
    \/ w \in told[s]
    \/ \E m \in InTransit : m.type = "error" /\ m.watcher = w /\ s \in m.clients

\* Who is waiting for a change has asked for the watcher that raised it.
Expected ==
    \A n \in DOMAIN events :
        /\ events[n].watcher \in DOMAIN watchers
        /\ \A id \in events[n].ids : id \in DOMAIN handles /\ handles[id].watcher = events[n].watcher

\* The clients of ids and references are sessions that have been opened before.
LEMMA ClientsAreKnown ==
    ASSUME SystemInv, SessionsKnown
    PROVE  /\ \A id \in DOMAIN handles : handles[id].client \in Sessions \cap DOMAIN owner
           /\ \A w \in DOMAIN watchers : ClientIds(watchers[w]) \subseteq Sessions \cap DOMAIN owner
<1>1. \A id \in DOMAIN handles : handles[id] \in Handles
  BY Types, Domains, ElementOfSeq DEF ServiceInv, Core, CoreType
<1> QED BY <1>1 DEF SessionsKnown, ClientIds, Handles, Sessions

LEMMA LostMeans ==
    NothingLost <=> \A n \in DOMAIN events : \A id \in events[n].ids :
                       (handles[id].live /\ handles[id].client \in open) => Underway(n, handles[id].client)
BY DEF NothingLost, Underway, Queued, SeenBy, SetOf

LEMMA ErrorsMean ==
    ErrorsReachTheirClients <=>
        \A w \in DOMAIN watchers : \A s \in ClientIds(watchers[w]) :
            (~Live(w) /\ s \in open) => Announced(w, s)
BY DEF ErrorsReachTheirClients, Announced

\* Ids stay as they are, or are given back; nobody is there who was not before.
NobodyJoins ==
    /\ DOMAIN handles \subseteq DOMAIN handles'
    /\ \A id \in DOMAIN handles : /\ handles'[id].client = handles[id].client
                                  /\ handles'[id].watcher = handles[id].watcher
                                  /\ handles'[id].live => handles[id].live
                                  /\ handles[id].client \in open' => handles[id].client \in open

LEMMA NothingLostKept ==
    ASSUME Expected, NothingLost, NobodyJoins, UNCHANGED events, DOMAIN watchers \subseteq DOMAIN watchers',
           \A n \in DOMAIN events : \A id \in events[n].ids : \A c \in open' :
               (handles[id].live /\ handles[id].client = c /\ Underway(n, c)) => Underway(n, c)'
    PROVE  Expected' /\ NothingLost'
<1>1. \A n \in DOMAIN events : \A id \in events[n].ids :
         id \in DOMAIN handles /\ handles[id].watcher = events[n].watcher
  BY DEF Expected
<1>2. Expected'
  BY <1>1 DEF Expected, NobodyJoins
<1>3. \A n \in DOMAIN events : \A id \in events[n].ids :
         (handles'[id].live /\ handles'[id].client \in open')
             => (handles[id].live /\ handles[id].client \in open /\ handles'[id].client = handles[id].client)
  BY <1>1 DEF NobodyJoins
<1>4. ASSUME NEW n \in DOMAIN events', NEW id \in events'[n].ids, handles'[id].live, handles'[id].client \in open'
      PROVE  Underway(n, handles[id].client)'
  <2>1. Underway(n, handles[id].client)
    BY <1>3, <1>4, LostMeans
  <2> SUFFICES ASSUME NEW c, c = handles'[id].client PROVE Underway(n, c)'
    BY DEF Underway, Queued, SeenBy, InTransit
  <2>2. c \in open' /\ handles[id].live /\ handles[id].client = c
    BY <1>3, <1>4
  <2> QED BY <1>4, <2>1, <2>2
<1>5. NothingLost'
  BY <1>4 DEF NothingLost, Underway, Queued, SeenBy, SetOf
<1> QED BY <1>2, <1>5

\* The steps of frontends do not touch what is told, nor let in a session that is
\* waited for.
LEMMA FrontendLetsNobodyIn ==
    ASSUME SystemInv, SessionsKnown, NEW f \in Frontends, Frontend(f)
    PROVE  UNCHANGED <<service, seen, told>> /\ \A s \in DOMAIN owner : s \in open' => s \in open
<1>1. CASE Connect(f)
  <2> SUFFICES ASSUME NEW t, t = Len(owner) + 1
               PROVE  UNCHANGED <<service, seen, told>> /\ \A s \in DOMAIN owner : s \in open' => s \in open
    OBVIOUS
  <2>1. open' = open \cup {t} /\ UNCHANGED <<service, seen, told>>
    BY <1>1 DEF Connect
  <2>2. t \notin DOMAIN owner
    BY Types
  <2> QED BY <2>1, <2>2
<1>2. CASE FrontWatch(f) \/ Lose(f) \/ \E id \in Ids : FrontUnwatch(f, id)
  BY <1>2 DEF FrontWatch, Lose, FrontUnwatch, backend
<1> QED BY <1>1, <1>2 DEF Frontend

\* Steps that leave the service alone, and the history of the sessions that stay.
LEMMA OthersKeepDelivery ==
    ASSUME SystemInv, SessionsKnown, Expected, NothingLost, ErrorsReachTheirClients, UNCHANGED service,
           \A s \in DOMAIN owner \cap Sessions : s \in open' => s \in open /\ seen'[s] = seen[s] /\ told'[s] = told[s]
    PROVE  Expected' /\ NothingLost' /\ ErrorsReachTheirClients'
<1>1. UNCHANGED <<events, toBackend, watchers, handles>>
  BY DEF service
<1>2. NobodyJoins
  BY <1>1, ClientsAreKnown DEF NobodyJoins
<1>3. ASSUME NEW n \in DOMAIN events, NEW id \in events[n].ids, NEW c \in open',
             handles[id].client = c, Underway(n, c)
      PROVE  Underway(n, c)'
  <2>1. c \in DOMAIN owner \cap Sessions
    BY <1>3, ClientsAreKnown DEF Expected
  <2> QED BY <1>1, <1>3, <2>1 DEF Underway, Queued, SeenBy, InTransit
<1>4. Expected' /\ NothingLost'
  BY <1>1, <1>2, <1>3, NothingLostKept
<1>5. ASSUME NEW w \in DOMAIN watchers, NEW s \in ClientIds(watchers[w]), ~Live(w), s \in open'
      PROVE  Announced(w, s)'
  <2>1. s \in open /\ told'[s] = told[s]
    BY <1>5, ClientsAreKnown
  <2>2. Announced(w, s)
    BY <1>5, <2>1, ErrorsMean
  <2> QED BY <1>1, <2>1, <2>2 DEF Announced, InTransit
<1>6. ErrorsReachTheirClients'
  BY <1>1, <1>5 DEF ErrorsReachTheirClients, Announced, Live, ClientIds
<1> QED BY <1>4, <1>6

LEMMA ServerLeavesOthers ==
    ASSUME SystemInv, NEW s \in Sessions, ServerCall(s) \/ CloseSession(s)
    PROVE  /\ UNCHANGED <<service, owner>>
           /\ \A t \in Sessions : seen'[t] = seen[t] \/ seen'[t] = <<>>
           /\ \A t \in DOMAIN owner \cap Sessions :
                 t \in open' => t \in open /\ seen'[t] = seen[t] /\ told'[t] = told[t]
<1>1. CASE ServerCall(s)
  BY <1>1 DEF ServerCall
<1>2. CASE CloseSession(s)
  <2>1. /\ UNCHANGED <<service, owner>> /\ open' = open \ {s}
        /\ seen' = [seen EXCEPT ![s] = <<>>] /\ told' = [told EXCEPT ![s] = {}]
    BY <1>2 DEF CloseSession
  <2> QED BY <2>1, Types
<1> QED BY <1>1, <1>2

LEMMA DispatchKeepsDelivery ==
    ASSUME SystemInv, SessionsKnown, Expected, NothingLost, ErrorsReachTheirClients, Dispatch
    PROVE  Expected' /\ NothingLost' /\ ErrorsReachTheirClients'
<1> SUFFICES ASSUME NEW msg, msg = toBackend[1]
             PROVE  Expected' /\ NothingLost' /\ ErrorsReachTheirClients'
  OBVIOUS
<1>1. /\ msg \in InTransit /\ InTransit = InTransit' \cup {msg} /\ msg \in KnownMessages
      /\ UNCHANGED <<watchers, handles, events, owner, open>>
      /\ \/ msg.type = "watched" /\ UNCHANGED <<seen, told>>
         \/ /\ msg.type = "changed" /\ UNCHANGED told
            /\ seen' = [s \in Sessions |-> IF s \in Registered(msg.clients)
                                           THEN Append(seen[s], msg.event) ELSE seen[s]]
         \/ /\ msg.type = "error" /\ UNCHANGED seen
            /\ told' = [s \in Sessions |-> IF s \in Registered(msg.clients)
                                           THEN told[s] \cup {msg.watcher} ELSE told[s]]
  BY DispatchTells
<1>2. NobodyJoins
  BY <1>1 DEF NobodyJoins
<1>3. ASSUME NEW s \in Sessions
      PROVE  /\ SeenBy(s) \subseteq SeenBy(s)' /\ told[s] \subseteq told'[s]
             /\ msg.type = "changed" /\ s \in open /\ s \in msg.clients => msg.event \in SeenBy(s)'
             /\ msg.type = "error" /\ s \in open /\ s \in msg.clients => msg.watcher \in told'[s]
  <2>1. s \in open /\ s \in msg.clients => s \in Registered(msg.clients)
    BY DEF Registered
  <2>2. SeenBy(s) \subseteq SeenBy(s)'
        /\ (msg.type = "changed" /\ s \in Registered(msg.clients) => msg.event \in SeenBy(s)')
    <3>1. \/ seen'[s] = seen[s] /\ ~(msg.type = "changed" /\ s \in Registered(msg.clients))
          \/ seen'[s] = Append(seen[s], msg.event)
      BY <1>1, Types
    <3>2. CASE seen'[s] = Append(seen[s], msg.event)
      <4>1. seen[s] \in Seq(DOMAIN events)
        BY Types
      <4> SUFFICES ASSUME NEW n, n = msg.event
                   PROVE  SeenBy(s) \subseteq SeenBy(s)' /\ n \in SeenBy(s)'
        OBVIOUS
      <4>2. SetOf(seen'[s]) = SetOf(seen[s]) \cup {n}
        BY <3>2, <4>1, AppendPlaces
      <4> QED BY <4>2 DEF SeenBy
    <3> QED BY <3>1, <3>2 DEF SeenBy
  <2>3. told[s] \subseteq told'[s]
        /\ (msg.type = "error" /\ s \in Registered(msg.clients) => msg.watcher \in told'[s])
    BY <1>1, Types
  <2> QED BY <2>1, <2>2, <2>3
<1>4. ASSUME NEW n \in DOMAIN events, NEW id \in events[n].ids, NEW c \in open',
             handles[id].client = c, Underway(n, c)
      PROVE  Underway(n, c)'
  <2>1. c \in Sessions
    BY <1>4, ClientsAreKnown DEF Expected
  <2>2. CASE n \in Queued(events[n].watcher)
    BY <1>1, <2>2 DEF Underway, Queued
  <2>3. CASE n \in SeenBy(c)
    BY <1>3, <2>1, <2>3 DEF Underway
  <2>4. ASSUME NEW m \in InTransit, m.type = "changed", m.event = n, c \in m.clients PROVE Underway(n, c)'
    <3>1. CASE m = msg
      BY <1>1, <1>3, <1>4, <2>1, <2>4, <3>1 DEF Underway
    <3>2. CASE m \in InTransit'
      BY <2>4, <3>2 DEF Underway
    <3> QED BY <1>1, <3>1, <3>2
  <2> QED BY <1>4, <2>2, <2>3, <2>4 DEF Underway
<1>5. Expected' /\ NothingLost'
  BY <1>1, <1>2, <1>4, NothingLostKept
<1>6. ASSUME NEW w \in DOMAIN watchers, NEW s \in ClientIds(watchers[w]), ~Live(w), s \in open'
      PROVE  Announced(w, s)'
  <2>1. s \in Sessions /\ s \in open
    BY <1>1, <1>6, ClientsAreKnown
  <2>2. Announced(w, s)
    BY <1>6, <2>1, ErrorsMean
  <2>3. CASE w \in told[s]
    BY <1>3, <2>1, <2>3 DEF Announced
  <2>4. ASSUME NEW m \in InTransit, m.type = "error", m.watcher = w, s \in m.clients PROVE Announced(w, s)'
    <3>1. CASE m = msg
      BY <1>3, <2>1, <2>4, <3>1 DEF Announced
    <3>2. CASE m \in InTransit'
      BY <2>4, <3>2 DEF Announced
    <3> QED BY <1>1, <3>1, <3>2
  <2> QED BY <2>2, <2>3, <2>4 DEF Announced
<1>7. ErrorsReachTheirClients'
  BY <1>1, <1>6 DEF ErrorsReachTheirClients, Announced, Live, ClientIds
<1> QED BY <1>5, <1>7

LEMMA RequestKeepsDelivery ==
    ASSUME SystemInv, SessionsKnown, Expected, NothingLost, ErrorsReachTheirClients, ServiceRequest
    PROVE  Expected' /\ NothingLost' /\ ErrorsReachTheirClients'
<1> SUFFICES ASSUME NEW by, Asks(by), UNCHANGED <<open, seen, told>>
             PROVE  Expected' /\ NothingLost' /\ ErrorsReachTheirClients'
  BY RequestAsks
<1>1. UNCHANGED events /\ DOMAIN watchers \subseteq DOMAIN watchers'
      /\ \A v \in DOMAIN watchers : watchers'[v].queue = watchers[v].queue
  BY DEF Asks
<1>2. NobodyJoins
  BY DEF Asks, NobodyJoins
<1>3. InTransit \subseteq InTransit'
  <2>1. CASE UNCHANGED toBackend
    BY <2>1 DEF InTransit
  <2>2. ASSUME NEW msg, Send(msg) PROVE InTransit \subseteq InTransit'
    <3>1. SetOf(toBackend') = SetOf(toBackend) \cup {msg}
      BY <2>2, Types, Domains, AppendPlaces DEF Send
    <3> QED BY <3>1 DEF SetOf, InTransit
  <2> QED BY <2>1, <2>2 DEF Asks
<1>4. \A n \in DOMAIN events : \A c : Underway(n, c) => Underway(n, c)'
  BY <1>1, <1>3 DEF Underway, Queued, SeenBy, Expected
<1>5. Expected' /\ NothingLost'
  BY <1>1, <1>2, <1>4, NothingLostKept
<1>6. ASSUME NEW w \in DOMAIN watchers', NEW s \in ClientIds(watchers'[w]), watchers'[w].disposed, s \in open'
      PROVE  Announced(w, s)'
  <2>1. w \in DOMAIN watchers /\ watchers[w].disposed /\ watchers'[w].refs = watchers[w].refs
    BY <1>6 DEF Asks
  <2>2. s \in ClientIds(watchers[w]) /\ s \in open
    BY <1>6, <2>1 DEF ClientIds
  <2>3. Announced(w, s)
    BY <2>1, <2>2, ErrorsMean DEF Live
  <2> QED BY <1>3, <2>3 DEF Announced
<1>7. ErrorsReachTheirClients'
  BY <1>6 DEF ErrorsReachTheirClients, Announced, Live
<1> QED BY <1>5, <1>7

LEMMA WatcherKeepsDelivery ==
    ASSUME SystemInv, Ordered, SessionsKnown, Expected, NothingLost, ErrorsReachTheirClients,
           NEW w, w \in DOMAIN watchers, WatcherNext(w), UNCHANGED backend
    PROVE  Expected' /\ NothingLost' /\ ErrorsReachTheirClients'
<1>1. /\ DOMAIN watchers' = DOMAIN watchers /\ UNCHANGED <<open, seen, told>>
      /\ \A v \in DOMAIN watchers : v # w => watchers'[v] = watchers[v]
      /\ watchers'[w].refs = watchers[w].refs
      /\ Tells(w)
  BY WatcherTells, Types DEF backend
<1>2. NobodyJoins
  BY <1>1 DEF Tells, HandlesFade, NobodyJoins
<1>3. \A v \in DOMAIN watchers : ClientIds(watchers'[v]) = ClientIds(watchers[v])
  BY <1>1 DEF ClientIds
<1>4. ASSUME NEW msg, Send(msg) PROVE InTransit' = InTransit \cup {msg}
  <2>1. SetOf(toBackend') = SetOf(toBackend) \cup {msg}
    BY <1>4, Types, Domains, AppendPlaces DEF Send
  <2> QED BY <2>1 DEF SetOf, InTransit
<1>5. InTransit \subseteq InTransit'
  BY <1>1, <1>4 DEF Tells, StaysQuiet, HasFailed, Raises, Processes, InTransit
<1>6. \A v \in DOMAIN watchers : \A s : Announced(v, s) => Announced(v, s)'
  BY <1>1, <1>5 DEF Announced
<1>7. ASSUME NEW v \in DOMAIN watchers, NEW s \in ClientIds(watchers[v]), watchers'[v].disposed, s \in open
      PROVE  Announced(v, s)'
  <2>1. CASE watchers[v].disposed
    BY <1>6, <1>7, <2>1, ErrorsMean DEF Live
  <2>2. CASE ~watchers[v].disposed
    <3>1. v = w /\ ~Unused(watchers[w])
      <4>1. v = w
        BY <1>1, <1>7, <2>2
      <4>2. watchers[w].refs[s] > 0 /\ s \in Clients
        BY <1>7, <4>1 DEF ClientIds
      <4> QED BY <4>1, <4>2 DEF Unused
    <3>2. HasFailed(w)
      BY <1>1, <1>7, <2>2, <3>1 DEF Tells, StaysQuiet, Raises, Processes
    <3> SUFFICES ASSUME NEW msg, msg = [type |-> "error", clients |-> ClientIds(watchers[w]), watcher |-> w]
                 PROVE  Announced(v, s)'
      OBVIOUS
    <3>3. msg \in InTransit'
      BY <1>4, <3>2 DEF HasFailed
    <3> QED BY <1>7, <3>1, <3>3 DEF Announced
  <2> QED BY <2>1, <2>2
<1>8. ErrorsReachTheirClients'
  BY <1>1, <1>3, <1>7 DEF ErrorsReachTheirClients, Announced, Live
<1>9. CASE StaysQuiet(w) \/ HasFailed(w)
  <2>1. UNCHANGED events /\ \A v \in DOMAIN watchers : watchers'[v].queue = watchers[v].queue
    BY <1>1, <1>9 DEF StaysQuiet, HasFailed
  <2>2. \A n \in DOMAIN events : \A c : Underway(n, c) => Underway(n, c)'
    BY <1>1, <1>5, <2>1 DEF Underway, Queued, SeenBy, Expected
  <2> QED BY <1>1, <1>2, <1>8, <2>1, <2>2, NothingLostKept
<1>10. CASE Processes(w)
  <2> SUFFICES ASSUME NEW h, h = Head(watchers[w].queue),
                      NEW msg, msg = [type |-> "changed", clients |-> ClientIds(watchers[w]), event |-> h]
               PROVE  Expected' /\ NothingLost' /\ ErrorsReachTheirClients'
    OBVIOUS
  <2>1. UNCHANGED events /\ msg \in InTransit'
    BY <1>4, <1>10 DEF Processes
  <2>2. Queued(w) = Queued(w)' \cup {h} /\ \A v \in DOMAIN watchers : v # w => Queued(v)' = Queued(v)
    <3>1. watchers[w].queue \in Seq(DOMAIN events)
      BY Types DEF Known
    <3>2. watchers[w].queue # <<>> /\ watchers'[w].queue = Tail(watchers[w].queue)
      BY <1>10 DEF Processes
    <3>3. SetOf(watchers[w].queue) = SetOf(watchers'[w].queue) \cup {h}
      BY <3>1, <3>2, TailPlaces
    <3> QED BY <1>1, <3>3 DEF Queued
  <2>3. ASSUME NEW n \in DOMAIN events, NEW id \in events[n].ids, NEW c \in open',
               handles[id].live, handles[id].client = c, Underway(n, c)
        PROVE  Underway(n, c)'
    <3>1. CASE n \in Queued(events[n].watcher) /\ n # h
      BY <2>1, <2>2, <2>3, <3>1 DEF Underway, Expected
    <3>2. CASE n \in Queued(events[n].watcher) /\ n = h
      <4>1. events[n].watcher = w
        BY <2>2, <3>2 DEF Ordered
      <4>2. id \in IdsOf(w, c) /\ c \in Clients
        BY <2>3, <4>1, ClientsAreKnown DEF Expected, IdsOf, Sessions
      <4>3. IsFiniteSet(IdsOf(w, c)) /\ Cardinality(IdsOf(w, c)) \in Nat /\ RefsMatchHandles
        BY Types, IdsAreFinite DEF ServiceInv, Core
      <4>4. Cardinality(IdsOf(w, c)) # 0
        BY <4>2, <4>3, FS_EmptySet
      <4>5. watchers[w].refs[c] = Cardinality(IdsOf(w, c))
        BY <4>2, <4>3 DEF RefsMatchHandles
      <4>6. c \in msg.clients
        BY <4>2, <4>3, <4>4, <4>5 DEF ClientIds
      <4> QED BY <2>1, <3>2, <4>6 DEF Underway
    <3>3. CASE n \in SeenBy(c) \/ \E m \in InTransit : m.type = "changed" /\ m.event = n /\ c \in m.clients
      BY <1>1, <1>5, <3>3 DEF Underway, SeenBy
    <3> QED BY <2>3, <3>1, <3>2, <3>3 DEF Underway
  <2> QED BY <1>1, <1>2, <1>8, <2>1, <2>3, NothingLostKept
<1>11. CASE Raises(w)
  <2> SUFFICES ASSUME NEW k, k = Len(events) + 1, NEW e, e = [watcher |-> w, ids |-> Expecting(w)]
               PROVE  Expected' /\ NothingLost' /\ ErrorsReachTheirClients'
    OBVIOUS
  <2>1. /\ DOMAIN events' = DOMAIN events \cup {k}
        /\ \A n \in DOMAIN events : events'[n] = events[n]
        /\ events'[k].watcher = w /\ events'[k].ids = Expecting(w) /\ UNCHANGED handles
    <3>1. events' = Append(events, e) /\ UNCHANGED handles
      BY <1>11 DEF Raises
    <3>2. Len(events) \in Nat /\ DOMAIN events = 1 .. Len(events)
      BY Types, Domains
    <3> QED BY <3>1, <3>2
  <2>2. Queued(w)' = Queued(w) \cup {k} /\ \A v \in DOMAIN watchers : v # w => Queued(v)' = Queued(v)
    <3>1. watchers[w].queue \in Seq(DOMAIN events)
      BY Types DEF Known
    <3>2. watchers'[w].queue = Append(watchers[w].queue, k)
      BY <1>11 DEF Raises
    <3>3. SetOf(watchers'[w].queue) = SetOf(watchers[w].queue) \cup {k}
      BY <3>1, <3>2, AppendPlaces
    <3> QED BY <1>1, <3>3 DEF Queued
  <2>3. \A c : Underway(k, c)'
    BY <2>1, <2>2 DEF Underway
  <2>4. \A n \in DOMAIN events : \A c : Underway(n, c) => Underway(n, c)'
    BY <1>1, <1>5, <2>1, <2>2 DEF Underway, SeenBy, Expected
  <2>5. Expected'
    BY <1>1, <2>1 DEF Expected, Expecting
  <2>6. ASSUME NEW n \in DOMAIN events', NEW id \in events'[n].ids, handles'[id].live, handles'[id].client \in open'
        PROVE  \A c : c = handles[id].client => Underway(n, c)'
    <3>1. CASE n = k
      BY <2>3, <3>1
    <3>2. CASE n \in DOMAIN events
      <4>1. id \in events[n].ids /\ handles[id].live /\ handles[id].client \in open
        BY <1>1, <2>1, <2>6, <3>2
      <4>2. Underway(n, handles[id].client)
        BY <3>2, <4>1, LostMeans
      <4> QED BY <2>4, <3>2, <4>2
    <3> QED BY <2>1, <3>1, <3>2
  <2>7. NothingLost'
    BY <2>1, <2>6 DEF NothingLost, Underway, Queued, SeenBy, SetOf
  <2> QED BY <1>8, <2>5, <2>7
<1> QED BY <1>1, <1>9, <1>10, <1>11 DEF Tells

-----------------------------------------------------------------------------
\* What holds of changes and failures on their way, whatever connections do.
Delivery == SystemInv /\ SessionsKnown /\ Ordered /\ Expected /\ NothingLost /\ ErrorsReachTheirClients

LEMMA DeliveryAtFirst == Init => Delivery
<1> SUFFICES ASSUME Init PROVE Delivery
  OBVIOUS
<1>1. Expected /\ NothingLost /\ ErrorsReachTheirClients
  BY DEF Init, ServiceInit, Expected, NothingLost, ErrorsReachTheirClients
<1> QED BY <1>1, SystemInitInv, SessionsAtFirst, OrderAtFirst DEF Delivery

LEMMA DeliveryKept == Delivery /\ [Next]_vars => Delivery'
<1> SUFFICES ASSUME Delivery, [Next]_vars PROVE Delivery'
  OBVIOUS
<1> USE DEF Delivery
<1>1. CASE UNCHANGED vars
  <2>1. UNCHANGED <<service, frontend, backend, owner, open, up, toService, seen, told>>
    BY <1>1 DEF vars, backend
  <2>2. SystemInv'
    BY <1>1, SystemNextInv
  <2>3. SessionsKnown'
    BY <2>1, SessionsKept DEF Requested
  <2> QED BY <2>1, <2>2, <2>3, OthersKeepOrder, OthersKeepDelivery
<1>2. ASSUME NEW f \in Frontends, Frontend(f) PROVE Delivery'
  <2>1. SystemInv' /\ SessionsKnown'
    BY <1>2, FrontendKeepsInv, FrontendKeepsSessions
  <2>2. UNCHANGED <<service, seen, told>> /\ \A s \in DOMAIN owner : s \in open' => s \in open
    BY <1>2, FrontendLetsNobodyIn
  <2> QED BY <2>1, <2>2, OthersKeepOrder, OthersKeepDelivery
<1>3. CASE ServiceRequest
  BY <1>3, ServiceRequestKeepsInv, RequestKeepsSessions, RequestKeepsOrder, RequestKeepsDelivery
<1>4. CASE Dispatch
  BY <1>4, DispatchKeepsInv, DispatchKeepsSessions, DispatchKeepsOrder, DispatchKeepsDelivery
<1>5. ASSUME NEW s \in Sessions, ServerCall(s) \/ CloseSession(s) PROVE Delivery'
  <2>1. SystemInv' /\ SessionsKnown'
    BY <1>5, ServerCallKeepsInv, CloseSessionKeepsInv, BackendKeepsSessions
  <2> QED BY <1>5, <2>1, ServerLeavesOthers, OthersKeepOrder, OthersKeepDelivery
<1>6. ASSUME NEW w \in DOMAIN watchers, WatcherNext(w), UNCHANGED <<frontend, backend>> PROVE Delivery'
  <2>1. SystemInv'
    BY <1>6, ServiceStepKeepsInv
  <2> QED BY <1>6, <2>1, ServiceKeepsSessions, WatcherKeepsOrder, WatcherKeepsDelivery
<1> QED BY <1>1, <1>2, <1>3, <1>4, <1>5, <1>6 DEF Next, Backend, Service

\* The inductive invariant of delivery: no step of a frontend, a session or the
\* service loses a change or a failure, or lets one overtake another.
THEOREM DeliveryInvariant == Spec => []Delivery
BY DeliveryAtFirst, DeliveryKept, PTL DEF Spec

\* A file change gets to every session that has held a watcher for it since it was
\* raised: it waits in the queue of handleNsfwEvents, is in a message that names the
\* session, or has been told, whoever else comes, goes or fails meanwhile.
THEOREM ChangesReachEverybody == Spec => []NothingLost
BY DeliveryInvariant, PTL DEF Delivery

\* No session sees two changes of a watcher in another order than they were raised
\* in, nor one of them twice: the promise chain of handleNsfwEvents keeps the order.
THEOREM ChangesStayInOrder == Spec => []EventsInOrder
<1>1. Delivery => EventsInOrder
  BY DEF Delivery, Ordered, InOrder, Before, EventsInOrder
<1> QED BY <1>1, DeliveryInvariant, PTL

\* Whoever refers to a watcher when it fails is told, or the error that names it is
\* on its way: fireError looks at the clients before anybody forgets them.
THEOREM FailuresReachEverybody == Spec => []ErrorsReachTheirClients
BY DeliveryInvariant, PTL DEF Delivery
=============================================================================
