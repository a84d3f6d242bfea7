------------------------- MODULE WatcherServiceProofs -------------------------
(***************************************************************************)
(* Theorems about WatcherService and their proofs, for any number of        *)
(* clients, calls, watchers, events and failures.                           *)
(***************************************************************************)
EXTENDS WatcherService, FiniteSetTheorems, SequenceTheorems, TLAPS

Handles == [client : Clients, watcher : 1 .. Len(watchers), live : BOOLEAN]

\* The types of what the other parts of the invariant speak of, and of the rest.
CoreType ==
    /\ watchers \in Seq(Watchers)
    /\ current \in 0 .. Len(watchers)
    /\ handles \in Seq(Handles)
RestType ==
    /\ events \in Seq([watcher : Nat, ids : SUBSET Nat])
    /\ failures \in Nat
    /\ toBackend \in Seq(Messages)

Core == CoreType /\ RefsMatchHandles /\ OneLiveWatcher /\ DisposalIfUnused /\ RunningIsLive

\* The parts of the invariant support each other: that references are counted
\* exactly shows that they are never negative and that only a live watcher loses
\* one, and both show when its disposal is scheduled.
ServiceInv == Core /\ RestType

LEMMA ServiceTypeIsSplit == ServiceTypeOK <=> CoreType /\ RestType
BY DEF ServiceTypeOK, CoreType, RestType, Handles

-----------------------------------------------------------------------------
(* Steps of one watcher. *)

LEMMA OneWatcherChanges ==
    ASSUME NEW ws, ws \in Seq(Watchers), NEW w \in DOMAIN ws, NEW x \in Watchers
    PROVE  LET changed == [ws EXCEPT ![w] = x]
           IN  /\ changed \in Seq(Watchers)
               /\ Len(changed) = Len(ws)
               /\ DOMAIN ws = 1 .. Len(ws)
               /\ DOMAIN changed = DOMAIN ws
               /\ \A v \in DOMAIN ws : changed[v] = IF v = w THEN x ELSE ws[v]
<1>1. DOMAIN ws = 1 .. Len(ws) /\ w \in 1 .. Len(ws)
  BY LenProperties
<1> QED BY <1>1, ExceptSeq, LenProperties

LEMMA WatcherFields ==
    ASSUME NEW x \in Watchers
    PROVE  /\ x.refs \in [Clients -> Nat] /\ x.disposed \in BOOLEAN /\ x.timer \in BOOLEAN
           /\ x.start \in {"creating", "starting", "done"}
           /\ x.native \in {"none", "starting", "running", "stopping", "stopped"}
           /\ x.queue \in Seq(Nat)
BY DEF Watchers

\* A step that leaves references, handles and the map alone.
LEMMA QuietStep ==
    ASSUME Core, NEW w, w \in DOMAIN watchers, NEW x \in Watchers,
           x.refs = watchers[w].refs, x.disposed = watchers[w].disposed,
           ~x.disposed => x.timer = watchers[w].timer,
           x.native = "running" => ~x.disposed,
           watchers' = [watchers EXCEPT ![w] = x], UNCHANGED <<current, handles>>
    PROVE  Core'
<1> USE DEF Core
<1>1. /\ watchers' \in Seq(Watchers) /\ Len(watchers') = Len(watchers)
      /\ DOMAIN watchers' = DOMAIN watchers
      /\ \A v \in DOMAIN watchers : watchers'[v] = IF v = w THEN x ELSE watchers[v]
  BY OneWatcherChanges DEF CoreType
<1>2. CoreType'
  BY <1>1 DEF CoreType, Handles
<1>3. \A v \in DOMAIN watchers : /\ watchers'[v].refs = watchers[v].refs
                                 /\ watchers'[v].disposed = watchers[v].disposed
                                 /\ Live(v)' <=> Live(v)
                                 /\ Unused(watchers'[v]) <=> Unused(watchers[v])
  BY <1>1 DEF Live, Unused
<1>4. RefsMatchHandles'
  BY <1>1, <1>3 DEF RefsMatchHandles, IdsOf
<1>5. OneLiveWatcher'
  BY <1>1, <1>3 DEF OneLiveWatcher
<1>6. DisposalIfUnused'
  <2> SUFFICES ASSUME NEW v \in DOMAIN watchers, Live(v)'
               PROVE  watchers'[v].timer <=> Unused(watchers'[v])
    BY <1>1 DEF DisposalIfUnused
  <2>1. watchers'[v].timer = watchers[v].timer
    BY <1>1, <1>3 DEF Live
  <2> QED BY <2>1, <1>3 DEF DisposalIfUnused
<1>7. RunningIsLive'
  BY <1>1, <1>3 DEF RunningIsLive, Live
<1> QED BY <1>2, <1>4, <1>5, <1>6, <1>7

\* A watcher is disposed, and forgotten with the ids that stand for it.
LEMMA DisposedStep ==
    ASSUME Core, NEW w, w \in DOMAIN watchers, NEW x \in Watchers,
           watchers' = [watchers EXCEPT ![w] = Disposed(x)], Forget(w)
    PROVE  Core'
<1> USE DEF Core
<1>1. /\ Disposed(x) \in Watchers /\ Disposed(x).disposed
      /\ Disposed(x).native # "running"
  BY DEF Disposed, Watchers
<1>2. /\ watchers' \in Seq(Watchers) /\ Len(watchers') = Len(watchers)
      /\ DOMAIN watchers' = DOMAIN watchers /\ DOMAIN watchers = 1 .. Len(watchers)
      /\ \A v \in DOMAIN watchers : watchers'[v] = IF v = w THEN Disposed(x) ELSE watchers[v]
  BY <1>1, OneWatcherChanges DEF CoreType
<1>3. \A v \in DOMAIN watchers : v # w => (Live(v)' <=> Live(v)) /\ watchers'[v] = watchers[v]
  BY <1>2 DEF Live
<1>4. ~Live(w)'
  BY <1>1, <1>2 DEF Live
<1>5. Len(handles) \in Nat /\ DOMAIN handles = 1 .. Len(handles)
  BY LenProperties DEF CoreType
<1>6. \A id \in 1 .. Len(handles) : handles[id] \in Handles
  BY ElementOfSeq DEF CoreType
<1>7. /\ handles' = [id \in 1 .. Len(handles) |->
                        IF handles[id].watcher = w THEN [handles[id] EXCEPT !.live = FALSE] ELSE handles[id]]
      /\ DOMAIN handles' = DOMAIN handles
      /\ \A id \in DOMAIN handles :
            /\ handles'[id] \in Handles
            /\ handles'[id].client = handles[id].client
            /\ handles'[id].watcher = handles[id].watcher
            /\ handles'[id].live <=> handles[id].live /\ handles[id].watcher # w
  BY <1>5, <1>6 DEF Forget, Handles
<1>8. CoreType'
  <2>1. handles' \in Seq(Handles)
    BY <1>5, <1>7 DEF CoreType
  <2>2. Handles' = Handles
    BY <1>2 DEF Handles
  <2>3. current' \in 0 .. Len(watchers')
    BY <1>2, LenProperties DEF CoreType, Forget
  <2> QED BY <1>2, <2>1, <2>2, <2>3 DEF CoreType
<1>9. \A v \in DOMAIN watchers : \A c \in Clients :
          IdsOf(v, c)' = IF v = w THEN {} ELSE IdsOf(v, c)
  BY <1>7 DEF IdsOf
<1>10. RefsMatchHandles'
  BY <1>2, <1>3, <1>4, <1>9 DEF RefsMatchHandles
<1>11. OneLiveWatcher'
  <2>1. 0 \notin DOMAIN watchers
    BY <1>2
  <2> QED BY <2>1, <1>2, <1>3, <1>4 DEF OneLiveWatcher, Forget
<1>12. DisposalIfUnused'
  BY <1>2, <1>3, <1>4 DEF DisposalIfUnused
<1>13. RunningIsLive'
  BY <1>1, <1>2, <1>3 DEF RunningIsLive
<1> QED BY <1>8, <1>10, <1>11, <1>12, <1>13

-----------------------------------------------------------------------------
(* Requests. *)

LEMMA HandleAppended ==
    ASSUME CoreType, NEW h, NEW n \in Nat, n >= Len(watchers),
           h \in [client : Clients, watcher : 1 .. n, live : BOOLEAN]
    PROVE  LET more == Append(handles, h)
           IN  /\ more \in Seq([client : Clients, watcher : 1 .. n, live : BOOLEAN])
               /\ Len(more) = Len(handles) + 1
               /\ DOMAIN handles = 1 .. Len(handles) /\ DOMAIN more = 1 .. Len(handles) + 1
               /\ Len(handles) \in Nat
               /\ \A id \in DOMAIN handles : more[id] = handles[id]
               /\ more[Len(handles) + 1] = h
<1> DEFINE Wide == [client : Clients, watcher : 1 .. n, live : BOOLEAN]
<1>1. Len(watchers) \in Nat
  BY LenProperties DEF CoreType
<1>2. Handles \subseteq Wide
  BY <1>1 DEF Handles
<1>3. handles \in Seq(Wide)
  <2> HIDE DEF Wide
  <2> QED BY <1>2, SeqMonotonic DEF CoreType
<1> HIDE DEF Wide
<1>4. h \in Wide
  BY DEF Wide
<1>5. Append(handles, h) \in Seq(Wide) /\ Len(Append(handles, h)) = Len(handles) + 1
      /\ \A id \in 1 .. Len(handles) : Append(handles, h)[id] = handles[id]
      /\ Append(handles, h)[Len(handles) + 1] = h
  BY <1>3, <1>4, AppendProperties
<1>6. Len(handles) \in Nat /\ DOMAIN handles = 1 .. Len(handles)
      /\ DOMAIN Append(handles, h) = 1 .. Len(Append(handles, h))
  BY <1>3, <1>5, LenProperties
<1> QED BY <1>5, <1>6 DEF Wide

\* The ids of a client are finitely many: a new handle adds one, an id that is
\* given back takes one away.
LEMMA IdsAreFinite ==
    ASSUME CoreType, NEW w, NEW c
    PROVE  IsFiniteSet(IdsOf(w, c)) /\ Cardinality(IdsOf(w, c)) \in Nat
<1>1. Len(handles) \in Nat /\ DOMAIN handles = 1 .. Len(handles)
  BY LenProperties DEF CoreType
<1>2. IsFiniteSet(1 .. Len(handles)) /\ IdsOf(w, c) \in SUBSET (1 .. Len(handles))
  BY <1>1, FS_Interval DEF IdsOf
<1> QED BY <1>2, FS_Subset, FS_CardinalityType

LEMMA WatchKeepsCore ==
    ASSUME Core, NEW c \in Clients, NEW call, Watch(c, call)
    PROVE  Core'
<1> USE DEF Core
<1>0. /\ Len(watchers) \in Nat /\ DOMAIN watchers = 1 .. Len(watchers)
      /\ Len(handles) \in Nat /\ DOMAIN handles = 1 .. Len(handles)
  BY LenProperties DEF CoreType
<1> DEFINE h == [client |-> c, watcher |-> current', live |-> TRUE]
           n == Len(handles) + 1
<1>1. handles' = Append(handles, h)
  BY DEF Watch
<1>2. ASSUME /\ Len(watchers') \in Nat /\ Len(watchers') >= Len(watchers)
             /\ watchers' \in Seq(Watchers) /\ DOMAIN watchers' = 1 .. Len(watchers')
             /\ current' \in 1 .. Len(watchers')
             /\ \A w \in DOMAIN watchers' : Live(w)' <=> current' = w
             /\ \A w \in DOMAIN watchers' : w # current' =>
                    w \in DOMAIN watchers /\ watchers'[w] = watchers[w]
             /\ \A d \in Clients : watchers'[current'].refs[d] =
                    (IF current' \in DOMAIN watchers THEN watchers[current'].refs[d] ELSE 0)
                    + (IF d = c THEN 1 ELSE 0)
             /\ current' \in DOMAIN watchers => Live(current')
             /\ ~watchers'[current'].timer
      PROVE  Core'
  <2> USE <1>2
  <2>1. /\ handles' \in Seq(Handles') /\ DOMAIN handles' = 1 .. n
        /\ \A id \in DOMAIN handles : handles'[id] = handles[id]
        /\ handles'[n] = h
    <3>1. h \in [client : Clients, watcher : 1 .. Len(watchers'), live : BOOLEAN]
      OBVIOUS
    <3> HIDE DEF h
    <3> QED BY <3>1, <1>1, HandleAppended DEF Handles
  <2>2. CoreType'
    BY <2>1 DEF CoreType
  <2>3. \A w \in DOMAIN watchers', d \in Clients :
            IdsOf(w, d)' = IF w = current' /\ d = c THEN IdsOf(w, d) \cup {n} ELSE IdsOf(w, d)
    <3> SUFFICES ASSUME NEW w \in DOMAIN watchers', NEW d \in Clients
                 PROVE  \A id \in 1 .. n :
                            id \in IdsOf(w, d)' <=> id \in IdsOf(w, d) \/ (id = n /\ w = current' /\ d = c)
      BY <1>0, <2>1 DEF IdsOf
    <3>1. \A id \in DOMAIN handles : id \in IdsOf(w, d)' <=> id \in IdsOf(w, d)
      BY <1>0, <2>1 DEF IdsOf
    <3>2. n \in IdsOf(w, d)' <=> w = current' /\ d = c
      BY <1>0, <2>1 DEF IdsOf
    <3>3. n \notin IdsOf(w, d)
      BY <1>0 DEF IdsOf
    <3> QED BY <1>0, <3>1, <3>2, <3>3
  <2>4. \A w \in DOMAIN watchers', d \in Clients : w \notin DOMAIN watchers => IdsOf(w, d) = {}
    <3>1. \A id \in DOMAIN handles : handles[id].watcher \in 1 .. Len(watchers)
      <4>1. \A id \in DOMAIN handles : handles[id] \in Handles
        BY <1>0, ElementOfSeq DEF CoreType
      <4> QED BY <4>1 DEF Handles
    <3> QED BY <1>0, <3>1 DEF IdsOf
  <2>5. RefsMatchHandles'
    <3> SUFFICES ASSUME NEW w \in DOMAIN watchers', NEW d \in Clients
                 PROVE  IF Live(w)' THEN watchers'[w].refs[d] = Cardinality(IdsOf(w, d)')
                                    ELSE IdsOf(w, d)' = {}
      BY DEF RefsMatchHandles
    <3>1. CASE w # current'
      <4>1. w \in DOMAIN watchers /\ watchers'[w] = watchers[w] /\ IdsOf(w, d)' = IdsOf(w, d)
        BY <2>3, <3>1
      <4>2. Live(w)' <=> Live(w)
        BY <4>1 DEF Live
      <4> QED BY <4>1, <4>2 DEF RefsMatchHandles
    <3>2. CASE w = current'
      <4>1. Cardinality(IdsOf(w, d)) \in Nat /\ IsFiniteSet(IdsOf(w, d)) /\ n \notin IdsOf(w, d)
        <5>1. n \notin IdsOf(w, d)
          BY <1>0 DEF IdsOf
        <5> QED BY <5>1, IdsAreFinite
      <4>2. Cardinality(IdsOf(w, d)) = IF w \in DOMAIN watchers THEN watchers[w].refs[d] ELSE 0
        BY <2>4, <3>2, FS_EmptySet DEF RefsMatchHandles
      <4>3. Cardinality(IdsOf(w, d)') = Cardinality(IdsOf(w, d)) + (IF d = c THEN 1 ELSE 0)
        BY <2>3, <3>2, <4>1, FS_AddElement
      <4> QED BY <3>2, <4>1, <4>2, <4>3
    <3> QED BY <3>1, <3>2
  <2>6. OneLiveWatcher'
    BY DEF OneLiveWatcher
  <2>7. DisposalIfUnused'
    <3> SUFFICES ASSUME NEW w \in DOMAIN watchers', Live(w)'
                 PROVE  watchers'[w].timer <=> Unused(watchers'[w])
      BY DEF DisposalIfUnused
    <3>0. w = current'
      OBVIOUS
    <3>1. watchers'[w].refs[c] # 0
      <4>1. watchers'[w].refs[c] = Cardinality(IdsOf(w, c)) + 1
        <5>1. Cardinality(IdsOf(w, c)) = IF w \in DOMAIN watchers THEN watchers[w].refs[c] ELSE 0
          BY <2>4, <3>0, FS_EmptySet DEF RefsMatchHandles
        <5> QED BY <5>1, <3>0
      <4> QED BY <4>1, IdsAreFinite
    <3>2. ~Unused(watchers'[w])
      BY <3>1 DEF Unused
    <3> QED BY <3>0, <3>2
  <2>8. RunningIsLive'
    <3> SUFFICES ASSUME NEW w \in DOMAIN watchers', w # current', watchers'[w].native = "running"
                 PROVE  Live(w)'
      BY DEF RunningIsLive
    <3> QED BY DEF RunningIsLive, Live
  <2> QED BY <2>2, <2>5, <2>6, <2>7, <2>8
<1>3. CASE current = 0
  <2> DEFINE m == Len(watchers) + 1
  <2>1. watchers' = Append(watchers, NewWatcher(c)) /\ current' = m
    BY <1>3 DEF Watch
  <2>2. NewWatcher(c) \in Watchers /\ ~NewWatcher(c).disposed /\ ~NewWatcher(c).timer
        /\ \A d \in Clients : NewWatcher(c).refs[d] = IF d = c THEN 1 ELSE 0
    <3>1. <<>> \in Seq(Nat)
      OBVIOUS
    <3> QED BY <3>1 DEF NewWatcher, Watchers
  <2>3. /\ watchers' \in Seq(Watchers) /\ Len(watchers') = m
        /\ \A w \in 1 .. Len(watchers) : watchers'[w] = watchers[w]
        /\ watchers'[m] = NewWatcher(c)
    BY <2>1, <2>2, AppendProperties DEF CoreType
  <2>4. DOMAIN watchers' = 1 .. m
    BY <2>3, LenProperties
  <2>5. \A w \in DOMAIN watchers : ~Live(w)
    BY <1>0, <1>3 DEF OneLiveWatcher
  <2>6. \A w \in DOMAIN watchers' : Live(w)' <=> current' = w
    BY <1>0, <2>1, <2>2, <2>3, <2>4, <2>5 DEF Live
  <2>7. m \notin DOMAIN watchers /\ m \in Nat
    BY <1>0
  <2> QED BY <1>0, <1>2, <2>1, <2>2, <2>3, <2>4, <2>6, <2>7
<1>4. CASE current # 0
  <2> DEFINE old == watchers[current]
             new == AddRef(old, c)
  <2>1. current' = current /\ watchers' = [watchers EXCEPT ![current] = new] /\ current \in DOMAIN watchers
    BY <1>0, <1>4 DEF Watch, CoreType
  <2>2. old \in Watchers
    BY <1>0, <2>1, ElementOfSeq DEF CoreType
  <2>3. Live(current) /\ ~old.disposed
    BY <2>1 DEF OneLiveWatcher, Live
  <2>4. old.timer <=> Unused(old)
    BY <2>1, <2>3 DEF DisposalIfUnused
  <2>5. new \in Watchers /\ ~new.timer /\ ~new.disposed
        /\ \A d \in Clients : new.refs[d] = old.refs[d] + (IF d = c THEN 1 ELSE 0)
    <3> DEFINE refs == [old.refs EXCEPT ![c] = @ + 1]
    <3>1. old.refs \in [Clients -> Nat] /\ old.timer \in BOOLEAN
      BY <2>2, WatcherFields
    <3>2. refs \in [Clients -> Nat] /\ \A d \in Clients : refs[d] = old.refs[d] + (IF d = c THEN 1 ELSE 0)
      BY <3>1
    <3> HIDE DEF refs
    <3>3. new = [old EXCEPT !.refs = refs, !.timer = IF Unused(old) THEN FALSE ELSE old.timer]
      BY <2>2 DEF AddRef, refs, Watchers
    <3>4. new \in Watchers /\ new.refs = refs /\ new.disposed = old.disposed
          /\ new.timer = IF Unused(old) THEN FALSE ELSE old.timer
      BY <2>2, <3>1, <3>2, <3>3 DEF Watchers
    <3> QED BY <2>3, <2>4, <3>1, <3>2, <3>4
  <2> HIDE DEF new
  <2>6. /\ watchers' \in Seq(Watchers) /\ Len(watchers') = Len(watchers)
        /\ DOMAIN watchers' = DOMAIN watchers
        /\ \A w \in DOMAIN watchers : watchers'[w] = IF w = current THEN new ELSE watchers[w]
    BY <2>1, <2>5, OneWatcherChanges DEF CoreType
  <2>7. \A w \in DOMAIN watchers' : Live(w)' <=> current' = w
    BY <2>1, <2>3, <2>5, <2>6 DEF Live, OneLiveWatcher
  <2> QED BY <1>0, <1>2, <2>1, <2>3, <2>5, <2>6, <2>7
<1> QED BY <1>3, <1>4

LEMMA UnwatchKeepsCore ==
    ASSUME Core, NEW id, id \in DOMAIN handles, Unwatch(id)
    PROVE  Core'
<1> USE DEF Core
<1>0. /\ Len(watchers) \in Nat /\ DOMAIN watchers = 1 .. Len(watchers)
      /\ Len(handles) \in Nat /\ DOMAIN handles = 1 .. Len(handles)
      /\ handles[id] \in Handles
  BY LenProperties, ElementOfSeq DEF CoreType
<1> DEFINE w == handles[id].watcher
           c == handles[id].client
           old == watchers[w]
           new == RemoveRef(old, c)
<1>1. w \in DOMAIN watchers /\ c \in Clients
  BY <1>0 DEF Handles
<1>2. CASE ~handles[id].live
  <2>1. UNCHANGED <<watchers, current, handles>>
    BY <1>2 DEF Unwatch
  <2> USE <2>1
  <2>2. CoreType'
    BY DEF CoreType, Handles
  <2>3. RefsMatchHandles'
    BY DEF RefsMatchHandles, Live, IdsOf
  <2>4. OneLiveWatcher' /\ RunningIsLive'
    BY DEF OneLiveWatcher, RunningIsLive, Live
  <2>5. DisposalIfUnused'
    BY DEF DisposalIfUnused, Live, Unused
  <2> QED BY <2>2, <2>3, <2>4, <2>5
<1>3. CASE handles[id].live
  <2>1. /\ handles' = [handles EXCEPT ![id].live = FALSE] /\ watchers' = [watchers EXCEPT ![w] = new]
        /\ current' = current
    BY <1>3 DEF Unwatch
  <2>2. old \in Watchers /\ old.refs \in [Clients -> Nat]
    BY <1>0, <1>1, ElementOfSeq, WatcherFields DEF CoreType
  <2>3. id \in IdsOf(w, c) /\ Cardinality(IdsOf(w, c)) \in Nat /\ IsFiniteSet(IdsOf(w, c))
    <3>1. id \in IdsOf(w, c)
      BY <1>0, <1>3 DEF IdsOf
    <3> QED BY <3>1, IdsAreFinite
  <2>4. Live(w) /\ old.refs[c] = Cardinality(IdsOf(w, c))
    BY <1>1, <2>3 DEF RefsMatchHandles
  <2>5. Cardinality(IdsOf(w, c) \ {id}) = Cardinality(IdsOf(w, c)) - 1
        /\ Cardinality(IdsOf(w, c) \ {id}) \in Nat
    BY <2>3, FS_RemoveElement, FS_CardinalityType
  <2>6. old.refs[c] > 0 /\ ~old.timer /\ ~old.disposed
    BY <1>1, <2>2, <2>3, <2>4, <2>5 DEF DisposalIfUnused, Unused, Live
  <2>7. /\ new \in Watchers /\ ~new.disposed
        /\ \A d \in Clients : new.refs[d] = old.refs[d] - (IF d = c THEN 1 ELSE 0)
        /\ new.timer <=> Unused(new)
    <3> DEFINE without == [old EXCEPT !.refs[c] = @ - 1]
    <3>1. without \in Watchers /\ ~without.disposed /\ ~without.timer
          /\ \A d \in Clients : without.refs[d] = old.refs[d] - (IF d = c THEN 1 ELSE 0)
      <4> DEFINE refs == [old.refs EXCEPT ![c] = @ - 1]
      <4>1. refs \in [Clients -> Nat] /\ \A d \in Clients : refs[d] = old.refs[d] - (IF d = c THEN 1 ELSE 0)
        BY <1>1, <2>2, <2>6
      <4> HIDE DEF refs
      <4>2. without = [old EXCEPT !.refs = refs]
        BY <2>2 DEF refs, Watchers
      <4>3. without \in Watchers /\ without.refs = refs /\ without.disposed = old.disposed
            /\ without.timer = old.timer
        BY <2>2, <4>1, <4>2 DEF Watchers
      <4> QED BY <2>6, <4>1, <4>3
    <3> HIDE DEF without
    <3>2. new = [without EXCEPT !.timer = IF Unused(without) THEN TRUE ELSE @]
      BY DEF RemoveRef, without
    <3>3. new \in Watchers /\ new.refs = without.refs /\ new.disposed = without.disposed
          /\ new.timer = IF Unused(without) THEN TRUE ELSE without.timer
      BY <3>1, <3>2 DEF Watchers
    <3> QED BY <3>1, <3>3 DEF Unused
  <2> HIDE DEF new
  <2>8. /\ watchers' \in Seq(Watchers) /\ Len(watchers') = Len(watchers)
        /\ DOMAIN watchers' = DOMAIN watchers
        /\ \A v \in DOMAIN watchers : watchers'[v] = IF v = w THEN new ELSE watchers[v]
    BY <1>1, <2>1, <2>7, OneWatcherChanges DEF CoreType
  <2>9. /\ handles' \in Seq(Handles) /\ DOMAIN handles' = DOMAIN handles
        /\ \A i \in DOMAIN handles : handles'[i] = IF i = id THEN [handles[id] EXCEPT !.live = FALSE] ELSE handles[i]
    <3>1. [handles[id] EXCEPT !.live = FALSE] \in Handles
      BY <1>0 DEF Handles
    <3>2. handles' = [handles EXCEPT ![id] = [handles[id] EXCEPT !.live = FALSE]]
      BY <2>1
    <3> QED BY <1>0, <3>1, <3>2, ExceptSeq, LenProperties DEF CoreType
  <2>10. CoreType'
    BY <2>1, <2>8, <2>9 DEF CoreType, Handles
  <2>11. \A v, d : IdsOf(v, d)' = IF v = w /\ d = c THEN IdsOf(v, d) \ {id} ELSE IdsOf(v, d)
    <3>1. \A i \in DOMAIN handles : /\ handles'[i].watcher = handles[i].watcher
                                    /\ handles'[i].client = handles[i].client
                                    /\ handles'[i].live <=> handles[i].live /\ i # id
      <4>1. \A i \in DOMAIN handles : handles[i] \in Handles
        BY <1>0, ElementOfSeq DEF CoreType
      <4> QED BY <2>9, <4>1 DEF Handles
    <3> SUFFICES ASSUME NEW v, NEW d
                 PROVE  \A i : i \in IdsOf(v, d)' <=>
                                   IF v = w /\ d = c THEN i \in IdsOf(v, d) /\ i # id ELSE i \in IdsOf(v, d)
      OBVIOUS
    <3>2. \A i : i \in IdsOf(v, d)' <=> i \in IdsOf(v, d) /\ i # id
      <4> SUFFICES ASSUME NEW i PROVE i \in IdsOf(v, d)' <=> i \in IdsOf(v, d) /\ i # id
        OBVIOUS
      <4>1. CASE i \in DOMAIN handles
        <5>1. i \in IdsOf(v, d)' <=> handles'[i].live /\ handles'[i].watcher = v /\ handles'[i].client = d
          BY <2>9, <4>1 DEF IdsOf
        <5>2. i \in IdsOf(v, d) <=> handles[i].live /\ handles[i].watcher = v /\ handles[i].client = d
          BY <4>1 DEF IdsOf
        <5>3. handles'[i].live <=> handles[i].live /\ i # id
          BY <3>1, <4>1
        <5>4. handles'[i].watcher = handles[i].watcher /\ handles'[i].client = handles[i].client
          BY <3>1, <4>1
        <5> QED BY <5>1, <5>2, <5>3, <5>4, Zenon
      <4>2. CASE i \notin DOMAIN handles
        BY <2>9, <4>2 DEF IdsOf
      <4> QED BY <4>1, <4>2
    <3>3. id \in IdsOf(v, d) => v = w /\ d = c
      BY DEF IdsOf
    <3> QED BY <3>2, <3>3
  <2>12. \A v \in DOMAIN watchers : Live(v)' <=> Live(v)
    BY <2>4, <2>7, <2>8 DEF Live
  <2>13. RefsMatchHandles'
    <3> SUFFICES ASSUME NEW v \in DOMAIN watchers, NEW d \in Clients
                 PROVE  IF Live(v)' THEN watchers'[v].refs[d] = Cardinality(IdsOf(v, d)')
                                    ELSE IdsOf(v, d)' = {}
      BY <2>8 DEF RefsMatchHandles
    <3>1. CASE v = w /\ d = c
      BY <1>1, <2>4, <2>5, <2>7, <2>8, <2>11, <2>12, <3>1
    <3>2. CASE v # w \/ d # c
      <4>1. IdsOf(v, d)' = IdsOf(v, d)
        BY <2>11, <3>2
      <4>2. watchers'[v].refs[d] = watchers[v].refs[d]
        <5>1. CASE v = w
          BY <1>1, <2>2, <2>7, <2>8, <3>2, <5>1
        <5>2. CASE v # w
          BY <2>8, <5>2
        <5> QED BY <5>1, <5>2
      <4> QED BY <2>12, <4>1, <4>2 DEF RefsMatchHandles
    <3> QED BY <3>1, <3>2
  <2>14. OneLiveWatcher'
    BY <2>1, <2>8, <2>12 DEF OneLiveWatcher
  <2>15. DisposalIfUnused'
    BY <2>7, <2>8, <2>12 DEF DisposalIfUnused
  <2>16. RunningIsLive'
    BY <2>4, <2>8, <2>12 DEF RunningIsLive
  <2> QED BY <2>10, <2>13, <2>14, <2>15, <2>16
<1> QED BY <1>2, <1>3

-----------------------------------------------------------------------------
(* Every step of the service keeps the invariant. *)

LEMMA SendKeepsType ==
    ASSUME RestType, NEW msg \in Messages, Send(msg)
    PROVE  toBackend' \in Seq(Messages)
BY AppendProperties DEF RestType, Send

\* What a failing watcher leaves behind, but for its own disposal.
LEMMA FailKeepsInv ==
    ASSUME ServiceInv, NEW w, w \in DOMAIN watchers, NEW x \in Watchers, x.refs = watchers[w].refs, Fail(w, x)
    PROVE  ServiceInv'
<1>1. Core'
  BY DisposedStep DEF ServiceInv, Fail
<1>2. [type |-> "error", clients |-> ClientIds(watchers[w]), watcher |-> w] \in Messages
  <2>1. w \in Nat
    BY LenProperties DEF ServiceInv, Core, CoreType
  <2> QED BY <2>1 DEF Messages, ClientIds
<1>3. toBackend' \in Seq(Messages)
  BY <1>2, SendKeepsType DEF Fail, FireError, ServiceInv
<1>4. RestType'
  BY <1>3 DEF Fail, ServiceInv, RestType
<1> QED BY <1>1, <1>4 DEF ServiceInv

LEMMA WatcherKeepsInv ==
    ASSUME ServiceInv, NEW w, w \in DOMAIN watchers, WatcherNext(w)
    PROVE  ServiceInv'
<1> DEFINE old == watchers[w]
<1>1. Core /\ RestType /\ old \in Watchers /\ w \in Nat
  BY LenProperties, ElementOfSeq DEF ServiceInv, Core, CoreType
<1>2. old.native = "running" => ~old.disposed
  BY <1>1 DEF Core, RunningIsLive, Live
<1>3. ASSUME NEW x \in Watchers, x.refs = old.refs, x.disposed = old.disposed,
             ~x.disposed => x.timer = old.timer, x.native = "running" => ~x.disposed,
             watchers' = [watchers EXCEPT ![w] = x], UNCHANGED <<current, handles>>
      PROVE  Core'
  BY <1>1, <1>3, QuietStep
<1>4. ASSUME UNCHANGED <<events, failures, toBackend>>
      PROVE  RestType'
  BY <1>1, <1>4 DEF RestType
<1>5. CASE DisposalTimer(w)
  <2> DEFINE x == [old EXCEPT !.timer = FALSE]
  <2>1. x \in Watchers /\ x.refs = old.refs /\ x.disposed = old.disposed /\ x.native = old.native
    BY <1>1 DEF Watchers
  <2> HIDE DEF x
  <2>2. Core'
    <3>1. CASE old.disposed
      <4>1. watchers' = [watchers EXCEPT ![w] = x] /\ UNCHANGED <<current, handles>>
        BY <1>5, <2>1, <3>1 DEF DisposalTimer, x
      <4> QED BY <1>2, <1>3, <2>1, <3>1, <4>1
    <3>2. CASE ~old.disposed
      <4>1. watchers' = [watchers EXCEPT ![w] = Disposed(x)] /\ Forget(w)
        BY <1>5, <2>1, <3>2 DEF DisposalTimer, x
      <4> QED BY <1>1, <2>1, <4>1, DisposedStep
    <3> QED BY <3>1, <3>2
  <2> QED BY <1>4, <1>5, <2>2 DEF DisposalTimer, ServiceInv
<1>6. CASE Create(w)
  <2>1. CASE Fail(w, watchers[w])
    BY <1>1, <2>1, FailKeepsInv
  <2>2. CASE /\ watchers' = [watchers EXCEPT ![w].start = "starting", ![w].native = "starting"]
             /\ UNCHANGED <<current, handles, events, failures, toBackend>>
    <3> DEFINE x == [old EXCEPT !.start = "starting", !.native = "starting"]
    <3>1. x \in Watchers /\ x.refs = old.refs /\ x.disposed = old.disposed /\ x.timer = old.timer
          /\ x.native = "starting"
      BY <1>1 DEF Watchers
    <3>2. watchers' = [watchers EXCEPT ![w] = x]
      BY <2>2
    <3> HIDE DEF x
    <3> QED BY <1>3, <1>4, <2>2, <3>1, <3>2 DEF ServiceInv
  <2> QED BY <1>6, <2>1, <2>2 DEF Create
<1>7. CASE Started(w)
  <2> DEFINE x == [old EXCEPT !.start = "done", !.native = IF old.disposed THEN "stopping" ELSE "running"]
  <2>1. x \in Watchers /\ x.refs = old.refs /\ x.disposed = old.disposed /\ x.timer = old.timer
        /\ (x.native = "running" => ~old.disposed)
    BY <1>1 DEF Watchers
  <2>2. watchers' = [watchers EXCEPT ![w] = x] /\ UNCHANGED <<current, handles, events, failures, toBackend>>
    BY <1>7 DEF Started
  <2> HIDE DEF x
  <2> QED BY <1>3, <1>4, <2>1, <2>2 DEF ServiceInv
<1>8. CASE StartFails(w)
  <2> DEFINE x == [old EXCEPT !.native = "stopped"]
  <2>1. x \in Watchers /\ x.refs = old.refs /\ x.disposed = old.disposed /\ x.timer = old.timer
        /\ x.native = "stopped"
    BY <1>1 DEF Watchers
  <2> HIDE DEF x
  <2>2. CASE old.disposed
    <3>1. watchers' = [watchers EXCEPT ![w] = x] /\ UNCHANGED <<current, handles, events, failures, toBackend>>
      BY <1>8, <2>1, <2>2 DEF StartFails, x
    <3> QED BY <1>3, <1>4, <2>1, <3>1 DEF ServiceInv
  <2>3. CASE ~old.disposed
    <3>1. Fail(w, x)
      BY <1>8, <2>1, <2>3 DEF StartFails, x
    <3> QED BY <1>1, <2>1, <3>1, FailKeepsInv
  <2> QED BY <2>2, <2>3
<1>9. CASE Crash(w)
  BY <1>1, <1>9, FailKeepsInv DEF Crash
<1>10. CASE Stopped(w)
  <2> DEFINE x == [old EXCEPT !.native = "stopped"]
  <2>1. x \in Watchers /\ x.refs = old.refs /\ x.disposed = old.disposed /\ x.timer = old.timer
        /\ x.native = "stopped"
    BY <1>1 DEF Watchers
  <2>2. watchers' = [watchers EXCEPT ![w] = x] /\ UNCHANGED <<current, handles, events, failures, toBackend>>
    BY <1>10 DEF Stopped
  <2> HIDE DEF x
  <2> QED BY <1>3, <1>4, <2>1, <2>2 DEF ServiceInv
<1>11. CASE Event(w)
  <2> DEFINE n == Len(events) + 1
             x == [old EXCEPT !.queue = Append(old.queue, n)]
             ev == [watcher |-> w, ids |-> {id \in DOMAIN handles : handles[id].live /\ handles[id].watcher = w}]
  <2>1. n \in Nat
    BY <1>1, LenProperties DEF RestType
  <2>2. Append(old.queue, n) \in Seq(Nat)
    BY <1>1, <2>1, AppendProperties, WatcherFields
  <2>3. x \in Watchers /\ x.refs = old.refs /\ x.disposed = old.disposed /\ x.timer = old.timer
        /\ x.native = old.native
    BY <1>1, <2>2 DEF Watchers
  <2>4. watchers' = [watchers EXCEPT ![w] = x] /\ UNCHANGED <<current, handles, failures, toBackend>>
        /\ events' = Append(events, ev)
    BY <1>11 DEF Event
  <2>5. ev \in [watcher : Nat, ids : SUBSET Nat]
    <3>1. DOMAIN handles \subseteq Nat
      BY <1>1, LenProperties DEF Core, CoreType
    <3> QED BY <1>1, <3>1
  <2> HIDE DEF x, ev
  <2>6. events' \in Seq([watcher : Nat, ids : SUBSET Nat])
    <3> DEFINE E == [watcher : Nat, ids : SUBSET Nat]
    <3>1. events \in Seq(E) /\ ev \in E
      BY <1>1, <2>5 DEF RestType
    <3> HIDE DEF E
    <3>2. Append(events, ev) \in Seq(E)
      BY <3>1, AppendProperties
    <3> QED BY <2>4, <3>2 DEF E
  <2>7. Core'
    BY <1>2, <1>3, <2>3, <2>4
  <2>8. RestType'
    BY <1>1, <2>4, <2>6 DEF RestType
  <2> QED BY <2>7, <2>8 DEF ServiceInv
<1>12. CASE ProcessEvent(w)
  <2> DEFINE n == Head(old.queue)
             x == [old EXCEPT !.queue = Tail(old.queue)]
             msg == [type |-> "changed", clients |-> ClientIds(old), event |-> n]
  <2>1. old.queue \in Seq(Nat) /\ old.queue # <<>>
    BY <1>1, <1>12, WatcherFields DEF ProcessEvent
  <2>2. n \in Nat /\ Tail(old.queue) \in Seq(Nat)
    BY <2>1, HeadTailProperties
  <2>3. x \in Watchers /\ x.refs = old.refs /\ x.disposed = old.disposed /\ x.timer = old.timer
        /\ x.native = old.native
    BY <1>1, <2>2 DEF Watchers
  <2>4. watchers' = [watchers EXCEPT ![w] = x] /\ UNCHANGED <<current, handles, failures, events>> /\ Send(msg)
    BY <1>12 DEF ProcessEvent
  <2>5. msg \in Messages
    BY <2>2 DEF Messages, ClientIds
  <2> HIDE DEF x, msg
  <2>6. toBackend' \in Seq(Messages)
    BY <1>1, <2>4, <2>5, SendKeepsType
  <2>7. Core'
    BY <1>2, <1>3, <2>3, <2>4
  <2>8. RestType'
    BY <1>1, <2>4, <2>6 DEF RestType
  <2> QED BY <2>7, <2>8 DEF ServiceInv
<1> QED BY <1>5, <1>6, <1>7, <1>8, <1>9, <1>10, <1>11, <1>12 DEF WatcherNext, WatcherStep

LEMMA RequestKeepsInv ==
    ASSUME ServiceInv
    PROVE  /\ \A c \in Clients, call \in Calls : Watch(c, call) => ServiceInv'
           /\ \A id \in DOMAIN handles : Unwatch(id) => ServiceInv'
<1>1. ASSUME NEW c \in Clients, NEW call \in Calls, Watch(c, call)
      PROVE  ServiceInv'
  <2> DEFINE msg == [type |-> "watched", call |-> call, id |-> Len(handles) + 1]
  <2>1. Core'
    BY <1>1, WatchKeepsCore DEF ServiceInv
  <2>2. msg \in Messages
    <3>1. Len(handles) \in Nat
      BY LenProperties DEF ServiceInv, Core, CoreType
    <3> QED BY <3>1 DEF Messages
  <2> HIDE DEF msg
  <2>3. Send(msg) /\ UNCHANGED <<events, failures>>
    BY <1>1 DEF Watch, msg
  <2>4. RestType'
    BY <2>2, <2>3, SendKeepsType DEF ServiceInv, RestType
  <2> QED BY <2>1, <2>4 DEF ServiceInv
<1>2. ASSUME NEW id, id \in DOMAIN handles, Unwatch(id)
      PROVE  ServiceInv'
  <2>1. Core'
    BY <1>2, UnwatchKeepsCore DEF ServiceInv
  <2>2. RestType'
    BY <1>2 DEF Unwatch, ServiceInv, RestType
  <2> QED BY <2>1, <2>2 DEF ServiceInv
<1> QED BY <1>1, <1>2

LEMMA QuietKeepsInv ==
    ASSUME ServiceInv, UNCHANGED <<watchers, current, handles, events, failures>>, toBackend' \in Seq(Messages)
    PROVE  ServiceInv'
<1>1. CoreType' /\ RestType'
  BY DEF ServiceInv, Core, CoreType, Handles, RestType
<1>2. RefsMatchHandles'
  BY DEF ServiceInv, Core, RefsMatchHandles, Live, IdsOf
<1>3. OneLiveWatcher' /\ RunningIsLive'
  BY DEF ServiceInv, Core, OneLiveWatcher, RunningIsLive, Live
<1>4. DisposalIfUnused'
  BY DEF ServiceInv, Core, DisposalIfUnused, Live, Unused
<1> QED BY <1>1, <1>2, <1>3, <1>4 DEF ServiceInv, Core

LEMMA ServiceInitInv == ServiceInit => ServiceInv
<1> SUFFICES ASSUME ServiceInit PROVE ServiceInv
  OBVIOUS
<1> USE DEF ServiceInit
<1>1. watchers = <<>> /\ DOMAIN watchers = {} /\ Len(watchers) = 0
  OBVIOUS
<1>2. CoreType /\ RestType
  BY <1>1 DEF CoreType, RestType
<1>3. RefsMatchHandles /\ OneLiveWatcher /\ DisposalIfUnused /\ RunningIsLive
  BY <1>1 DEF RefsMatchHandles, OneLiveWatcher, DisposalIfUnused, RunningIsLive
<1> QED BY <1>2, <1>3 DEF ServiceInv, Core

LEMMA ServiceNextInv == ServiceInv /\ [ServiceNext]_service => ServiceInv'
<1> SUFFICES ASSUME ServiceInv, [ServiceNext]_service PROVE ServiceInv'
  OBVIOUS
<1>1. CASE UNCHANGED service
  BY <1>1, QuietKeepsInv DEF service, ServiceInv, RestType
<1>2. CASE Taken /\ UNCHANGED <<watchers, current, handles, events, failures>>
  <2>1. toBackend' \in Seq(Messages)
    BY <1>2, HeadTailProperties DEF Taken, ServiceInv, RestType
  <2> QED BY <1>2, <2>1, QuietKeepsInv
<1>3. CASE \E c \in Clients, call \in Calls : Watch(c, call)
  BY <1>3, RequestKeepsInv
<1>4. CASE \E id \in DOMAIN handles : Unwatch(id)
  BY <1>4, RequestKeepsInv
<1>5. CASE \E w \in DOMAIN watchers : WatcherNext(w)
  BY <1>5, WatcherKeepsInv
<1> QED BY <1>1, <1>2, <1>3, <1>4, <1>5 DEF ServiceNext

-----------------------------------------------------------------------------
THEOREM ServiceInvariant == ServiceSpec => []ServiceInv
<1>1. ServiceInit => ServiceInv
  BY ServiceInitInv
<1>2. ServiceInv /\ [ServiceNext]_service => ServiceInv'
  BY ServiceNextInv
<1> QED BY <1>1, <1>2, PTL DEF ServiceSpec

\* The service's variables keep their types: in particular no reference is ever
\* taken back that was not given.
THEOREM ServiceTypeCorrect == ServiceSpec => []ServiceTypeOK
<1>1. ServiceInv => ServiceTypeOK
  BY ServiceTypeIsSplit DEF ServiceInv, Core
<1> QED BY <1>1, ServiceInvariant, PTL

\* addRef and removeRef count exactly the ids in watcherHandles.
THEOREM ReferencesCounted == ServiceSpec => []RefsMatchHandles
<1>1. ServiceInv => RefsMatchHandles
  BY DEF ServiceInv, Core
<1> QED BY <1>1, ServiceInvariant, PTL

\* The map of watchers never holds a disposed one and never misses a live one.
THEOREM OneWatcherPerPath == ServiceSpec => []OneLiveWatcher
<1>1. ServiceInv => OneLiveWatcher
  BY DEF ServiceInv, Core
<1> QED BY <1>1, ServiceInvariant, PTL

\* The timer of the deferred disposal runs exactly while there are no references.
THEOREM DisposalScheduled == ServiceSpec => []DisposalIfUnused
<1>1. ServiceInv => DisposalIfUnused
  BY DEF ServiceInv, Core
<1> QED BY <1>1, ServiceInvariant, PTL

\* A watcher that is disposed while it starts does not leave a native one running.
THEOREM NoStrayNativeWatcher == ServiceSpec => []RunningIsLive
<1>1. ServiceInv => RunningIsLive
  BY DEF ServiceInv, Core
<1> QED BY <1>1, ServiceInvariant, PTL
=============================================================================
