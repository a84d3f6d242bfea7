----------------------------- MODULE PluginManager -----------------------------
(***************************************************************************)
(* The manager of the plug-ins in a plug-in host: it registers the plug-ins *)
(* it is told to start, loads each when one of its activation events comes, *)
(* after the plug-ins it depends on, and stops those it is told to stop.    *)
(*                                                                         *)
(* Source: packages/plugin-ext/src/plugin/plugin-manager.ts, with the init  *)
(* of packages/plugin-ext/src/hosted/node/plugin-host-rpc.ts                *)
(*                                                                         *)
(* The promise of an activation in progress is a record of `loads', named   *)
(* by its position.  A step is the code between two awaits; what goes on as *)
(* soon as another promise is settled comes before the next message, timer  *)
(* or answer (Quiet).                                                       *)
(***************************************************************************)
EXTENDS Integers, FiniteSets, Sequences, SequencesExt

CONSTANTS
    Plugins,
    Events,         \* activation events the main side raises
    Eager,          \* the event '*', raised by $start itself
    StartupFinished,\* the event whose activations the main side awaits
    DependsOn,      \* plug-in -> sequence of the plug-ins it depends on
    Subscribed,     \* plug-in -> its activation events
    MaxFailures     \* bound: activations, manifests, requests and hosts that fail on their own

ASSUME PluginAssumption ==
    /\ IsFiniteSet(Plugins)
    /\ Eager \notin Events
    /\ StartupFinished \in Events
    /\ DependsOn \in [Plugins -> Seq(Plugins)]
    /\ Subscribed \in [Plugins -> SUBSET (Events \cup {Eager})]
    /\ MaxFailures \in Nat

VARIABLES
    inbox,          \* calls of the main side under way, oldest first
    reply,          \* the call whose answer, or rejection, is under way
    registry,       \* registered plug-ins
    activations,    \* event -> plug-ins that still wait for it
    loads,          \* the activations begun so far
    loadedPlugins,  \* plug-in -> its entry in loads, 0 without one
    activatedPlugins,   \* plug-in -> the activation that started it, or 0
    task,           \* the call of $start, or for StartupFinished, being handled
    failures,       \* number of failures so far
    hasty,          \* history: plug-ins stopped during their activation
    overlooked,     \* history: events that came while manifests were read
    unreadable      \* history: plug-ins whose manifest the host could not read

hostVars == <<registry, activations, loads, loadedPlugins, activatedPlugins, task,
              hasty, overlooked, unreadable>>
managerVars == <<inbox, reply, failures, hostVars>>

Idle == [kind |-> "none", plugins |-> {}, events |-> <<>>, on |-> {}]

\* A promise that is rejected, not only resolved to false, rejects who awaits it at once.
Done(l) == loads[l].pc \in {"started", "stopped", "failed", "rejected"}
AllDone(ls) == \A l \in ls : Done(l)
Rejected(ls) == \E l \in ls : loads[l].pc = "rejected"

\* A promise callback is due.
Due(l) == loads[l].pc = "dependencies" /\ (loads[l].on = 0 \/ Done(loads[l].on))
TaskDue == task.kind \in {"events", "event"} /\ (AllDone(task.on) \/ Rejected(task.on))
Quiet == ~TaskDue /\ \A l \in 1 .. Len(loads) : ~Due(l)

-----------------------------------------------------------------------------
(* loadPlugin *)

\* A new activation of `p'.  Those called from one activation share the set of the
\* plug-ins visited, which the first of them (`root') keeps.
NewLoad(p, root) ==
    [plugin |-> p, pc |-> "progress", dep |-> 0, on |-> 0, root |-> root, visited |-> {p}]

\* Faulty: a plug-in whose activation is in progress is not loaded yet.
NotActivated(ps) == {p \in ps : activatedPlugins[p] = 0}

\* loadPlugin begins an activation for those without a promise.
NotLoaded(ps) == {p \in ps : loadedPlugins[p] = 0}

\* activateBySingleEvent(e), from the maps `acts' and `reg': the plug-ins that waited
\* are loaded, and `on' are the activations to wait for.
Activate(e, acts, reg) ==
    LET called == acts[e] \cap reg
        new    == SetToSeq(NotLoaded(called))
        all    == loads \o [i \in 1 .. Len(new) |-> NewLoad(new[i], Len(loads) + i)]
        entry  == [p \in Plugins |->
                      IF \E i \in 1 .. Len(new) : new[i] = p
                      THEN Len(loads) + (CHOOSE i \in 1 .. Len(new) : new[i] = p)
                      ELSE loadedPlugins[p]]
    IN  [activations |-> [acts EXCEPT ![e] = {}], loads |-> all, loadedPlugins |-> entry,
         on |-> {entry[p] : p \in called}]

\* $startProgress has answered.
ProgressShown(l) ==
    /\ Quiet
    /\ loads[l].pc = "progress"
    /\ loads' = [loads EXCEPT ![l].pc = "dependencies"]
    /\ UNCHANGED <<inbox, reply, registry, activations, loadedPlugins, activatedPlugins,
                   task, failures, hasty, overlooked, unreadable>>

\* $startProgress is rejected, which is not caught: the promise of the activation is.
ProgressFails(l) ==
    /\ Quiet
    /\ loads[l].pc = "progress"
    /\ failures < MaxFailures
    /\ failures' = failures + 1
    /\ loads' = [loads EXCEPT ![l].pc = "rejected"]
    /\ UNCHANGED <<inbox, reply, registry, activations, loadedPlugins, activatedPlugins,
                   task, hasty, overlooked, unreadable>>

\* Faulty: what is being loaded already is not waited for.
VisitedOrLoading(l, q) == q \in loads[loads[l].root].visited \/ loadedPlugins[q] # 0

\* In order to break cycles.
Visited(l, q) == q \in loads[loads[l].root].visited

\* The next dependency: not installed, visited already (a cycle), or loaded first.
NextDependency(l) ==
    LET q       == DependsOn[loads[l].plugin][loads[l].dep + 1]
        root    == loads[l].root
        entry   == IF loadedPlugins[q] # 0 THEN loadedPlugins[q] ELSE Len(loads) + 1
        waiting == [loads EXCEPT ![root].visited = @ \cup {q}, ![l].on = entry]
    IN  /\ loads[l].pc = "dependencies"
        /\ loads[l].on = 0
        /\ loads[l].dep < Len(DependsOn[loads[l].plugin])
        /\ \/ /\ q \notin registry
              /\ loads' = [loads EXCEPT ![l].pc = "failed"]
              /\ UNCHANGED loadedPlugins
           \/ /\ q \in registry /\ Visited(l, q)
              /\ loads' = [loads EXCEPT ![l].dep = @ + 1]
              /\ UNCHANGED loadedPlugins
           \/ /\ q \in registry /\ ~Visited(l, q)
              /\ loads' = IF loadedPlugins[q] # 0 THEN waiting
                          ELSE Append(waiting, NewLoad(q, root))
              /\ loadedPlugins' = [loadedPlugins EXCEPT ![q] = entry]
        /\ UNCHANGED <<inbox, reply, registry, activations, activatedPlugins,
                       task, failures, hasty, overlooked, unreadable>>

\* The awaited dependency is loaded, or has failed.
DependencyLoaded(l) ==
    LET on == loads[l].on
    IN  /\ loads[l].pc = "dependencies"
        /\ on # 0
        /\ Done(on)
        /\ loads' = IF loads[on].pc \in {"failed", "rejected"}
                    THEN [loads EXCEPT ![l].pc = "failed"]
                    ELSE [loads EXCEPT ![l].dep = @ + 1, ![l].on = 0]
        /\ UNCHANGED <<inbox, reply, registry, activations, loadedPlugins, activatedPlugins,
                       task, failures, hasty, overlooked, unreadable>>

\* startPlugin: the start method of the plug-in is called.
CallStart(l) ==
    /\ loads[l].pc = "dependencies"
    /\ loads[l].on = 0
    /\ loads[l].dep = Len(DependsOn[loads[l].plugin])
    /\ loads' = [loads EXCEPT ![l].pc = "starting"]
    /\ UNCHANGED <<inbox, reply, registry, activations, loadedPlugins, activatedPlugins,
                   task, failures, hasty, overlooked, unreadable>>

\* The start method returns.
StartReturns(l) ==
    /\ Quiet
    /\ loads[l].pc = "starting"
    /\ loads' = [loads EXCEPT ![l].pc = "started"]
    /\ activatedPlugins' = [activatedPlugins EXCEPT ![loads[l].plugin] = l]
    /\ UNCHANGED <<inbox, reply, registry, activations, loadedPlugins, task, failures,
                   hasty, overlooked, unreadable>>

\* The start method, or loading the module, throws.
StartThrows(l) ==
    /\ Quiet
    /\ loads[l].pc = "starting"
    /\ failures < MaxFailures
    /\ failures' = failures + 1
    /\ loads' = [loads EXCEPT ![l].pc = "failed"]
    /\ UNCHANGED <<inbox, reply, registry, activations, loadedPlugins, activatedPlugins,
                   task, hasty, overlooked, unreadable>>

-----------------------------------------------------------------------------
(* Calls of the main side *)

\* $init: what it sets up is not modelled.
HandleInit ==
    /\ Quiet
    /\ inbox # <<>> /\ Head(inbox).call = "init"
    /\ inbox' = Tail(inbox)
    /\ reply' = "init"
    /\ UNCHANGED <<registry, activations, loads, loadedPlugins, activatedPlugins, task,
                   failures, hasty, overlooked, unreadable>>

\* $start(plugins, events), up to reading the manifests.
HandleStart ==
    /\ Quiet
    /\ inbox # <<>> /\ Head(inbox).call = "start"
    /\ inbox' = Tail(inbox)
    /\ task' = [kind |-> "manifests", plugins |-> Head(inbox).plugins,
                events |-> Head(inbox).events, on |-> {}]
    /\ UNCHANGED <<reply, registry, activations, loads, loadedPlugins, activatedPlugins,
                   failures, hasty, overlooked, unreadable>>

\* The activations with those of `ps', each registered for the events it names.
Waiting(ps) ==
    [e \in Events \cup {Eager} |-> activations[e] \cup {p \in ps : e \in Subscribed[p]}]

\* registerPlugin for each, and $activateByEvent('*').  A manifest that cannot be read is
\* logged, and its plug-in left out.
ManifestsRead ==
    \E read \in SUBSET task.plugins :
        LET eager == Activate(Eager, Waiting(read), registry \cup read)
        IN  /\ Quiet
            /\ task.kind = "manifests"
            /\ failures' = failures + Cardinality(task.plugins \ read)
            /\ failures' <= MaxFailures
            /\ registry' = registry \cup read
            /\ unreadable' = (unreadable \cup task.plugins) \ read
            /\ activations' = eager.activations
            /\ loads' = eager.loads
            /\ loadedPlugins' = eager.loadedPlugins
            /\ task' = [task EXCEPT !.kind = "events", !.on = eager.on]
            /\ UNCHANGED <<inbox, reply, activatedPlugins, hasty, overlooked>>

\* $start goes on with the next of the events raised before it, and answers at last.
NextEvent ==
    /\ task.kind = "events"
    /\ AllDone(task.on) /\ ~Rejected(task.on)
    /\ IF task.events = <<>>
       THEN /\ task' = Idle
            /\ reply' = "start"
            /\ UNCHANGED <<activations, loads, loadedPlugins, overlooked>>
       ELSE LET e    == Head(task.events)
                next == Activate(e, activations, registry)
            IN  /\ activations' = next.activations
                /\ loads' = next.loads
                /\ loadedPlugins' = next.loadedPlugins
                /\ task' = [task EXCEPT !.events = Tail(@), !.on = next.on]
                /\ overlooked' = overlooked \ {e}
                /\ UNCHANGED reply
    /\ UNCHANGED <<inbox, registry, activatedPlugins, failures, hasty, unreadable>>

\* An activation that $start awaits is rejected, and $start with it.
RejectStart ==
    /\ task.kind = "events"
    /\ Rejected(task.on)
    /\ task' = Idle
    /\ reply' = "startRejected"
    /\ UNCHANGED <<inbox, registry, activations, loads, loadedPlugins, activatedPlugins,
                   failures, hasty, overlooked, unreadable>>

\* $activateByEvent(e).  The main side awaits the answer for StartupFinished only.
HandleEvent ==
    LET e    == Head(inbox).event
        next == Activate(e, activations, registry)
    IN  /\ Quiet
        /\ inbox # <<>> /\ Head(inbox).call = "event"
        /\ inbox' = Tail(inbox)
        /\ activations' = next.activations
        /\ loads' = next.loads
        /\ loadedPlugins' = next.loadedPlugins
        /\ task' = IF e = StartupFinished
                   THEN [kind |-> "event", plugins |-> {}, events |-> <<>>, on |-> next.on]
                   ELSE task
        /\ overlooked' = IF task.kind = "manifests" THEN overlooked \cup {e} ELSE overlooked
        /\ UNCHANGED <<reply, registry, activatedPlugins, failures, hasty, unreadable>>

EventDone ==
    /\ task.kind = "event"
    /\ TaskDue
    /\ task' = Idle
    /\ reply' = IF Rejected(task.on) THEN "eventRejected" ELSE "event"
    /\ UNCHANGED <<inbox, registry, activations, loads, loadedPlugins, activatedPlugins,
                   failures, hasty, overlooked, unreadable>>

\* $stop(p): an activation in progress is forgotten, not ended.
HandleStop ==
    LET p == Head(inbox).plugin
        l == activatedPlugins[p]
    IN  /\ Quiet
        /\ inbox # <<>> /\ Head(inbox).call = "stop"
        /\ inbox' = Tail(inbox)
        /\ registry' = registry \ {p}
        /\ loadedPlugins' = [loadedPlugins EXCEPT ![p] = 0]
        /\ activatedPlugins' = [activatedPlugins EXCEPT ![p] = 0]
        /\ loads' = IF l = 0 THEN loads ELSE [loads EXCEPT ![l].pc = "stopped"]
        /\ hasty' = IF loadedPlugins[p] # 0 /\ ~Done(loadedPlugins[p]) THEN hasty \cup {p} ELSE hasty
        /\ UNCHANGED <<reply, activations, task, failures, overlooked, unreadable>>

-----------------------------------------------------------------------------
\* A process that has just been forked.
Fresh ==
    /\ inbox = <<>>
    /\ reply = "none"
    /\ registry = {}
    /\ activations = [e \in Events \cup {Eager} |-> {}]
    /\ loads = <<>>
    /\ loadedPlugins = [p \in Plugins |-> 0]
    /\ activatedPlugins = [p \in Plugins |-> 0]
    /\ task = Idle
    /\ hasty = {}
    /\ overlooked = {}
    /\ unreadable = {}

\* The process is gone, with all it knew and was told.
Ended ==
    /\ inbox' = <<>>
    /\ registry' = {}
    /\ activations' = [e \in Events \cup {Eager} |-> {}]
    /\ loads' = <<>>
    /\ loadedPlugins' = [p \in Plugins |-> 0]
    /\ activatedPlugins' = [p \in Plugins |-> 0]
    /\ task' = Idle
    /\ hasty' = {}
    /\ overlooked' = {}
    /\ unreadable' = {}

\* Another process takes the place of this one.
Replaced == Ended /\ reply' = "none"

ManagerStep ==
    \/ \E l \in 1 .. Len(loads) :
          \/ ProgressShown(l) \/ ProgressFails(l) \/ NextDependency(l) \/ DependencyLoaded(l)
          \/ CallStart(l) \/ StartReturns(l) \/ StartThrows(l)
    \/ HandleInit \/ HandleStart \/ ManifestsRead \/ NextEvent \/ RejectStart
    \/ HandleEvent \/ EventDone \/ HandleStop

-----------------------------------------------------------------------------
Calls == [call : {"init"}] \cup [call : {"start"}, plugins : SUBSET Plugins, events : Seq(Events)]
         \cup [call : {"event"}, event : Events] \cup [call : {"stop"}, plugin : Plugins]
Activations ==
    [plugin : Plugins,
     pc : {"progress", "dependencies", "starting", "started", "stopped", "failed", "rejected"},
     dep : Nat, on : Nat, root : Nat \ {0}, visited : SUBSET Plugins]
Tasks ==
    [kind : {"none", "manifests", "events", "event"}, plugins : SUBSET Plugins,
     events : Seq(Events), on : SUBSET Nat]

\* Every variable has its type; what is referred to by position has begun.
ManagerTypeOK ==
    /\ inbox \in Seq(Calls)
    /\ reply \in {"none", "init", "start", "startRejected", "event", "eventRejected"}
    /\ registry \subseteq Plugins
    /\ activations \in [Events \cup {Eager} -> SUBSET Plugins]
    /\ loads \in Seq(Activations)
    /\ \A l \in DOMAIN loads : loads[l].root <= l /\ loads[l].on <= Len(loads)
    /\ loadedPlugins \in [Plugins -> 0 .. Len(loads)]
    /\ activatedPlugins \in [Plugins -> 0 .. Len(loads)]
    /\ task \in Tasks /\ task.on \subseteq DOMAIN loads
    /\ failures \in Nat
    /\ hasty \subseteq Plugins /\ overlooked \subseteq Events /\ unreadable \subseteq Plugins
=============================================================================
