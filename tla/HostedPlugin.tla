----------------------------- MODULE HostedPlugin -----------------------------
(***************************************************************************)
(* The plug-ins of a front end: it keeps what it has loaded in step with    *)
(* what is deployed in the back end, starts it in the plug-in host of the   *)
(* current connection, and passes on activation events.  PluginManager is   *)
(* the host; a new one is forked for each connection.                       *)
(*                                                                         *)
(* Source: packages/plugin-ext/src/hosted/browser/hosted-plugin.ts and      *)
(* packages/plugin-ext/src/hosted/node/{plugin-service,hosted-plugin,       *)
(* hosted-plugin-process}.ts                                                *)
(*                                                                         *)
(* Plug-ins of one host ('main') are modelled.  A lost connection rejects   *)
(* the requests that wait for an answer; a request made without connection  *)
(* waits for the next one (proxy-factory.ts).                               *)
(***************************************************************************)
EXTENDS PluginManager

CONSTANTS
    FirstDeployed,  \* plug-ins of the first deployment, which the back end waits for
    Changing,       \* bound: plug-ins that are deployed or undeployed after it
    MaxConnections, \* bound: times the connection is made again
    MaxDeploys      \* bound: changes of the set of deployed plug-ins

ASSUME DeployAssumption ==
    FirstDeployed \cup Changing \subseteq Plugins /\ MaxConnections \in Nat /\ MaxDeploys \in Nat

VARIABLES
    up,             \* the front end is connected
    connections,    \* number of connections made again
    running,        \* the back end has forked the plug-in host of this connection
    crashed,        \* and that has ended by itself
    deployed,       \* plug-ins deployed in the back end
    deploys,        \* number of changes to it
    notices,        \* onDidDeploy notifications under way
    contributions,  \* plug-in -> state of its PluginContributions
    resets,         \* plug-ins whose state a disconnection resets
    activationEvents,   \* events raised so far, in order
    manager,        \* this.managers has a manager for the host
    stranded,       \* history: plug-ins that a load gave up when something failed
    forgotten,      \* history: plug-ins unloaded without a $stop, which the host may have
    debounced,      \* timer of the debounced load(): idle, armed, or armed and called again
    loadQueue,      \* loads waiting for their turn
    load            \* the load in progress

history == <<stranded, forgotten>>
frontVars == <<contributions, resets, activationEvents, manager, history, debounced, loadQueue, load>>
backVars == <<up, connections, running, crashed, deployed, deploys, notices>>
vars == <<managerVars, frontVars, backVars>>

NoLoad == [pc |-> "none", connected |-> TRUE, plugins |-> {}]

\* pc is what the load waits for.
Await(pc) == [load EXCEPT !.pc = pc]

Known == {p \in Plugins : contributions[p] # "absent"}

\* What is deployed should be started in the end, and nothing else.
Unsettled ==
    {p \in Plugins : contributions[p] # (IF p \in deployed THEN "started" ELSE "absent")}

\* Messages to the host; without a process they are lost.
Post(calls) == inbox' = IF running /\ ~crashed THEN inbox \o calls ELSE inbox

\* Faulty: calls while the timer runs are dropped.
LoadAtOnce ==
    /\ loadQueue' = IF debounced = "idle" THEN loadQueue + 1 ELSE loadQueue
    /\ debounced' = "armed"

\* load(), debounced: the first call takes effect at once, later ones when the timer ends.
Load ==
    /\ loadQueue' = IF debounced = "idle" THEN loadQueue + 1 ELSE loadQueue
    /\ debounced' = IF debounced = "idle" THEN "armed" ELSE "again"

-----------------------------------------------------------------------------
DebounceTimer ==
    /\ debounced # "idle"
    /\ debounced' = "idle"
    /\ loadQueue' = IF debounced = "again" THEN loadQueue + 1 ELSE loadQueue
    /\ UNCHANGED <<managerVars, backVars, contributions, resets, activationEvents, manager, history, load>>

\* The queue calls doLoad, which marks itself connected and asks for the deployed ids.
LoadBegins ==
    /\ load.pc = "none"
    /\ loadQueue > 0
    /\ loadQueue' = loadQueue - 1
    /\ load' = [pc |-> "ids", connected |-> TRUE, plugins |-> {}]
    /\ UNCHANGED <<managerVars, backVars, contributions, resets, activationEvents, manager, history,
                   debounced>>

\* Faulty: what is unloaded goes on in the plug-in host.
NothingToStop(gone) == {}

\* Among those unloaded, disposing the contributions calls $stop for these.
ToStop(gone) == {p \in gone : contributions[p] = "started"}

\* syncPlugins: what is not deployed any more is unloaded, and stopped if it was started.
\* The back end forks the host of the connection when it is asked the first time.
IdsReceived ==
    LET gone == Known \ deployed
        new  == deployed \ Known
        stop == SetToSeq(ToStop(gone))
    IN  /\ load.pc = "ids"
        /\ up
        /\ running' = (running \/ deployed # {})
        /\ contributions' = [p \in Plugins |-> IF p \in gone THEN "absent" ELSE contributions[p]]
        /\ resets' = resets \ gone
        /\ Post([i \in 1 .. Len(stop) |-> [call |-> "stop", plugin |-> stop[i]]])
        /\ load' = IF new = {} THEN Await("layout") ELSE [Await("plugins") EXCEPT !.plugins = new]
        /\ stranded' = {p \in stranded \ gone : contributions[p] = "starting"}
        /\ forgotten' = forgotten \cup {p \in gone : contributions[p] = "starting"}
        /\ UNCHANGED <<reply, hostVars, failures, up, connections, crashed, deployed, deploys,
                       notices, activationEvents, manager, debounced, loadQueue>>

\* getDeployedPlugins answers with those that are still deployed.
PluginsReceived ==
    /\ load.pc = "plugins"
    /\ up
    /\ contributions' = [p \in Plugins |-> IF p \in load.plugins \cap deployed THEN "initializing"
                                           ELSE contributions[p]]
    /\ load' = [Await("layout") EXCEPT !.plugins = {}]
    /\ UNCHANGED <<managerVars, backVars, resets, activationEvents, manager, history, debounced, loadQueue>>

\* The layout is initialized: loadContributions, unless disconnected meanwhile.
LayoutReady ==
    /\ load.pc = "layout"
    /\ IF load.connected
       THEN LET toStart == {p \in Plugins : contributions[p] \in {"initializing", "loaded"}}
            IN  /\ contributions' = [p \in Plugins |-> IF p \in toStart THEN "starting"
                                                       ELSE contributions[p]]
                /\ resets' = resets \cup toStart
                /\ load' = [Await("widgets") EXCEPT !.plugins = toStart]
       ELSE /\ load' = NoLoad
            /\ UNCHANGED <<contributions, resets>>
    /\ UNCHANGED <<managerVars, backVars, activationEvents, manager, history, debounced, loadQueue>>

\* Widgets, preferences and workspace are ready: startPlugins, unless disconnected.
WidgetsReady ==
    /\ load.pc = "widgets"
    /\ load' = IF load.connected THEN Await("paths") ELSE NoLoad
    /\ UNCHANGED <<managerVars, backVars, contributions, resets, activationEvents, manager, history,
                   debounced, loadQueue>>

\* Faulty: what has been raised so far is left to the host.
StartCallWithoutEvents == [call |-> "start", plugins |-> load.plugins, events |-> <<>>]

StartCall == [call |-> "start", plugins |-> load.plugins, events |-> activationEvents]

\* activateByEvent(e) for an event raised the first time.
Raise(e) ==
    /\ activationEvents' = Append(activationEvents, e)
    /\ IF manager THEN Post(<<[call |-> "event", event |-> e]>>) ELSE UNCHANGED inbox

\* The end of startPlugins: activateByEvent('onStartupFinished').
FinishStart ==
    IF StartupFinished \in ToSet(activationEvents)
    THEN /\ load' = NoLoad
         /\ UNCHANGED <<inbox, activationEvents>>
    ELSE /\ Raise(StartupFinished)
         /\ load' = IF manager THEN Await("finished") ELSE NoLoad

\* The paths are known: the manager of the host is obtained, and its plug-ins started.
PathsReceived ==
    /\ load.pc = "paths"
    /\ up
    /\ \/ /\ load.plugins = {}
          /\ FinishStart
          /\ UNCHANGED manager
       \/ /\ load.plugins # {} /\ manager
          /\ Post(<<StartCall>>)
          /\ load' = Await("start")
          /\ UNCHANGED <<activationEvents, manager>>
       \/ /\ load.plugins # {} /\ ~manager
          /\ manager' = TRUE
          /\ load' = Await("info")
          /\ UNCHANGED <<inbox, activationEvents>>
    /\ UNCHANGED <<reply, hostVars, failures, backVars, contributions, resets, history, debounced, loadQueue>>

\* What $init needs has been collected.
InfoReceived ==
    /\ load.pc = "info"
    /\ up
    /\ Post(<<[call |-> "init"]>>)
    /\ load' = Await("init")
    /\ UNCHANGED <<reply, hostVars, failures, backVars, contributions, resets, activationEvents,
                   manager, history, debounced, loadQueue>>

InitReplied ==
    /\ load.pc = "init"
    /\ reply = "init"
    /\ reply' = "none"
    /\ Post(<<StartCall>>)
    /\ load' = Await("start")
    /\ UNCHANGED <<hostVars, failures, backVars, contributions, resets, activationEvents, manager,
                   history, debounced, loadQueue>>

StartReplied ==
    /\ load.pc = "start"
    /\ reply = "start"
    /\ reply' = "none"
    /\ contributions' = [p \in Plugins |-> IF p \in load.plugins THEN "started" ELSE contributions[p]]
    /\ forgotten' = forgotten \ load.plugins
    /\ FinishStart
    /\ UNCHANGED <<hostVars, failures, backVars, resets, manager, stranded, debounced, loadQueue>>

\* $start is rejected, and that only logged: its plug-ins stay in the state STARTING, from
\* which no later load takes them.
StartFailed ==
    /\ load.pc = "start"
    /\ reply = "startRejected"
    /\ reply' = "none"
    /\ stranded' = stranded \cup Unsettled
    /\ FinishStart
    /\ UNCHANGED <<hostVars, failures, backVars, contributions, resets, manager, forgotten,
                   debounced, loadQueue>>

FinishedReplied ==
    /\ load.pc = "finished"
    /\ reply \in {"event", "eventRejected"}
    /\ reply' = "none"
    /\ load' = NoLoad
    /\ UNCHANGED <<inbox, hostVars, failures, backVars, contributions, resets, activationEvents,
                   manager, history, debounced, loadQueue>>

\* A request of the load is rejected, or the widgets cannot be made: the error is logged,
\* and the load is over with whatever it has done so far.
LoadFails ==
    /\ up
    /\ failures < MaxFailures
    /\ failures' = failures + 1
    /\ \/ /\ load.pc \in {"ids", "plugins", "widgets", "paths", "info"}
          /\ UNCHANGED reply
       \/ /\ load.pc = "init" /\ reply = "init"
          /\ reply' = "none"
    /\ load' = NoLoad
    /\ stranded' = stranded \cup Unsettled
    /\ UNCHANGED <<inbox, hostVars, backVars, contributions, resets, activationEvents, manager,
                   forgotten, debounced, loadQueue>>

\* Somebody opens a file, runs a command, ...: activateByEvent(e).
RaiseEvent(e) ==
    /\ e \notin ToSet(activationEvents)
    /\ Raise(e)
    /\ UNCHANGED <<reply, hostVars, failures, backVars, contributions, resets, manager, history,
                   debounced, loadQueue, load>>

\* onDidDeploy arrives.
Notice ==
    /\ notices > 0
    /\ notices' = notices - 1
    /\ Load
    /\ UNCHANGED <<managerVars, up, connections, running, crashed, deployed, deploys, contributions,
                   resets, activationEvents, manager, history, load>>

-----------------------------------------------------------------------------
\* A plug-in is deployed or undeployed, by this user or another one.
Deploy ==
    /\ deploys < MaxDeploys
    /\ deploys' = deploys + 1
    /\ \E p \in Changing :
          deployed' = IF p \in deployed THEN deployed \ {p} ELSE deployed \cup {p}
    /\ notices' = IF up THEN notices + 1 ELSE notices
    /\ UNCHANGED <<managerVars, frontVars, up, connections, running, crashed>>

(***************************************************************************)
(* The connection closes.  The back end terminates the plug-in host.  All   *)
(* collections toDisconnect are disposed: states are reset, the manager and *)
(* its protocol go.  What waits for an answer fails; the load goes on only  *)
(* where it waits for the front end itself.  A failed $start, or the last   *)
(* of the information for $init coming from the front end, still raises     *)
(* onStartupFinished.                                                       *)
(***************************************************************************)
Disconnect ==
    LET local  == load.pc \in {"layout", "widgets"}
        raises == StartupFinished \notin ToSet(activationEvents)
    IN  /\ up
        /\ connections < MaxConnections
        /\ up' = FALSE
        /\ running' = FALSE
        /\ crashed' = FALSE
        /\ notices' = 0
        /\ contributions' = [p \in Plugins |-> IF p \in resets THEN "loaded" ELSE contributions[p]]
        /\ resets' = {}
        /\ manager' = FALSE
        /\ stranded' = {} /\ forgotten' = {}
        /\ load' = IF local THEN [load EXCEPT !.connected = FALSE] ELSE NoLoad
        /\ \/ /\ load.pc # "start" \/ ~raises
              /\ UNCHANGED activationEvents
           \/ /\ load.pc \in {"start", "info"} /\ raises
              /\ activationEvents' = Append(activationEvents, StartupFinished)
        /\ Replaced
        /\ UNCHANGED <<failures, connections, deployed, deploys, debounced, loadQueue>>

\* The plug-in host ends by itself.  The user is asked to reload the page: nothing is
\* started again before, and nobody is told.
HostCrashes ==
    /\ running /\ ~crashed
    /\ failures < MaxFailures
    /\ failures' = failures + 1
    /\ crashed' = TRUE
    /\ Ended
    /\ UNCHANGED <<reply, frontVars, up, connections, running, deployed, deploys, notices>>

\* The connection is open again: onDidOpenConnection calls load().
Connect ==
    /\ ~up
    /\ up' = TRUE
    /\ connections' = connections + 1
    /\ Load
    /\ UNCHANGED <<managerVars, running, crashed, deployed, deploys, notices, contributions, resets,
                   activationEvents, manager, history, load>>

-----------------------------------------------------------------------------
\* onStart calls load(), with or without a connection.
Init ==
    /\ Fresh
    /\ failures = 0
    /\ up = TRUE
    /\ connections = 0
    /\ running = FALSE
    /\ crashed = FALSE
    /\ deployed = FirstDeployed
    /\ deploys = 0
    /\ notices = 0
    /\ contributions = [p \in Plugins |-> "absent"]
    /\ resets = {}
    /\ activationEvents = <<>>
    /\ manager = FALSE
    /\ stranded = {} /\ forgotten = {}
    /\ debounced = "armed"
    /\ loadQueue = 1
    /\ load = NoLoad

Host == ManagerStep /\ UNCHANGED <<frontVars, backVars>>

FrontLoads ==
    \/ DebounceTimer \/ LoadBegins \/ IdsReceived \/ PluginsReceived \/ LayoutReady
    \/ WidgetsReady \/ PathsReceived \/ InfoReceived \/ InitReplied \/ StartReplied
    \/ StartFailed \/ FinishedReplied \/ Notice

Next ==
    \/ Host
    \/ FrontLoads
    \/ \E e \in Events \ {StartupFinished} : RaiseEvent(e)
    \/ Deploy
    \/ LoadFails
    \/ HostCrashes
    \/ Disconnect
    \/ Connect

Spec == Init /\ [][Next]_vars

\* Requests are answered, timers fire, and start methods end.  Nothing is
\* assumed of the network, of deployments and of the user.
FairSpec == Spec /\ WF_vars(Host) /\ WF_vars(FrontLoads)

-----------------------------------------------------------------------------
FrontTypeOK ==
    /\ up \in BOOLEAN /\ connections \in Nat /\ running \in BOOLEAN /\ crashed \in BOOLEAN
    /\ deployed \subseteq Plugins /\ deploys \in Nat /\ notices \in Nat
    /\ contributions \in [Plugins -> {"absent", "initializing", "loaded", "starting", "started"}]
    /\ resets \subseteq Plugins
    /\ activationEvents \in Seq(Events)
    /\ manager \in BOOLEAN
    /\ stranded \subseteq Plugins /\ forgotten \subseteq Plugins
    /\ debounced \in {"idle", "armed", "again"} /\ loadQueue \in Nat
    /\ load \in [pc : {"none", "ids", "plugins", "layout", "widgets", "paths", "info", "init",
                        "start", "finished"},
                  connected : BOOLEAN, plugins : SUBSET Plugins]

\* Every variable has its type.
TypeOK == ManagerTypeOK /\ FrontTypeOK

\* Is a call of this kind, about x, under way?
StopSent(p) == \E i \in 1 .. Len(inbox) : inbox[i].call = "stop" /\ inbox[i].plugin = p
EventSent(e) == \E i \in 1 .. Len(inbox) : inbox[i].call = "event" /\ inbox[i].event = e

\* What the front end holds for started is registered in the plug-in host of the current
\* connection, and the host has no other plug-ins but those it is just told to start or
\* stop: reconnecting, undeploying and loading keep both sides together.  Three exceptions
\* are failures that the front end is not told of, or does not clear up: a host that has
\* crashed, a plug-in whose manifest the host could not read, which the front end holds for
\* started all the same, and one that is undeployed after its $start was rejected, which
\* is not told to stop.
HostsAgree ==
    /\ \A p \in Plugins : contributions[p] = "started" =>
          up /\ running /\ manager /\ (p \in registry \/ p \in unreadable \/ crashed)
    /\ \A p \in registry :
          contributions[p] \in {"starting", "started"} \/ StopSent(p) \/ p \in forgotten

\* Every activation event raised so far has activated, or tried to, what is started and
\* subscribed to it.  The exceptions are an event that reached the host while $start was
\* reading manifests (until a later $start passes it on once more), a plug-in whose manifest
\* the host could not read, and a host that has crashed.
EventsActivate ==
    \A p \in Plugins, e \in ToSet(activationEvents) :
        contributions[p] = "started" /\ e \in Subscribed[p] /\ ~EventSent(e)
            => loadedPlugins[p] # 0 \/ e \in overlooked \/ p \in unreadable \/ crashed

\* A plug-in that runs is one the host knows, so that it can be stopped, and runs once.
\* The exception is a plug-in told to stop during its activation.
RunningCanBeStopped ==
    \A l \in 1 .. Len(loads) :
        LET p == loads[l].plugin
        IN  loads[l].pc = "started" => p \in hasty \/ (p \in registry /\ activatedPlugins[p] = l)

\* Nothing depends on itself, also not indirectly.
Acyclic ==
    \E rank \in [Plugins -> 1 .. Cardinality(Plugins)] :
        \A p \in Plugins : \A q \in ToSet(DependsOn[p]) : rank[q] < rank[p]

\* The start method of p has returned in this host.
HasStarted(p) == \E l \in 1 .. Len(loads) : loads[l].plugin = p /\ loads[l].pc \in {"started", "stopped"}

\* A plug-in is started after everything it depends on, whichever of them other events
\* are loading at the same time.  (One of them may have been told to stop since: that is
\* not looked at again.)
DependenciesFirst ==
    [][\A l \in 1 .. Len(loads) :
          loads[l].pc = "dependencies" /\ Len(loads') >= l /\ loads'[l].pc = "starting" /\ Acyclic =>
              \A q \in ToSet(DependsOn[loads[l].plugin]) : HasStarted(q)]_vars

\* While the connection lasts, the front end comes to hold exactly the deployed plug-ins,
\* all of them started: no load is forgotten, and none blocks those behind it.  The
\* exceptions are what a load has given up when a request or $start failed, for as long as
\* no other load takes it up, and everything after the plug-in host has crashed.
DeployedGetStarted ==
    Acyclic /\ <>[]up => <>[](crashed \/ \A p \in Unsettled : p \in stranded)
=============================================================================
