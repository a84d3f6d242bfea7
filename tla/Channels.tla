------------------------------- MODULE Channels -------------------------------
(***************************************************************************)
(* The channels over which a frontend talks to the services of the backend: *)
(* one for each service path, multiplexed over a web socket that reconnects *)
(* and, when that fails too often, over HTTP requests.                      *)
(*                                                                         *)
(* The session is what the backend keeps for a connection: a web socket, or *)
(* an HttpWebsocketAdapter. Only that of the current connection is kept: one *)
(* the frontend has left goes on for a while, closes its channels and tells *)
(* nobody. Data messages only matter to who is at the ends of a channel and *)
(* are left out.                                                            *)
(*                                                                         *)
(* Sources: packages/core/src/browser/messaging/ws-connection-provider.ts,  *)
(* common/messaging/abstract-connection-provider.ts and                     *)
(* web-socket-channel.ts, node/messaging/messaging-contribution.ts and      *)
(* http-websocket-adapter.ts                                                *)
(***************************************************************************)
EXTENDS Integers, Sequences, FiniteSets

CONSTANTS
    Paths,        \* paths of services
    Once,         \* those asked for with reconnecting: false
    MaxAttempts,  \* maxAttempts: errors of the socket before the fallback
    MaxBreaks,    \* bound: connections that break
    MaxCloses,    \* bound: channels that are closed or refused for other reasons
    MaxLosses     \* bound: HTTP requests that are lost, adapters that are dropped

ASSUME ChannelAssumption ==
    /\ Once \subseteq Paths
    /\ MaxAttempts \in Nat \ {0}
    /\ MaxBreaks \in Nat /\ MaxCloses \in Nat /\ MaxLosses \in Nat

VARIABLES
    socket,      \* "connecting", "open", or "fallback": the socket is not used any more
    errors,      \* websocketErrorCounter
    requested,   \* paths that were asked for
    waiting,     \* paths whose openChannel listens to the opening of the socket
    activators,  \* paths whose openChannel listens to the activation of the fallback
    channels,    \* the channels of the frontend so far: channelIdSeq is their number
    session,     \* the session of the connection
    down,        \* messages on their way from the session to the frontend
    posts,       \* messages on their way as HTTP requests, in no order
    breaks, closes, losses

front == <<socket, errors, requested, waiting, activators, channels>>
counts == <<breaks, closes, losses>>
vars == <<front, session, down, posts, counts>>

Live(i) == channels[i].status # "closed"

-----------------------------------------------------------------------------
(* The frontend *)

NoSession == [status |-> "none", served |-> {}, up |-> <<>>]
NewSession == [NoSession EXCEPT !.status = "open"]

\* AbstractConnectionProvider.openChannel for each of the paths.
Opened(chans, paths) == chans \o [i \in DOMAIN paths |-> [path |-> paths[i], status |-> "opening"]]

OpenMessages(chans, paths) ==
    [i \in DOMAIN paths |-> [kind |-> "open", id |-> Len(chans) + i, path |-> paths[i]]]

\* doSend: over the socket, in order, or with a request for each message.
Send(msgs) ==
    IF socket = "fallback"
    THEN /\ posts' = posts \cup {msgs[i] : i \in DOMAIN msgs}
         /\ UNCHANGED session
    ELSE /\ session' = IF session.status = "open" THEN [session EXCEPT !.up = @ \o msgs] ELSE session
         /\ UNCHANGED posts

\* createProxy, listen: a channel is opened now, or by either of two listeners.
Request(p) ==
    /\ p \notin requested
    /\ requested' = requested \cup {p}
    /\ IF socket = "connecting"
       THEN /\ waiting' = Append(waiting, p)
            /\ activators' = Append(activators, p)
            /\ UNCHANGED <<channels, session, posts>>
       ELSE /\ channels' = Opened(channels, <<p>>)
            /\ Send(OpenMessages(channels, <<p>>))
            /\ UNCHANGED <<waiting, activators>>
    /\ UNCHANGED <<socket, errors, down, counts>>

\* Faulty: the listeners stay.
SocketOpensAgain ==
    /\ socket = "connecting"
    /\ socket' = "open"
    /\ session' = [NewSession EXCEPT !.up = OpenMessages(channels, waiting)]
    /\ channels' = Opened(channels, waiting)
    /\ UNCHANGED <<errors, requested, waiting, activators, down, posts, counts>>

\* The socket opens: those that wait for it open their channels and stop listening to
\* it, but not to the fallback.
SocketOpens ==
    /\ socket = "connecting"
    /\ socket' = "open"
    /\ session' = [NewSession EXCEPT !.up = OpenMessages(channels, waiting)]
    /\ channels' = Opened(channels, waiting)
    /\ waiting' = <<>>
    /\ UNCHANGED <<errors, requested, activators, down, posts, counts>>

\* The paths of some channels, in the order of the channels.
PathsOf(ids) ==
    LET place(i) == Cardinality({k \in ids : k <= i})
    IN  [j \in 1 .. Cardinality(ids) |-> channels[CHOOSE i \in ids : place(i) = j].path]

\* Paths of those of the channels that ask for another one when they are closed.
Reconnecting(ids) == PathsOf({i \in ids : Live(i) /\ channels[i].path \notin Once})

AllClosed == [i \in DOMAIN channels |-> [channels[i] EXCEPT !.status = "closed"]]

\* A connection breaks, unless the backend has closed it before.
Lost == session.status = "closed"
Broken == IF Lost THEN UNCHANGED breaks ELSE breaks < MaxBreaks /\ breaks' = breaks + 1

\* Faulty: the channels of a socket that is closed stay as they are.
SocketDownUnnoticed(error) ==
    /\ socket = "open" \/ (socket = "connecting" /\ error)
    /\ Broken
    /\ session' = NoSession
    /\ down' = <<>>
    /\ errors' = IF error THEN errors + 1 ELSE errors
    /\ socket' = IF errors' >= MaxAttempts THEN "fallback" ELSE "connecting"
    /\ UNCHANGED <<requested, waiting, activators, channels, posts, closes, losses>>

\* The socket is closed, after an error or without one (also to reconnect, when the
\* browser goes online or offline): every channel is closed and asked for again. One
\* error too many activates the fallback, and everybody who has ever waited for the
\* socket opens a channel.
SocketDown(error) ==
    LET again == Reconnecting(DOMAIN channels)
    IN  /\ socket = "open" \/ (socket = "connecting" /\ error)
        /\ Broken
        /\ session' = NoSession
        /\ down' = <<>>
        /\ errors' = IF error THEN errors + 1 ELSE errors
        /\ activators' = activators \o again
        /\ IF error /\ errors' >= MaxAttempts
           THEN LET messages == OpenMessages(channels, activators')
                IN  /\ socket' = "fallback"
                    /\ waiting' = <<>>
                    /\ channels' = Opened(AllClosed, activators')
                    /\ posts' = {messages[i] : i \in DOMAIN messages}
           ELSE /\ socket' = "connecting"
                /\ waiting' = waiting \o again
                /\ channels' = AllClosed
                /\ UNCHANGED posts
        /\ UNCHANGED <<requested, closes, losses>>

\* handleIncomingRawMessage for each of the messages. A channel that is closed is
\* asked for again.
Handle(msgs) ==
    LET got(kind) == {msgs[j].id : j \in {n \in DOMAIN msgs : msgs[n].kind = kind}}
        after == [i \in DOMAIN channels |->
                    IF Live(i) /\ i \in got("close") THEN [channels[i] EXCEPT !.status = "closed"]
                    ELSE IF Live(i) /\ i \in got("ready") THEN [channels[i] EXCEPT !.status = "ready"]
                    ELSE channels[i]]
        again == Reconnecting(got("close"))
    IN  /\ channels' = Opened(after, again)
        /\ Send(OpenMessages(after, again))

FrontReceives ==
    /\ socket = "open"
    /\ down # <<>>
    /\ Handle(<<Head(down)>>)
    /\ down' = Tail(down)
    /\ errors' = 0
    /\ UNCHANGED <<socket, requested, waiting, activators, counts>>

\* The connection of a channel is disposed, which closes the channel.
FrontCloses(i) ==
    LET after == [channels EXCEPT ![i].status = "closed"]
        again == Reconnecting({i})
    IN  /\ channels[i].status = "ready"
        /\ closes < MaxCloses
        /\ closes' = closes + 1
        /\ channels' = Opened(after, again)
        /\ Send(<<[kind |-> "close", id |-> i]>> \o OpenMessages(after, again))
        /\ UNCHANGED <<socket, errors, requested, waiting, activators, down, breaks, losses>>

-----------------------------------------------------------------------------
(* The backend *)

Reply(kind, id) == down' = Append(down, [kind |-> kind, id |-> id])

\* Faulty: a channel is opened without a word.
ServeSilently(known, msg) ==
    /\ session' = IF msg.kind = "open"
                  THEN [known EXCEPT !.served = @ \cup {[id |-> msg.id, path |-> msg.path]}]
                  ELSE [known EXCEPT !.served = {c \in @ : c.id # msg.id}]
    /\ UNCHANGED <<down, closes>>

\* handleChannels: a message of the frontend. A service may refuse a channel by closing
\* it at once, which happens where reconnecting is not asked for.
Serve(known, msg) ==
    \/ /\ msg.kind = "open"
       /\ session' = [known EXCEPT !.served = @ \cup {[id |-> msg.id, path |-> msg.path]}]
       /\ Reply("ready", msg.id)
       /\ UNCHANGED closes
    \/ /\ msg.kind = "open" /\ msg.path \in Once
       /\ closes < MaxCloses
       /\ closes' = closes + 1
       /\ session' = known
       /\ Reply("close", msg.id)
    \/ /\ msg.kind = "close"
       /\ session' = [known EXCEPT !.served = {c \in @ : c.id # msg.id}]
       /\ UNCHANGED <<down, closes>>

BackReceives ==
    /\ session.up # <<>>
    /\ Serve([session EXCEPT !.up = Tail(@)], Head(session.up))
    /\ UNCHANGED <<front, posts, breaks, losses>>

\* The backend finds the socket closed, or terminates it because it does not answer:
\* every channel is closed.
BackLoses ==
    /\ socket = "open" /\ session.status = "open"
    /\ breaks < MaxBreaks
    /\ breaks' = breaks + 1
    /\ session' = [NoSession EXCEPT !.status = "closed"]
    /\ UNCHANGED <<front, down, posts, closes, losses>>

-----------------------------------------------------------------------------
(* The fallback *)

\* An HTTP request arrives; the first one of all makes the adapter.
PostArrives(msg) ==
    /\ msg \in posts
    /\ posts' = posts \ {msg}
    /\ Serve(IF session = NoSession THEN NewSession ELSE session, msg)
    /\ UNCHANGED <<front, breaks, losses>>

\* doLongPolling: the pending messages are fetched.
Poll ==
    /\ socket = "fallback"
    /\ down # <<>>
    /\ Handle(down)
    /\ down' = <<>>
    /\ UNCHANGED <<socket, errors, requested, waiting, activators, counts>>

Lossy ==
    /\ socket = "fallback"
    /\ losses < MaxLosses
    /\ losses' = losses + 1
    /\ UNCHANGED <<front, breaks, closes>>

\* A request fails, or the answer of one is lost.
PostLost(msg) == Lossy /\ msg \in posts /\ posts' = posts \ {msg} /\ UNCHANGED <<session, down>>
PollLost == Lossy /\ down # <<>> /\ down' = <<>> /\ UNCHANGED <<session, posts>>

\* checkAlive: no poll for a while. The adapter is forgotten, with the messages it has
\* for the frontend, which is not told; the next request makes another one.
AdapterDropped ==
    /\ Lossy
    /\ session # NoSession
    /\ session' = NoSession
    /\ down' = <<>>
    /\ UNCHANGED posts

-----------------------------------------------------------------------------
Init ==
    /\ socket = "connecting" /\ errors = 0
    /\ requested = {} /\ waiting = <<>> /\ activators = <<>>
    /\ channels = <<>>
    /\ session = NoSession /\ down = <<>> /\ posts = {}
    /\ breaks = 0 /\ closes = 0 /\ losses = 0

Frontend ==
    \/ \E p \in Paths : Request(p)
    \/ SocketOpens \/ FrontReceives
    \/ \E error \in BOOLEAN : SocketDown(error)
    \/ \E i \in DOMAIN channels : FrontCloses(i)
Backend == BackReceives \/ BackLoses
Http == Poll \/ PollLost \/ AdapterDropped \/ \E msg \in posts : PostArrives(msg) \/ PostLost(msg)

Next == Frontend \/ Backend \/ Http

Spec == Init /\ [][Next]_vars

\* The frontend learns that its socket was closed.
FrontNotices == Lost /\ SocketDown(FALSE)
SomePostArrives == \E msg \in posts : PostArrives(msg)

FairSpec ==
    /\ Spec
    /\ WF_vars(SocketOpens) /\ WF_vars(FrontNotices) /\ WF_vars(FrontReceives)
    /\ WF_vars(BackReceives) /\ WF_vars(SomePostArrives) /\ WF_vars(Poll)

-----------------------------------------------------------------------------
Ids == DOMAIN channels
Messages == [kind : {"open"}, id : Ids, path : Paths] \cup [kind : {"close"}, id : Ids]

\* Every variable has its type.
TypeOK ==
    /\ socket \in {"connecting", "open", "fallback"} /\ errors \in Nat
    /\ requested \subseteq Paths
    /\ waiting \in Seq(Paths) /\ activators \in Seq(Paths)
    /\ channels \in Seq([path : Paths, status : {"opening", "ready", "closed"}])
    /\ session \in [status : {"none", "open", "closed"}, served : SUBSET [id : Ids, path : Paths],
                    up : Seq(Messages)]
    /\ down \in Seq([kind : {"ready", "close"}, id : Ids])
    /\ posts \subseteq Messages
    /\ breaks \in 0 .. MaxBreaks /\ closes \in 0 .. MaxCloses /\ losses \in 0 .. MaxLosses

\* A path that was asked for is never forgotten, and as long as the socket is used,
\* whatever became of it meanwhile, there is one channel for the path or one listener
\* that will open it. (The fallback may open several.)
AskedForOnce ==
    \A p \in requested :
        LET number == Cardinality({i \in Ids : Live(i) /\ channels[i].path = p})
                        + Cardinality({j \in DOMAIN waiting : waiting[j] = p})
        IN  /\ p \notin Once => number >= 1
            /\ socket # "fallback" => number <= 1

Sent == IF socket = "fallback" THEN posts ELSE {session.up[j] : j \in DOMAIN session.up}
Told(kind, i) == \E j \in DOMAIN down : down[j] = [kind |-> kind, id |-> i]

\* Both sides agree on the channels of a connection, up to the messages on their way:
\* a service works for a channel the frontend has for its path, and a channel the
\* frontend believes in has its service. (Until an HTTP request is lost.)
ChannelsAgree ==
    losses = 0 =>
        /\ \A c \in session.served :
              \/ Live(c.id) /\ channels[c.id].path = c.path
              \/ [kind |-> "close", id |-> c.id] \in Sent
        /\ \A i \in Ids :
              LET served == [id |-> i, path |-> channels[i].path] \in session.served
              IN  /\ channels[i].status = "ready" => served \/ Lost
                  /\ channels[i].status = "opening"
                        => \/ [kind |-> "open", id |-> i, path |-> channels[i].path] \in Sent
                           \/ served /\ Told("ready", i)
                           \/ Told("close", i)
                           \/ Lost

Ready(p) == \E c \in session.served : c.path = p /\ channels[c.id].status = "ready"

\* In the end every service that was asked for is connected and stays so, whatever
\* sockets and channels were closed. (Unless an HTTP request is lost.)
ServedInTheEnd == \A p \in Paths \ Once : (p \in requested) ~> [](losses = 0 => Ready(p))
=============================================================================
