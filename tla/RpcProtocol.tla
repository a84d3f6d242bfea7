----------------------------- MODULE RpcProtocol -----------------------------
(***************************************************************************)
(* The protocol between the main process and a plug-in host: two peers,     *)
(* each an RPCProtocolImpl over an RPCMultiplexer, that call each other's   *)
(* methods through proxies.                                                 *)
(*                                                                         *)
(* Messages are accumulated and sent in one batch by a timer (setImmediate);*)
(* the connection delivers batches in order.  The messages of a batch are   *)
(* handled in one synchronous loop: `inbox' is what is left of it.  While   *)
(* it runs, no timer fires and no promise callback runs, but the handlers   *)
(* it invokes may make calls, cancel tokens and dispose the protocol.       *)
(*                                                                         *)
(* Source: packages/plugin-ext/src/common/rpc-protocol.ts                   *)
(*                                                                         *)
(* Arguments and results are abstracted to the call they belong to: call    *)
(* <<p, n>> is the n-th that peer p made, whatever id it was given.         *)
(***************************************************************************)
EXTENDS Integers, Sequences, FiniteSets

CONSTANTS
    Peers,      \* the two ends of the connection
    MaxCalls,   \* bound: peer -> calls it makes
    MaxCancels, \* bound: tokens cancelled
    MaxDisposed \* bound: peers disposed

ASSUME PeersAssumption == IsFiniteSet(Peers) /\ Cardinality(Peers) = 2
ASSUME BoundAssumption == MaxCalls \in [Peers -> Nat] /\ MaxCancels \in Nat /\ MaxDisposed \in Nat

VARIABLES
    disposed,   \* peer -> toDispose.disposed
    lastId,     \* peer -> lastMessageId
    calls,      \* peer -> its calls: id, token, the promise, the handler (history)
    pending,    \* pendingRPCReplies: peer -> id -> the number of the call, or 0
    sources,    \* cancellationTokenSources: peer -> id -> none, live or cancelled
    running,    \* peer -> the invocations of its handlers that have not settled
    outbox,     \* peer -> messagesToSend
    scheduled,  \* peer -> sendAccumulated is scheduled
    wire,       \* peer -> batches on their way to the other peer
    inbox       \* peer -> messages of the current batch still to be handled

local == <<lastId, calls, pending, sources, running>>
sending == <<outbox, scheduled>>
vars == <<disposed, local, sending, wire, inbox>>

Other(p) == CHOOSE q \in Peers : q # p
Ids(p) == 1 .. MaxCalls[p]

-----------------------------------------------------------------------------
Request(id, n, token) == [type |-> "request", id |-> id, call |-> n, token |-> token]
CancelOf(id) == [type |-> "cancel", id |-> id]
Reply(id, n, outcome) == [type |-> "reply", id |-> id, call |-> n, outcome |-> outcome]

\* RPCMultiplexer.send by a peer that is not disposed.
Send(p, msg) ==
    /\ outbox' = [outbox EXCEPT ![p] = Append(@, msg)]
    /\ scheduled' = [scheduled EXCEPT ![p] = TRUE]

\* No synchronous loop over a batch is running: timers and promise callbacks
\* get their turn.
Idle(p) == inbox[p] = <<>>

Settle(p, n, outcome) == calls' = [calls EXCEPT ![p][n].promise = outcome]

\* Faulty: calls are given the id of the call before them.
NextIdRepeated(p) == IF lastId[p] = 0 THEN 1 ELSE lastId[p]

NextId(p) == lastId[p] + 1

\* A call that is rejected at once: no id is given and the token is not listened to.
Refused == [id |-> 0, token |-> "none", promise |-> "rejected", handler |-> "none"]

\* remoteCall with a token in state `token', or none.
Call(p, token) ==
    LET n  == Len(calls[p]) + 1
        id == NextId(p)
        made == [id |-> id, token |-> token, promise |-> "pending", handler |-> "none"]
    IN  /\ n <= MaxCalls[p]
        /\ IF disposed[p] \/ token = "cancelled"
           THEN /\ calls' = [calls EXCEPT ![p] = Append(@, Refused)]
                /\ UNCHANGED <<lastId, pending, sending>>
           ELSE /\ calls' = [calls EXCEPT ![p] = Append(@, made)]
                /\ lastId' = [lastId EXCEPT ![p] = id]
                /\ pending' = [pending EXCEPT ![p][id] = n]
                /\ Send(p, Request(id, n, token = "live"))
        /\ UNCHANGED <<disposed, sources, running, wire, inbox>>

Cancelled == UNION {{<<p, n>> : n \in {m \in DOMAIN calls[p] : calls[p][m].token = "cancelled"}} : p \in Peers}

\* Faulty: the cancellation is not accumulated with the messages before it.
CancelTokenAtOnce(p, n) ==
    /\ calls[p][n].token = "live"
    /\ Cardinality(Cancelled) < MaxCancels
    /\ calls' = [calls EXCEPT ![p][n].token = "cancelled"]
    /\ wire' = IF disposed[p] THEN wire
               ELSE [wire EXCEPT ![p] = Append(@, <<CancelOf(calls[p][n].id)>>)]
    /\ UNCHANGED <<disposed, lastId, pending, sources, running, sending, inbox>>

\* The token of a call is cancelled, at any time, also after the answer; on a
\* closed connection the listener throws.
CancelToken(p, n) ==
    /\ calls[p][n].token = "live"
    /\ Cardinality(Cancelled) < MaxCancels
    /\ calls' = [calls EXCEPT ![p][n].token = "cancelled"]
    /\ IF disposed[p] THEN UNCHANGED sending ELSE Send(p, CancelOf(calls[p][n].id))
    /\ UNCHANGED <<disposed, lastId, pending, sources, running, wire, inbox>>

\* Faulty: the messages stay queued after they have been sent.
SendAccumulatedKeeping(p) ==
    /\ scheduled[p]
    /\ Idle(p)
    /\ wire' = [wire EXCEPT ![p] = Append(@, outbox[p])]
    /\ scheduled' = [scheduled EXCEPT ![p] = FALSE]
    /\ UNCHANGED <<disposed, local, outbox, inbox>>

\* sendAccumulated: the batch is empty when the protocol was disposed meanwhile.
SendAccumulated(p) ==
    /\ scheduled[p]
    /\ Idle(p)
    /\ wire' = [wire EXCEPT ![p] = Append(@, outbox[p])]
    /\ outbox' = [outbox EXCEPT ![p] = <<>>]
    /\ scheduled' = [scheduled EXCEPT ![p] = FALSE]
    /\ UNCHANGED <<disposed, local, inbox>>

\* A batch reaches the multiplexer, which has stopped listening once disposed.
Receive(p) ==
    /\ wire[Other(p)] # <<>>
    /\ Idle(p)
    /\ wire' = [wire EXCEPT ![Other(p)] = Tail(@)]
    /\ inbox' = [inbox EXCEPT ![p] = IF disposed[p] THEN <<>> ELSE Head(wire[Other(p)])]
    /\ UNCHANGED <<disposed, local, sending>>

\* receiveRequest: the handler is invoked; whether it settles at once is up to it.
ReceiveRequest(p, msg) ==
    /\ running' = [running EXCEPT ![p] = @ \cup {[id |-> msg.id, call |-> msg.call, token |-> msg.token]}]
    /\ sources' = IF msg.token THEN [sources EXCEPT ![p][msg.id] = "live"] ELSE sources
    /\ calls' = [calls EXCEPT ![Other(p)][msg.call].handler = "running"]
    /\ UNCHANGED <<pending>>

\* receiveReply and receiveReplyErr.
ReceiveReply(p, msg) ==
    /\ IF pending[p][msg.id] = 0
       THEN UNCHANGED <<calls, pending>>
       ELSE /\ Settle(p, pending[p][msg.id], msg.outcome)
            /\ pending' = [pending EXCEPT ![p][msg.id] = 0]
    /\ UNCHANGED <<sources, running>>

\* receiveCancel: a handler that has settled already is not told.
ReceiveCancel(p, msg) ==
    /\ sources' = IF sources[p][msg.id] = "live"
                  THEN [sources EXCEPT ![p][msg.id] = "cancelled"] ELSE sources
    /\ UNCHANGED <<calls, pending, running>>

\* receiveOneMessage, one round of the loop over the batch.
ReceiveOneMessage(p) ==
    LET msg == Head(inbox[p])
    IN  /\ inbox[p] # <<>>
        /\ inbox' = [inbox EXCEPT ![p] = Tail(@)]
        /\ \/ msg.type = "request" /\ ReceiveRequest(p, msg)
           \/ msg.type = "reply" /\ ReceiveReply(p, msg)
           \/ msg.type = "cancel" /\ ReceiveCancel(p, msg)
        /\ UNCHANGED <<disposed, lastId, sending, wire>>

\* Faulty: an error of a handler is not sent back.
ReturnLosingErrors(p, inv, outcome) ==
    /\ Idle(p)
    /\ running' = [running EXCEPT ![p] = @ \ {inv}]
    /\ sources' = [sources EXCEPT ![p][inv.id] = "none"]
    /\ calls' = [calls EXCEPT ![Other(p)][inv.call].handler = outcome]
    /\ IF disposed[p] \/ outcome = "threw"
       THEN UNCHANGED sending ELSE Send(p, Reply(inv.id, inv.call, outcome))
    /\ UNCHANGED <<disposed, lastId, pending, wire, inbox>>

\* Faulty: the token source outlives the invocation.
ReturnKeepingSource(p, inv, outcome) ==
    /\ Idle(p)
    /\ running' = [running EXCEPT ![p] = @ \ {inv}]
    /\ calls' = [calls EXCEPT ![Other(p)][inv.call].handler = outcome]
    /\ IF disposed[p] THEN UNCHANGED sending ELSE Send(p, Reply(inv.id, inv.call, outcome))
    /\ UNCHANGED <<disposed, lastId, pending, sources, wire, inbox>>

\* The promise of an invocation settles; on a closed connection the reply is lost.
Return(p, inv, outcome) ==
    /\ Idle(p)
    /\ running' = [running EXCEPT ![p] = @ \ {inv}]
    /\ sources' = [sources EXCEPT ![p][inv.id] = "none"]
    /\ calls' = [calls EXCEPT ![Other(p)][inv.call].handler = outcome]
    /\ IF disposed[p] THEN UNCHANGED sending ELSE Send(p, Reply(inv.id, inv.call, outcome))
    /\ UNCHANGED <<disposed, lastId, pending, wire, inbox>>

MayDispose == Cardinality({p \in Peers : disposed[p]}) < MaxDisposed

\* Faulty: the calls that wait for a reply are forgotten and not rejected.
DisposeForgetting(p) ==
    /\ ~disposed[p]
    /\ MayDispose
    /\ disposed' = [disposed EXCEPT ![p] = TRUE]
    /\ pending' = [pending EXCEPT ![p] = [id \in Ids(p) |-> 0]]
    /\ outbox' = [outbox EXCEPT ![p] = <<>>]
    /\ inbox' = [inbox EXCEPT ![p] = <<>>]
    /\ UNCHANGED <<lastId, calls, sources, running, scheduled, wire>>

\* dispose(): all pending calls are rejected; what is queued is dropped, and so is
\* the rest of the batch, for the emitter is disposed.  The peer is not told.
Dispose(p) ==
    LET waiting == {pending[p][id] : id \in Ids(p)}
    IN  /\ ~disposed[p]
        /\ MayDispose
        /\ disposed' = [disposed EXCEPT ![p] = TRUE]
        /\ calls' = [calls EXCEPT ![p] =
                        [n \in DOMAIN @ |-> IF n \in waiting THEN [@[n] EXCEPT !.promise = "rejected"] ELSE @[n]]]
        /\ pending' = [pending EXCEPT ![p] = [id \in Ids(p) |-> 0]]
        /\ outbox' = [outbox EXCEPT ![p] = <<>>]
        /\ inbox' = [inbox EXCEPT ![p] = <<>>]
        /\ UNCHANGED <<lastId, sources, running, scheduled, wire>>

-----------------------------------------------------------------------------
Init ==
    /\ disposed = [p \in Peers |-> FALSE]
    /\ lastId = [p \in Peers |-> 0]
    /\ calls = [p \in Peers |-> <<>>]
    /\ pending = [p \in Peers |-> [id \in Ids(p) |-> 0]]
    /\ sources = [p \in Peers |-> [id \in Ids(Other(p)) |-> "none"]]
    /\ running = [p \in Peers |-> {}]
    /\ outbox = [p \in Peers |-> <<>>]
    /\ scheduled = [p \in Peers |-> FALSE]
    /\ wire = [p \in Peers |-> <<>>]
    /\ inbox = [p \in Peers |-> <<>>]

\* What the machinery does by itself, and the end of a handler.
Progress(p) ==
    \/ SendAccumulated(p) \/ Receive(p) \/ ReceiveOneMessage(p)
    \/ \E inv \in running[p], outcome \in {"returned", "threw"} : Return(p, inv, outcome)

Next == \E p \in Peers :
    \/ \E token \in {"none", "live", "cancelled"} : Call(p, token)
    \/ \E n \in DOMAIN calls[p] : CancelToken(p, n)
    \/ Dispose(p)
    \/ Progress(p)

Spec == Init /\ [][Next]_vars

\* Timers fire, the connection delivers, and handlers end.
FairSpec == Spec /\ \A p \in Peers : WF_vars(Progress(p))

-----------------------------------------------------------------------------
\* What `p' may send: its requests and cancellations, and replies to its peer.
Messages(p) ==
    [type : {"request"}, id : Ids(p), call : Ids(p), token : BOOLEAN]
    \cup [type : {"cancel"}, id : Ids(p)]
    \cup [type : {"reply"}, id : Ids(Other(p)), call : Ids(Other(p)), outcome : {"returned", "threw"}]
CallRecords(p) ==
    [id : {0} \cup Ids(p), token : {"none", "live", "cancelled"},
     promise : {"pending", "returned", "threw", "rejected"},
     handler : {"none", "running", "returned", "threw"}]

\* Type invariant; what is queued is going to be sent, and a disposed peer has
\* nothing queued.
TypeOK ==
    /\ disposed \in [Peers -> BOOLEAN]
    /\ scheduled \in [Peers -> BOOLEAN]
    /\ \A p \in Peers :
          /\ lastId[p] \in 0 .. MaxCalls[p]
          /\ calls[p] \in Seq(CallRecords(p))
          /\ pending[p] \in [Ids(p) -> 0 .. MaxCalls[p]]
          /\ sources[p] \in [Ids(Other(p)) -> {"none", "live", "cancelled"}]
          /\ running[p] \subseteq [id : Ids(Other(p)), call : Ids(Other(p)), token : BOOLEAN]
          /\ outbox[p] \in Seq(Messages(p))
          /\ wire[p] \in Seq(Seq(Messages(p)))
          /\ inbox[p] \in Seq(Messages(Other(p)))
          /\ outbox[p] # <<>> => scheduled[p] /\ ~disposed[p]

\* The messages of `p' that its peer has not handled, batch by batch and in their order.
Road(p) == <<inbox[Other(p)]>> \o wire[p] \o <<outbox[p]>>
Places(road) == UNION {{b} \X DOMAIN road[b] : b \in DOMAIN road}
OnRoad(p, type, id) ==
    LET road == Road(p)
    IN  {x \in Places(road) : LET msg == road[x[1]][x[2]] IN msg.type = type /\ msg.id = id}

\* As long as both peers are up, a pending call is in exactly one place: its
\* request is on the road, or its handler is running, or its reply is on the
\* road; and the caller will find it under its id.  No call is lost in a queue,
\* in a batch or by an error of its handler.
NoCallIsLost ==
    \A p \in Peers : \A n \in DOMAIN calls[p] :
        calls[p][n].promise = "pending" =>
            LET id == calls[p][n].id
            IN  /\ pending[p][id] = n
                /\ (\A q \in Peers : ~disposed[q]) =>
                      Cardinality(OnRoad(p, "request", id))
                      + Cardinality({inv \in running[Other(p)] : inv.id = id})
                      + Cardinality(OnRoad(Other(p), "reply", id)) = 1

\* A cancellation never overtakes the request it is for, and reaches the handler
\* unless that ended first; no other handler is told, although both peers number
\* their calls from 1.
CancellationsArrive ==
    \A p \in Peers : \A inv \in running[Other(p)] :
        inv.token /\ ~disposed[p] /\ ~disposed[Other(p)] =>
            /\ calls[p][inv.call].token = "cancelled" <=>
                  sources[Other(p)][inv.id] = "cancelled" \/ OnRoad(p, "cancel", inv.id) # {}

\* Token sources are kept for the running invocations that have a token, and
\* for nothing else, even when the protocol is disposed under them.
SourcesOfRunning ==
    \A p \in Peers : \A id \in Ids(Other(p)) :
        sources[p][id] # "none" <=> \E inv \in running[p] : inv.id = id /\ inv.token

\* The calls of both peers as their users see them.
Calls == UNION {{p} \X Ids(p) : p \in Peers}
Made(c) == c[2] \in DOMAIN calls[c[1]]
Waiting(c) == Made(c) /\ calls[c[1]][c[2]].promise = "pending"
Abstract == INSTANCE RemoteCalls WITH
    promise <- [c \in Calls |-> IF Made(c) THEN calls[c[1]][c[2]].promise ELSE "none"],
    handler <- [c \in Calls |-> IF Made(c) THEN calls[c[1]][c[2]].handler ELSE "none"]

\* Each call gets the answer of its own handler, which runs at most once.
CallsAsPromised == Abstract!Spec

\* No call waits for ever, unless the other peer was disposed: that of a closed
\* connection is rejected, every other is answered.
CallsSettle ==
    \A c \in Calls : []<>(~Waiting(c) \/ disposed[Other(c[1])])
=============================================================================
