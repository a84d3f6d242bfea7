----------------------------- MODULE RemoteCalls -----------------------------
(***************************************************************************)
(* What a proxy obtained from RPCProtocol.getProxy promises to its user:    *)
(* a call settles at most once; it is answered only with what the handler   *)
(* of that very call returned or threw; the handler runs at most once, and  *)
(* only for a call that was made.                                           *)
(***************************************************************************)
CONSTANT Calls

VARIABLES
    promise,    \* call -> what its caller sees
    handler     \* call -> how far the peer's method is

vars == <<promise, handler>>

Init ==
    /\ promise = [c \in Calls |-> "none"]
    /\ handler = [c \in Calls |-> "none"]

Make(c) ==
    /\ promise[c] = "none"
    /\ promise' = [promise EXCEPT ![c] = "pending"]
    /\ UNCHANGED handler

\* The call is rejected at once: connection closed or token cancelled already.
Refuse(c) ==
    /\ promise[c] = "none"
    /\ promise' = [promise EXCEPT ![c] = "rejected"]
    /\ UNCHANGED handler

\* The caller may have given up by the time the handler starts.
Start(c) ==
    /\ promise[c] # "none"
    /\ handler[c] = "none"
    /\ handler' = [handler EXCEPT ![c] = "running"]
    /\ UNCHANGED promise

End(c) ==
    /\ handler[c] = "running"
    /\ \E outcome \in {"returned", "threw"} : handler' = [handler EXCEPT ![c] = outcome]
    /\ UNCHANGED promise

Answer(c) ==
    /\ promise[c] = "pending"
    /\ handler[c] \in {"returned", "threw"}
    /\ promise' = [promise EXCEPT ![c] = handler[c]]
    /\ UNCHANGED handler

\* The protocol is disposed: some of the pending calls, those of one peer, are
\* rejected together.
Close(cs) ==
    /\ \A c \in cs : promise[c] = "pending"
    /\ promise' = [c \in Calls |-> IF c \in cs THEN "rejected" ELSE promise[c]]
    /\ UNCHANGED handler

Next ==
    \/ \E c \in Calls : Make(c) \/ Refuse(c) \/ Start(c) \/ End(c) \/ Answer(c)
    \/ \E cs \in SUBSET Calls : Close(cs)

Spec == Init /\ [][Next]_vars
=============================================================================
