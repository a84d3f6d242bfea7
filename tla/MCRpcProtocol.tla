---------------------------- MODULE MCRpcProtocol ----------------------------
(* The protocol between two named peers, for TLC. *)
EXTENDS RpcProtocol

CONSTANTS main, host

\* The ids of both peers overlap, and one of them has two calls under way.
TwoAndOne == [p \in {main, host} |-> IF p = main THEN 2 ELSE 1]
=============================================================================
