----------------------------- MODULE MCChannels -----------------------------
(* Channels for two services, one of which is not asked for again. *)
EXTENDS Channels, TLC

CONSTANTS lasting, once
McPaths == {lasting, once}
McOnce == {once}
=============================================================================
