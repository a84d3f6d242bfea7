---------------------------- MODULE MCFileWatching ----------------------------
(* File watching with few frontends, sessions and changes, for TLC. *)
EXTENDS FileWatching

MCCalls == [session : Clients, id : Ids]
=============================================================================
