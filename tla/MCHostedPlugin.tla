---------------------------- MODULE MCHostedPlugin ----------------------------
(* Three plug-ins: a needs b and c, and b needs c. *)
EXTENDS HostedPlugin

CONSTANTS a, b, c, opened

MCDependsOn == (a :> <<b, c>>) @@ (b :> <<c>>) @@ (c :> <<>>)
MCSubscribed == (a :> {opened}) @@ (b :> {StartupFinished}) @@ (c :> {Eager, opened})
=============================================================================
