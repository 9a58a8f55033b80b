------------------------------- MODULE MCGate -------------------------------
(* Gate with one or two subjects and few ticks, for TLC.                   *)
EXTENDS Gate

ClientOnly == <<"client">>
ClientAndServer == <<"client", "server">>

=============================================================================
